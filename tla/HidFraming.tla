----------------------------- MODULE HidFraming -----------------------------
(***************************************************************************)
(* One exchange over USB: the two loops of JubiterHidDevice::SendData that *)
(* cut a command into reports and put the reports of an answer together.   *)
(* The bytes are their places in the message: a report carries the `size'  *)
(* bytes that begin at `from'.  The device is external: it goes by the     *)
(* announced length, and frames its answer as the code's reader expects.   *)
(***************************************************************************)
EXTENDS Naturals

CONSTANTS
  CmdLen,    \* lengths of commands
  RetLen,    \* lengths of the device's answers, announced in two bytes
  Capacity,  \* *pulRetDataLen, the caller's buffer
  MaxWaits   \* bound: keep-alives before an answer

ASSUME FramingAssumption ==
  /\ CmdLen \subseteq Nat
  /\ RetLen \subseteq Nat
  /\ Capacity \in Nat
  /\ MaxWaits \in Nat

VARIABLES
  pc,       \* "write", "read", and how SendData ended
  len,      \* ulSendLen
  offset,   \* of the loop that is running
  count,    \* nPackets
  dev,      \* external: what the device made of the command so far
  retLen,   \* external: the length of its answer
  waits,    \* external: keep-alives it sends before that
  next,     \* external: the report of the answer that is delivered next
  payload,  \* ulPlayloadSize
  matched   \* history: every byte copied so far was copied to its own place

vars == <<pc, len, offset, count, dev, retLen, waits, next, payload, matched>>

MSG == 131              \* 0x83
FIDO2_WAIT_FLAG == 187  \* 0xbb

FirstPackMaxLen == 57   \* HID_PACKET_SIZE - HID_PACKET_HEAD_FRIST, and 64 - 7
NextPackMaxLen == 59    \* HID_PACKET_SIZE - HID_PACKET_HEAD_ROUND, and 64 - 5

(* The two bytes of the length in the first report, as the reader of the   *)
(* header puts them together: masked with 0xff00 and cast to a byte, the   *)
(* high one is always zero.  Shifted instead of masked, it would be n.     *)
Announced(n) ==
  LET masked == (n \div 256) * 256
  IN  256 * (masked % 256) + (n % 256)

(* What the next report takes of the bytes that are left.                  *)
Chunk(max, rest) == IF max > rest THEN rest ELSE max

-----------------------------------------------------------------------------
(* External: the device.                                                   *)

Idle == [state |-> "idle", want |-> 0, got |-> 0, astray |-> 0]

(* The first report opens a command; the others are put behind each other  *)
(* until the announced length is reached, and ignored from then on.        *)
(* astray: reports whose bytes are not in their own place.                 *)
DeviceReads(d, r) ==
  LET want == IF r.mark = MSG THEN r.announced ELSE d.want
      had  == IF r.mark = MSG THEN 0 ELSE d.got
      got  == IF had + r.size > want THEN want ELSE had + r.size
  IN  IF d.state = "executed" \/ (r.mark # MSG /\ d.state = "idle")
        THEN d
        ELSE [state |-> IF got = want THEN "executed" ELSE "reading",
              want |-> want, got |-> got,
              astray |-> IF r.from = had THEN d.astray ELSE d.astray + 1]

ReportFrom(i) == IF i = 0 THEN 0 ELSE FirstPackMaxLen + NextPackMaxLen * (i - 1)

(* Report i of an answer of n bytes.                                       *)
Report(n, i) ==
  LET max == IF i = 0 THEN FirstPackMaxLen ELSE NextPackMaxLen
      rest == n - ReportFrom(i)
  IN  [mark |-> IF i = 0 THEN MSG ELSE (i - 1) % 256,
       announced |-> n, from |-> ReportFrom(i), size |-> IF rest > max THEN max ELSE rest]

-----------------------------------------------------------------------------
Init ==
  /\ pc = "write"
  /\ len \in CmdLen /\ offset = 0 /\ count = 0
  /\ dev = Idle
  /\ retLen \in RetLen /\ waits \in 0 .. MaxWaits /\ next = 0
  /\ payload = 0 /\ matched = TRUE

(* Mutant: off by one after the first report.                              *)
WritePacket_overlaps ==
  /\ pc = "write" /\ offset < len
  /\ LET size == Chunk(IF offset = 0 THEN FirstPackMaxLen ELSE NextPackMaxLen, len - offset)
     IN  /\ dev' = DeviceReads(dev, [mark |-> IF offset = 0 THEN MSG ELSE count % 256,
                                     announced |-> Announced(len),
                                     from |-> offset, size |-> size])
         /\ offset' = IF offset = 0 /\ size = FirstPackMaxLen THEN size - 1 ELSE offset + size
         /\ count' = IF offset = 0 THEN count ELSE count + 1
  /\ UNCHANGED <<pc, len, retLen, waits, next, payload, matched>>

(* One turn of the writing loop; the device takes the report at once,      *)
(* since nothing of it shows before the reads.                             *)
WritePacket ==
  /\ pc = "write" /\ offset < len
  /\ LET size == Chunk(IF offset = 0 THEN FirstPackMaxLen ELSE NextPackMaxLen, len - offset)
     IN  /\ dev' = DeviceReads(dev, [mark |-> IF offset = 0 THEN MSG ELSE count % 256,
                                     announced |-> Announced(len),
                                     from |-> offset, size |-> size])
         /\ offset' = offset + size
         /\ count' = IF offset = 0 THEN count ELSE count + 1
  /\ UNCHANGED <<pc, len, retLen, waits, next, payload, matched>>

WritesDone ==
  /\ pc = "write" /\ offset >= len
  /\ pc' = "read"
  /\ offset' = 0
  /\ UNCHANGED <<len, count, dev, retLen, waits, next, payload, matched>>

WriteFails ==
  /\ pc = "write"
  /\ pc' = "failed"
  /\ UNCHANGED <<len, offset, count, dev, retLen, waits, next, payload, matched>>

Arrived == dev.state = "executed" /\ (next = 0 \/ ReportFrom(next) < retLen)

Waiting == waits > 0 \/ Report(retLen, next).mark = FIDO2_WAIT_FLAG

(* The fifth byte says "keep waiting", whatever kind of report it is in.   *)
SkipReport ==
  /\ pc = "read" /\ Arrived /\ Waiting
  /\ IF waits > 0 THEN waits' = waits - 1 /\ UNCHANGED next
                  ELSE next' = next + 1 /\ UNCHANGED waits
  /\ UNCHANGED <<pc, len, offset, count, dev, retLen, payload, matched>>

CopyReport(r, room, max) ==
  LET size == Chunk(max, room)
  IN  /\ offset' = offset + size
      /\ matched' = (matched /\ r.from = offset /\ size <= r.size)
      /\ pc' = IF size >= room THEN "ok" ELSE "read"

(* Mutant: the answer is not compared with the buffer.                     *)
ReadFirst_unbounded ==
  /\ pc = "read" /\ Arrived /\ ~Waiting /\ offset = 0
  /\ LET r == Report(retLen, next)
     IN  /\ payload' = r.announced
         /\ CopyReport(r, r.announced, FirstPackMaxLen)
  /\ next' = next + 1
  /\ UNCHANGED <<len, count, dev, retLen, waits>>

ReadFirst ==
  /\ pc = "read" /\ Arrived /\ ~Waiting /\ offset = 0
  /\ LET r == Report(retLen, next)
     IN  /\ payload' = r.announced
         /\ IF Capacity < r.announced
              THEN pc' = "small" /\ UNCHANGED <<offset, matched>>
              ELSE CopyReport(r, r.announced, FirstPackMaxLen)
  /\ next' = next + 1
  /\ UNCHANGED <<len, count, dev, retLen, waits>>

ReadNext ==
  /\ pc = "read" /\ Arrived /\ ~Waiting /\ offset > 0
  /\ CopyReport(Report(retLen, next), payload - offset, NextPackMaxLen)
  /\ next' = next + 1
  /\ UNCHANGED <<len, count, dev, retLen, waits, payload>>

(* hid_read_timeout ends without a report, or with an error.               *)
ReadFails ==
  /\ pc = "read"
  /\ pc' = "failed"
  /\ UNCHANGED <<len, offset, count, dev, retLen, waits, next, payload, matched>>

(* SendData has returned.                                                  *)
Finished == pc \in {"ok", "small", "failed"} /\ UNCHANGED vars

Next ==
  \/ WritePacket \/ WritesDone \/ WriteFails
  \/ SkipReport \/ ReadFirst \/ ReadNext \/ ReadFails
  \/ Finished

Spec == Init /\ [][Next]_vars

-----------------------------------------------------------------------------
(* Type correctness; offset <= payload keeps the copies inside of vRecv,   *)
(* whose size is payload.                                                  *)
TypeOK ==
  /\ pc \in {"write", "read", "ok", "small", "failed"}
  /\ len \in CmdLen /\ retLen \in RetLen
  /\ offset \in Nat /\ count \in Nat /\ next \in Nat /\ waits \in 0 .. MaxWaits
  /\ dev \in [state : {"idle", "reading", "executed"}, want : Nat, got : Nat,
             astray : Nat]
  /\ payload \in Nat
  /\ pc \in {"read", "ok"} => offset <= payload
  /\ matched \in BOOLEAN

(* The device executes a command only when it has all of its bytes, for    *)
(* commands of at most 255 bytes.  What is announced of a longer one is    *)
(* its length modulo 256, and a device that goes by it takes the beginning *)
(* for the whole.                                                          *)
CommandWhole ==
  dev.state = "executed" => dev.want = len /\ dev.got = len /\ dev.astray = 0

(* When SendData reports success, the caller's buffer holds the device's   *)
(* answer: all of it, each byte in its place, and it fits.                 *)
AnswerWhole ==
  pc = "ok" => matched /\ offset = retLen /\ payload = retLen /\ retLen <= Capacity
=============================================================================
