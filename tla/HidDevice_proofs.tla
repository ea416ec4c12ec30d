-------------------------- MODULE HidDevice_proofs --------------------------
(* Theorems about HidDevice: for any number of commands, connections and   *)
(* reports.                                                                *)
EXTENDS HidDevice, TLAPS

-----------------------------------------------------------------------------
(* The types of what does not travel, and how the handle, the thread and   *)
(* the power go together.                                                  *)
Life ==
  /\ handle \in Nat /\ opened \in Nat /\ open \subseteq 1 .. opened
  /\ handle \in open \cup {0}
  /\ pc \in {"idle", "init", "greeting", "write", "read", "returned"}
  /\ pc # "idle" => handle # 0
  /\ alive => handle # 0

(* An object that was not connected twice knows every handle it opened.    *)
Known == "connectedTwice" \notin calls => open = {handle} \ {0}

(* A device that lost power and did not tell is one that SendData cannot   *)
(* write to, or the object is one that never had a device to write to.     *)
Unheard ==
  /\ lost \in {"no", "during", "before"}
  /\ ~noticed => handle # 0 \/ ~path
  /\ lost = "during" => pc # "idle" /\ ~alive
  /\ lost = "before" /\ ~noticed => ~alive /\ pc \in {"idle", "init", "write"}

(* Until the handle is closed, INIT is still to come or was sent.          *)
Greeting ==
  "closed" \notin calls =>
    /\ ~talked
    /\ ~greeted => pc \in {"idle", "init"} /\ (pc = "idle" => firstCmd)

LifeInv == Life /\ Known /\ Unheard /\ Greeting

LEMMA LifeInit == Init => LifeInv
  BY DEF Init, LifeInv, Life, Known, Unheard, Greeting

(* A new handle is one that was not given out before.                      *)
LEMMA OpensLife ==
  ASSUME Life, Opens
  PROVE  /\ handle' \in Nat \ {0} /\ opened' \in Nat /\ open' \subseteq 1 .. opened'
         /\ handle' \in open' /\ alive'
         /\ open = {} => open' = {handle'}
<1>1. /\ opened \in Nat /\ opened' = opened + 1 /\ handle' = opened'
      /\ open' = open \cup {opened'} /\ alive' = TRUE /\ open \subseteq 1 .. opened
  BY DEF Life, Opens
<1>2. opened' \in Nat \ {0} /\ 1 .. opened \subseteq 1 .. opened' /\ opened' \in 1 .. opened'
  BY <1>1
<1> QED
  BY <1>1, <1>2

LEMMA LifeStep == LifeInv /\ [Next]_vars => LifeInv'
<1> SUFFICES ASSUME LifeInv, [Next]_vars PROVE LifeInv'
  OBVIOUS
<1> USE HidAssumption DEF LifeInv, Life, Known, Unheard, Greeting
<1>1. CASE Connect
  <2>1. /\ pc = "idle" /\ noticed' = TRUE /\ firstCmd' = firstCmd /\ (Opens \/ OpenFails)
        /\ "closed" \in calls' <=> "closed" \in calls
        /\ "connectedTwice" \notin calls' => "connectedTwice" \notin calls /\ handle = 0
        /\ pc' = pc /\ talked' = talked /\ greeted' = greeted /\ lost' = lost
    BY <1>1 DEF Connect, wire
  <2>2. CASE Opens
    BY <2>1, <2>2, OpensLife
  <2>3. CASE OpenFails
    BY <2>1, <2>3 DEF OpenFails
  <2> QED
    BY <2>1, <2>2, <2>3
<1>2. CASE Disconnect
  BY <1>2 DEF Disconnect, CloseHandle, reading, device
<1>3. CASE SendData
  BY <1>3 DEF SendData, BeginCommand, reading, hidapi, device, wire, power
<1>4. CASE SendDataConnects
  <2>1. CASE path /\ Opens /\ BeginCommand /\ UNCHANGED noticed
    BY <1>4, <2>1, OpensLife DEF SendDataConnects, BeginCommand, reading, device, wire
  <2>2. CASE OpenFails /\ noticed' = TRUE /\ UNCHANGED <<pc, firstCmd, cmd, left>>
    BY <1>4, <2>2 DEF SendDataConnects, OpenFails, reading, device, wire
  <2> QED
    BY <1>4, <2>1, <2>2 DEF SendDataConnects
<1>5. CASE WriteInit
  BY <1>5 DEF WriteInit, object, reading, hidapi, power
<1>6. CASE ReadInit
  BY <1>6 DEF ReadInit, object, reading, device, wire, power
<1>7. CASE InitFails
  BY <1>7 DEF InitFails, Fail, CloseHandle, device, wire
<1>8. CASE WriteReport
  BY <1>8 DEF WriteReport, object, reading, hidapi, power
<1>9. CASE WriteFails
  BY <1>9 DEF WriteFails, Fail, CloseHandle, wire
<1>10. CASE SkipWait
  BY <1>10 DEF SkipWait, object, reading, device, wire, power
<1>11. CASE ReadFirst
  BY <1>11 DEF ReadFirst, CopyReport, Fail, object, device, wire, power
<1>12. CASE ReadNext
  BY <1>12 DEF ReadNext, CopyReport, object, device, wire, power
<1>13. CASE ReadFails
  BY <1>13 DEF ReadFails, Fail, CloseHandle, device, wire
<1>14. CASE ReturnReply
  BY <1>14 DEF ReturnReply, object, hidapi, device, wire
<1>15. CASE DeviceAnswers
  BY <1>15 DEF DeviceAnswers, object, reading, hidapi, wire, power
<1>16. CASE DeviceWaits
  BY <1>16 DEF DeviceWaits, object, reading, device, wire, power
<1>17. CASE DeviceSends
  BY <1>17 DEF DeviceSends, object, reading, wire, power
<1>18. CASE Unplug
  BY <1>18 DEF Unplug, object, reading, wire
<1>19. CASE Plug
  BY <1>19 DEF Plug, object, reading, hidapi, wire, power
<1>20. CASE UNCHANGED vars
  BY <1>20 DEF vars, object, reading, hidapi, device, wire, power
<1>21. CASE HidInitFails
  BY <1>21 DEF HidInitFails, object, reading, hidapi, device, wire
<1> QED
  BY <1>1, <1>2, <1>3, <1>4, <1>5, <1>6, <1>7, <1>8, <1>9, <1>10, <1>11, <1>12, <1>13, <1>14,
     <1>15, <1>16, <1>17, <1>18, <1>19, <1>20, <1>21 DEF Next, SendDataStep

LEMMA LifeInvariant == Spec => []LifeInv
  BY LifeInit, LifeStep, PTL DEF Spec

-----------------------------------------------------------------------------
(* The types of the flags, and of everything else.                         *)
Flags ==
  /\ path \in BOOLEAN /\ firstCmd \in BOOLEAN /\ alive \in BOOLEAN /\ plugged \in BOOLEAN
  /\ greeted \in BOOLEAN /\ talked \in BOOLEAN /\ quiet \in BOOLEAN /\ noticed \in BOOLEAN

Types ==
  /\ pc \in {"idle", "init", "greeting", "write", "read", "returned"}
  /\ handle \in 0 .. MaxOpen
  /\ cmd \in 0 .. MaxCmd /\ left \in 0 .. MaxReports
  /\ pc \in {"init", "greeting", "write"} => left > 0
  /\ recv \in Seq(Data) /\ want \in 0 .. MaxReports
  /\ opened \in 0 .. MaxOpen /\ open \subseteq 1 .. opened
  /\ queue \in Seq(Data \cup {Wait})
  /\ todo \in Seq(0 .. MaxCmd) /\ sending \in Seq(Data)
  /\ calls \subseteq {"connectedTwice", "closed"}
  /\ lost \in {"no", "during", "before"}

LEMMA AnswerType ==
  ASSUME NEW c \in 0 .. MaxCmd, NEW n \in 1 .. MaxReports PROVE AnswerOf(c, n) \in Seq(Data)
<1>1. \A i \in 1 .. n : [kind |-> "data", cmd |-> c, k |-> i - 1, of |-> n] \in Data
  BY HidAssumption DEF HidAssumption, Data
<1>2. n \in Nat
  BY HidAssumption DEF HidAssumption
<1> QED
  BY <1>1, <1>2 DEF AnswerOf

LEMMA HeadType ==
  ASSUME queue \in Seq(Data \cup {Wait}), queue # <<>>
  PROVE  /\ Tail(queue) \in Seq(Data \cup {Wait})
         /\ Head(queue).kind = "data" => Head(queue) \in Data /\ Head(queue).of \in 1 .. MaxReports
<1>1. Head(queue) \in Data \cup {Wait} /\ Tail(queue) \in Seq(Data \cup {Wait})
  OBVIOUS
<1>2. Head(queue).kind = "data" => Head(queue) \in Data
  BY <1>1 DEF Wait
<1> QED
  BY <1>1, <1>2 DEF Data

LEMMA FlagsStep == Flags /\ [Next]_vars => Flags'
<1> SUFFICES ASSUME Flags, [Next]_vars PROVE Flags'
  OBVIOUS
<1> USE DEF Flags, Next, SendDataStep, Connect, HidInitFails, Disconnect, SendData, SendDataConnects, Opens,
      OpenFails, CloseHandle, BeginCommand, WriteInit, ReadInit, InitFails, WriteReport, WriteFails,
      SkipWait, ReadFirst, ReadNext, CopyReport, ReadFails, Fail, ReturnReply, DeviceAnswers,
      DeviceWaits, DeviceSends, Unplug, Plug, vars, object, reading, hidapi, device, wire, power
<1>1. path' \in BOOLEAN
  BY Zenon
<1>2. firstCmd' \in BOOLEAN
  BY Zenon
<1>3. alive' \in BOOLEAN
  BY Zenon
<1>4. plugged' \in BOOLEAN
  BY Zenon
<1>5. greeted' \in BOOLEAN
  BY Zenon
<1>6. talked' \in BOOLEAN
  BY Zenon
<1>7. quiet' \in BOOLEAN
  BY Zenon
<1>8. noticed' \in BOOLEAN
  BY Zenon
<1> QED
  BY <1>1, <1>2, <1>3, <1>4, <1>5, <1>6, <1>7, <1>8

LEMMA TypesStep == Types /\ [Next]_vars => Types'
<1> SUFFICES ASSUME Types, [Next]_vars PROVE Types'
  OBVIOUS
<1> USE HidAssumption DEF HidAssumption, Types
<1>o. Opens => /\ opened' \in 0 .. MaxOpen /\ open' \subseteq 1 .. opened'
               /\ handle' \in 0 .. MaxOpen /\ queue' = <<>>
  BY DEF Opens
<1>d. <<>> \in Seq(Data \cup {Wait}) /\ <<>> \in Seq(Data)
  OBVIOUS
<1>1. CASE Connect
  <2>1. calls' \subseteq {"connectedTwice", "closed"}
    BY <1>1 DEF Connect
  <2>2. CASE Opens
    BY <1>1, <1>o, <1>d, <2>1, <2>2 DEF Connect, reading, device
  <2>3. CASE OpenFails
    BY <1>1, <1>d, <2>1, <2>3 DEF Connect, OpenFails, reading, device
  <2> QED
    BY <1>1, <2>2, <2>3 DEF Connect
<1>2. CASE Disconnect
  BY <1>2, <1>d DEF Disconnect, CloseHandle, reading, device
<1>3. CASE SendData
  BY <1>3 DEF SendData, BeginCommand, reading, hidapi, device, wire, power
<1>4. CASE SendDataConnects
  <2>1. CASE Opens /\ BeginCommand
    BY <1>4, <1>o, <1>d, <2>1 DEF SendDataConnects, BeginCommand, reading, device, wire
  <2>2. CASE OpenFails /\ UNCHANGED <<pc, firstCmd, cmd, left>>
    BY <1>4, <1>d, <2>2 DEF SendDataConnects, OpenFails, reading, device, wire
  <2> QED
    BY <1>4, <2>1, <2>2 DEF SendDataConnects
<1>5. CASE WriteInit
  BY <1>5 DEF WriteInit, object, reading, hidapi, power
<1>6. CASE ReadInit
  BY <1>6, HeadType DEF ReadInit, object, reading, device, wire, power
<1>7. CASE InitFails
  <2>1. todo' \in Seq(0 .. MaxCmd)
    <3>1. todo' = todo \/ todo' = Append(todo, 0)
      BY <1>7 DEF InitFails
    <3>2. Append(todo, 0) \in Seq(0 .. MaxCmd)
      OBVIOUS
    <3> QED
      BY <3>1, <3>2
  <2> QED
    BY <1>7, <1>d, <2>1 DEF InitFails, Fail, CloseHandle
<1>8. CASE WriteReport
  <2>1. todo' \in Seq(0 .. MaxCmd)
    <3>1. todo' = todo \/ todo' = Append(todo, cmd)
      BY <1>8 DEF WriteReport
    <3>2. Append(todo, cmd) \in Seq(0 .. MaxCmd)
      OBVIOUS
    <3> QED
      BY <3>1, <3>2
  <2>2. left' \in 0 .. MaxReports /\ pc' \in {"write", "read"} /\ (pc' = "write" => left' > 0)
    BY <1>8 DEF WriteReport
  <2> QED
    BY <1>8, <2>1, <2>2 DEF WriteReport, object, reading, hidapi, power
<1>9. CASE WriteFails
  <2>1. todo' \in Seq(0 .. MaxCmd)
    <3>1. todo' = todo \/ todo' = Append(todo, cmd)
      BY <1>9 DEF WriteFails
    <3>2. Append(todo, cmd) \in Seq(0 .. MaxCmd)
      OBVIOUS
    <3> QED
      BY <3>1, <3>2
  <2> QED
    BY <1>9, <1>d, <2>1 DEF WriteFails, Fail, CloseHandle, wire
<1>10. CASE SkipWait
  BY <1>10, HeadType DEF SkipWait, object, reading, device, wire, power
<1>11. CASE ReadFirst
  <2>1. Head(queue) \in Data /\ Head(queue).of \in 1 .. MaxReports /\ queue' \in Seq(Data \cup {Wait})
    BY <1>11, HeadType DEF ReadFirst
  <2>2. CASE CopyReport /\ want' \in 1 .. MaxReports
    <3>1. recv' \in Seq(Data) /\ pc' \in {"returned", "read"}
      BY <2>1, <2>2 DEF CopyReport
    <3> QED
      BY <1>11, <2>1, <2>2, <3>1 DEF ReadFirst, CopyReport, object, device, wire, power
  <2>3. CASE Fail
    BY <1>11, <1>d, <2>1, <2>3 DEF ReadFirst, Fail, object, device, wire
  <2> QED
    BY <1>11, <2>1, <2>2, <2>3 DEF ReadFirst
<1>12. CASE ReadNext
  BY <1>12, HeadType DEF ReadNext, CopyReport, object, device, wire, power
<1>13. CASE ReadFails
  BY <1>13, <1>d DEF ReadFails, Fail, CloseHandle, device, wire
<1>14. CASE ReturnReply
  BY <1>14, <1>d DEF ReturnReply, object, hidapi, device, wire
<1>15. CASE DeviceAnswers
  <2>1. Head(todo) \in 0 .. MaxCmd /\ Tail(todo) \in Seq(0 .. MaxCmd)
    BY <1>15 DEF DeviceAnswers
  <2>2. sending' \in Seq(Data)
    BY <1>15, <2>1, AnswerType DEF DeviceAnswers
  <2> QED
    BY <1>15, <2>1, <2>2 DEF DeviceAnswers, object, reading, hidapi, wire, power
<1>16. CASE DeviceWaits
  BY <1>16 DEF DeviceWaits, object, reading, device, wire, power
<1>17. CASE DeviceSends
  BY <1>17 DEF DeviceSends, object, reading, wire, power
<1>18. CASE Unplug
  BY <1>18, <1>d DEF Unplug, object, reading, wire
<1>19. CASE Plug
  BY <1>19 DEF Plug, object, reading, hidapi, wire, power
<1>20. CASE UNCHANGED vars
  BY <1>20 DEF vars, object, reading, hidapi, device, wire, power
<1>21. CASE HidInitFails
  BY <1>21 DEF HidInitFails, object, reading, hidapi, device, wire
<1> QED
  BY <1>1, <1>2, <1>3, <1>4, <1>5, <1>6, <1>7, <1>8, <1>9, <1>10, <1>11, <1>12, <1>13, <1>14,
     <1>15, <1>16, <1>17, <1>18, <1>19, <1>20, <1>21 DEF Next, SendDataStep

LEMMA TypesInvariant == Spec => [](Types /\ Flags)
<1>1. Init => Types
  BY HidAssumption DEF HidAssumption, Init, Types
<1>2. Init => Flags
  BY DEF Init, Flags
<1> QED
  BY <1>1, <1>2, TypesStep, FlagsStep, PTL DEF Spec

(* Type correctness.                                                       *)
THEOREM HidTypeCorrect == Spec => []TypeOK
<1>1. Types /\ Flags => TypeOK
  BY DEF Types, Flags, TypeOK
<1> QED
  BY <1>1, TypesInvariant, PTL

-----------------------------------------------------------------------------
(* No handle is left open that the object does not know, unless Connect is *)
(* called on a connected device.                                           *)
THEOREM HandleKnown == Spec => []OneHandleOpen
<1>1. LifeInv => OneHandleOpen
  BY DEF LifeInv, Known, OneHandleOpen
<1> QED
  BY <1>1, LifeInvariant, PTL

(* The automatic connection never hides a loss of power from the caller.   *)
THEOREM LossIsNoticed == Spec => []PowerLossNoticed
<1>1. LifeInv => PowerLossNoticed
  BY DEF LifeInv, Unheard, PowerLossNoticed
<1> QED
  BY <1>1, LifeInvariant, PTL

(* INIT comes before the first command as long as no handle was closed.    *)
THEOREM InitIsFirst == Spec => []InitComesFirst
<1>1. LifeInv => InitComesFirst
  BY DEF LifeInv, Life, Greeting, InitComesFirst
<1> QED
  BY <1>1, LifeInvariant, PTL

-----------------------------------------------------------------------------
(* The reply.  On a handle that was opened while the device had nothing to *)
(* answer, what was read, what waits to be read and what is yet to be sent *)
(* are one answer, to the command sent last; before them may stand one     *)
(* keep-alive.                                                             *)
Silent == todo = <<>> /\ sending = <<>> /\ queue = <<>>

Rep(c, k, n) == [kind |-> "data", cmd |-> c, k |-> k, of |-> n]

Working == todo = <<cmd>> /\ sending = <<>> /\ recv = <<>> /\ queue \in {<<>>, <<Wait>>}

OneAnswer(n, w) ==
  /\ todo = <<>>
  /\ w <= Len(queue) /\ (w = 1 => queue[1] = Wait /\ recv = <<>>)
  /\ \A i \in 1 .. Len(recv) : recv[i] = Rep(cmd, i - 1, n)
  /\ \A i \in w + 1 .. Len(queue) : queue[i] = Rep(cmd, Len(recv) + i - w - 1, n)
  /\ \A i \in 1 .. Len(sending) : sending[i] = Rep(cmd, Len(recv) + Len(queue) - w + i - 1, n)
  /\ Len(recv) + Len(queue) - w + Len(sending) <= n /\ Len(recv) < n
  /\ Len(recv) > 0 => want = n

Reading == Working \/ \E n \in 1 .. MaxReports, w \in {0, 1} : OneAnswer(n, w)

GreetingOnly == Len(todo) + Len(sending) + Len(queue) <= 1 /\ (todo # <<>> => todo[1] = 0)

Returned ==
  Silent /\ \E n \in 1 .. MaxReports : Len(recv) = n /\ \A i \in 1 .. n : recv[i] = Rep(cmd, i - 1, n)

Own ==
  /\ pc \notin {"read", "returned"} => recv = <<>>
  /\ handle # 0 /\ quiet =>
       /\ ~alive => todo = <<>> /\ sending = <<>>
       /\ pc \in {"idle", "init", "write"} => Silent
       /\ pc = "greeting" => GreetingOnly
       /\ pc = "read" => Reading
       /\ pc = "returned" => Returned

OwnInv == Types /\ Own

LEMMA CopyFirst ==
  ASSUME Types, pc = "read", recv = <<>>, Reading, ReadFirst, quiet'
  PROVE  IF pc' = "read" THEN Reading' ELSE pc' = "returned" /\ Returned'
<1> USE HidAssumption DEF HidAssumption, Types
<1>0. queue # <<>> /\ Head(queue) = queue[1] /\ queue[1] # Wait
  BY DEF ReadFirst, Wait
<1>1. PICK n \in 1 .. MaxReports : OneAnswer(n, 0)
  <2>1. ~Working
    BY <1>0 DEF Working
  <2>2. \A n : ~OneAnswer(n, 1)
    BY <1>0 DEF OneAnswer
  <2> QED
    BY <2>1, <2>2 DEF Reading
<1>2. /\ queue # <<>> /\ Head(queue) = Rep(cmd, 0, n) /\ Len(queue) >= 1 /\ Len(recv) = 0
      /\ queue' = Tail(queue) /\ Len(queue') = Len(queue) - 1
      /\ \A i \in 1 .. Len(queue') : queue'[i] = queue[i + 1]
  BY <1>1 DEF ReadFirst, OneAnswer
<1>3. /\ want' = n /\ CopyReport /\ recv' = <<Rep(cmd, 0, n)>> /\ Len(recv') = 1
      /\ cmd' = cmd /\ todo' = todo /\ sending' = sending
  <2>1. Head(queue).k = 0 /\ Head(queue).of = n
    BY <1>2 DEF Rep
  <2>2. want' = n /\ CopyReport
    <3>1. ~(Fail /\ quiet' = FALSE)
      OBVIOUS
    <3>2. ~(Head(queue).k > 0)
      BY <2>1
    <3> QED
      BY <2>1, <3>1, <3>2, ZenonT(30) DEF ReadFirst
  <2>3. recv' = Append(recv, Rep(cmd, 0, n))
    BY <1>2, <2>2 DEF CopyReport
  <2> QED
    BY <2>2, <2>3 DEF ReadFirst, device
<1>4. CASE n = 1
  <2>1. Len(queue) = 1 /\ Len(sending) = 0 /\ todo = <<>>
    BY <1>1, <1>2, <1>4 DEF OneAnswer
  <2>2. Silent'
    BY <2>1, <1>2, <1>3 DEF Silent
  <2>3. pc' = "returned"
    BY <1>3, <1>4 DEF CopyReport
  <2> QED
    BY <2>2, <2>3, <1>3, <1>4 DEF Returned
<1>5. CASE n > 1
  <2>1. pc' = "read"
    BY <1>3, <1>5 DEF CopyReport
  <2>2. OneAnswer(n, 0)'
    BY <1>1, <1>2, <1>3, <1>5 DEF OneAnswer
  <2> QED
    BY <2>1, <2>2 DEF Reading
<1> QED
  BY <1>4, <1>5

LEMMA CopyNext ==
  ASSUME Types, Reading, ReadNext
  PROVE  IF pc' = "read" THEN Reading' ELSE pc' = "returned" /\ Returned'
<1> USE HidAssumption DEF HidAssumption, Types
<1>1. PICK n \in 1 .. MaxReports : OneAnswer(n, 0)
  BY DEF Reading, Working, OneAnswer, ReadNext
<1>2. /\ queue # <<>> /\ Head(queue) = Rep(cmd, Len(recv), n) /\ Len(queue) >= 1 /\ Len(recv) > 0
      /\ queue' = Tail(queue) /\ Len(queue') = Len(queue) - 1
      /\ \A i \in 1 .. Len(queue') : queue'[i] = queue[i + 1]
  BY <1>1 DEF ReadNext, OneAnswer
<1>3. /\ want' = n /\ CopyReport /\ recv' = Append(recv, Rep(cmd, Len(recv), n))
      /\ Len(recv') = Len(recv) + 1 /\ recv'[Len(recv) + 1] = Rep(cmd, Len(recv), n)
      /\ \A i \in 1 .. Len(recv) : recv'[i] = recv[i]
      /\ cmd' = cmd /\ todo' = todo /\ sending' = sending
  BY <1>1, <1>2 DEF ReadNext, CopyReport, device, OneAnswer
<1>a. \A i \in 1 .. Len(recv') : recv'[i] = Rep(cmd, i - 1, n)
  BY <1>1, <1>3 DEF OneAnswer
<1>4. CASE Len(recv) + 1 = n
  <2>1. Len(queue) = 1 /\ Len(sending) = 0 /\ todo = <<>>
    BY <1>1, <1>2, <1>4 DEF OneAnswer
  <2>2. Silent'
    BY <2>1, <1>2, <1>3 DEF Silent
  <2>3. pc' = "returned"
    BY <1>3, <1>4 DEF CopyReport
  <2> QED
    BY <2>2, <2>3, <1>3, <1>4, <1>a DEF Returned
<1>5. CASE Len(recv) + 1 < n
  <2>1. pc' = "read"
    BY <1>3, <1>5 DEF CopyReport
  <2>2. OneAnswer(n, 0)'
    BY <1>1, <1>2, <1>3, <1>5, <1>a DEF OneAnswer
  <2> QED
    BY <2>1, <2>2 DEF Reading
<1> QED
  BY <1>1, <1>4, <1>5 DEF OneAnswer

LEMMA SkipOne ==
  ASSUME Types, Reading, SkipWait PROVE Reading'
<1> USE HidAssumption DEF HidAssumption, Types
<1>1. CASE Working
  BY <1>1 DEF SkipWait, Working, Reading, object, reading, device
<1>2. ASSUME NEW n \in 1 .. MaxReports, NEW w \in {0, 1}, OneAnswer(n, w) PROVE Reading'
  <2>1. w = 1
    <3>1. Len(queue) >= 1 /\ Head(queue) = queue[1] /\ queue[1].kind = "wait"
      BY DEF SkipWait
    <3>2. w = 0 => queue[1] = Rep(cmd, Len(recv), n)
      BY <1>2, <3>1 DEF OneAnswer
    <3> QED
      BY <3>1, <3>2 DEF Rep
  <2>2. /\ queue' = Tail(queue) /\ Len(queue') = Len(queue) - 1
        /\ \A i \in 1 .. Len(queue') : queue'[i] = queue[i + 1]
        /\ recv = <<>> /\ UNCHANGED <<recv, cmd, todo, sending, want>>
    BY <1>2, <2>1 DEF SkipWait, OneAnswer, reading, device
  <2>3. OneAnswer(n, 0)'
    BY <1>2, <2>1, <2>2 DEF OneAnswer
  <2> QED
    BY <2>3 DEF Reading
<1> QED
  BY <1>1, <1>2 DEF Reading

LEMMA AnswerBegins ==
  ASSUME Types, Reading, DeviceAnswers PROVE Reading'
<1> USE HidAssumption DEF HidAssumption, Types
<1>1. Working
  BY DEF Reading, OneAnswer, DeviceAnswers
<1>2. todo' = <<>> /\ UNCHANGED <<recv, cmd, queue, want>> /\ Head(todo) = cmd
  BY <1>1 DEF DeviceAnswers, Working, reading, hidapi
<1>3. PICK n \in 1 .. MaxReports : sending' = AnswerOf(cmd, n)
  BY <1>2 DEF DeviceAnswers
<1>4. Len(sending') = n /\ \A i \in 1 .. n : sending'[i] = Rep(cmd, i - 1, n)
  BY <1>3 DEF AnswerOf, Rep
<1>5. CASE queue = <<>>
  <2>1. OneAnswer(n, 0)'
    BY <1>1, <1>2, <1>4, <1>5 DEF OneAnswer, Working
  <2> QED
    BY <2>1 DEF Reading
<1>6. CASE queue = <<Wait>>
  <2>1. OneAnswer(n, 1)'
    BY <1>1, <1>2, <1>4, <1>6 DEF OneAnswer, Working
  <2> QED
    BY <2>1 DEF Reading
<1> QED
  BY <1>1, <1>5, <1>6 DEF Working

LEMMA AnswerTravels ==
  ASSUME Types, Reading, DeviceSends, alive PROVE Reading'
<1> USE HidAssumption DEF HidAssumption, Types
<1>1. PICK n \in 1 .. MaxReports, w \in {0, 1} : OneAnswer(n, w)
  BY DEF Reading, Working, DeviceSends
<1>2. /\ queue' = Append(queue, Head(sending)) /\ sending' = Tail(sending) /\ sending # <<>>
      /\ UNCHANGED <<recv, cmd, todo, want>>
  BY DEF DeviceSends, reading
<1>3. /\ Len(queue') = Len(queue) + 1 /\ queue'[Len(queue) + 1] = sending[1]
      /\ \A i \in 1 .. Len(queue) : queue'[i] = queue[i]
      /\ Len(sending') = Len(sending) - 1 /\ Len(sending) >= 1
      /\ \A i \in 1 .. Len(sending') : sending'[i] = sending[i + 1]
  BY <1>2
<1>4. OneAnswer(n, w)'
  <2>1. w <= Len(queue') /\ (w = 1 => queue'[1] = Wait /\ recv' = <<>>)
    BY <1>1, <1>2, <1>3 DEF OneAnswer
  <2>2. sending[1] = Rep(cmd, Len(recv) + Len(queue) - w, n)
    BY <1>1, <1>3 DEF OneAnswer
  <2>n. w \in Nat /\ Len(queue) \in Nat /\ Len(queue') \in Nat /\ Len(recv) \in Nat
    OBVIOUS
  <2>3. \A i \in w + 1 .. Len(queue') : queue'[i] = Rep(cmd, Len(recv) + i - w - 1, n)
    <3> SUFFICES ASSUME NEW i \in w + 1 .. Len(queue')
                 PROVE  queue'[i] = Rep(cmd, Len(recv) + i - w - 1, n)
      OBVIOUS
    <3>1. CASE i = Len(queue')
      <4>1. Len(recv) + i - w - 1 = Len(recv) + Len(queue) - w
        BY <1>3, <2>n, <3>1
      <4> QED
        BY <1>3, <2>2, <3>1, <4>1
    <3>2. CASE i # Len(queue')
      <4>2. i \in Int /\ w + 1 <= i /\ i <= Len(queue') /\ Len(queue') = Len(queue) + 1
        BY <1>3, <2>n
      <4>1. i \in w + 1 .. Len(queue) /\ i \in 1 .. Len(queue)
        BY <2>n, <3>2, <4>2
      <4> QED
        BY <1>1, <1>3, <4>1 DEF OneAnswer
    <3> QED
      BY <3>1, <3>2
  <2>4. \A i \in 1 .. Len(sending') :
          sending'[i] = Rep(cmd, Len(recv) + Len(queue') - w + i - 1, n)
    <3> SUFFICES ASSUME NEW i \in 1 .. Len(sending')
                 PROVE  sending'[i] = Rep(cmd, Len(recv) + Len(queue') - w + i - 1, n)
      OBVIOUS
    <3>1. i + 1 \in 1 .. Len(sending) /\ sending'[i] = sending[i + 1]
      BY <1>3
    <3>2. sending[i + 1] = Rep(cmd, Len(recv) + Len(queue) - w + (i + 1) - 1, n)
      BY <1>1, <3>1 DEF OneAnswer
    <3>3. Len(recv) + Len(queue) - w + (i + 1) - 1 = Len(recv) + Len(queue') - w + i - 1
      BY <1>3, <2>n
    <3> QED
      BY <3>1, <3>2, <3>3
  <2> QED
    BY <1>1, <1>2, <1>3, <2>1, <2>3, <2>4, SMTT(60) DEF OneAnswer
<1> QED
  BY <1>4 DEF Reading

LEMMA AnswerCut ==
  ASSUME Types, Reading, Unplug PROVE Reading'
<1> USE HidAssumption DEF HidAssumption, Types
<1>0. todo' = <<>> /\ sending' = <<>> /\ UNCHANGED <<recv, cmd, queue, want>>
  BY DEF Unplug, reading
<1>1. CASE Working
  <2>1. CASE queue = <<>>
    <3>1. OneAnswer(1, 0)'
      BY <1>0, <1>1, <2>1 DEF OneAnswer, Working
    <3> QED
      BY <3>1 DEF Reading
  <2>2. CASE queue = <<Wait>>
    <3>1. OneAnswer(1, 1)'
      BY <1>0, <1>1, <2>2 DEF OneAnswer, Working
    <3> QED
      BY <3>1 DEF Reading
  <2> QED
    BY <1>1, <2>1, <2>2 DEF Working
<1>2. ASSUME NEW n \in 1 .. MaxReports, NEW w \in {0, 1}, OneAnswer(n, w) PROVE Reading'
  <2>1. OneAnswer(n, w)'
    BY <1>0, <1>2 DEF OneAnswer
  <2> QED
    BY <2>1 DEF Reading
<1> QED
  BY <1>1, <1>2 DEF Reading

LEMMA OwnStep == OwnInv /\ [Next]_vars => OwnInv'
<1> SUFFICES ASSUME OwnInv, [Next]_vars PROVE Own'
  BY TypesStep DEF OwnInv
<1>t. Types /\ Own
  BY DEF OwnInv
<1>1. CASE Connect
  <2>1. pc = "idle" /\ pc' = "idle" /\ recv' = <<>> /\ todo' = todo /\ sending' = sending
    BY <1>1, <1>t DEF Connect, reading, device, Own
  <2>2. CASE Opens
    BY <2>1, <2>2 DEF Opens, Own, Silent
  <2>3. CASE OpenFails
    BY <2>1, <2>3 DEF OpenFails, Own
  <2> QED
    BY <1>1, <2>2, <2>3 DEF Connect
<1>2. CASE Disconnect
  BY <1>2, <1>t DEF Disconnect, CloseHandle, reading, device, Own
<1>3. CASE SendData
  BY <1>3, <1>t DEF SendData, BeginCommand, reading, hidapi, device, wire, power, Own, Silent
<1>4. CASE SendDataConnects
  <2>1. /\ pc = "idle" /\ pc' \in {"idle", "init", "write"} /\ recv' = <<>>
        /\ todo' = todo /\ sending' = sending
    BY <1>4, <1>t DEF SendDataConnects, BeginCommand, reading, device, Own
  <2>2. CASE Opens
    BY <2>1, <2>2 DEF Opens, Own, Silent
  <2>3. CASE OpenFails
    BY <2>1, <2>3 DEF OpenFails, Own
  <2> QED
    BY <1>4, <2>2, <2>3 DEF SendDataConnects
<1>5. CASE WriteInit
  <2>1. todo' = Append(todo, 0) /\ pc = "init" /\ pc' = "greeting" /\ alive' = alive /\ alive
        /\ UNCHANGED <<recv, sending, queue, handle, quiet>>
    BY <1>5 DEF WriteInit, object, reading, hidapi
  <2>2. todo = <<>> => Len(todo') = 1 /\ todo'[1] = 0
    BY <2>1
  <2> QED
    BY <1>t, <2>1, <2>2 DEF Own, Silent, GreetingOnly
<1>6. CASE ReadInit
  <2>1. /\ pc = "greeting" /\ pc' = "write" /\ queue # <<>> /\ queue' = Tail(queue)
        /\ UNCHANGED <<recv, todo, sending, handle, quiet, alive>>
    BY <1>6 DEF ReadInit, object, reading, device
  <2>2. Len(queue) >= 1 /\ Len(queue') = Len(queue) - 1
    BY <2>1, <1>t DEF Types
  <2>3. GreetingOnly => Silent'
    BY <2>1, <2>2, <1>t DEF Types, GreetingOnly, Silent
  <2> QED
    BY <1>t, <2>1, <2>3 DEF Own
<1>7. CASE InitFails
  BY <1>7, <1>t DEF InitFails, Fail, CloseHandle, device, wire, Own
<1>8. CASE WriteReport
  <2>1. /\ pc = "write" /\ alive /\ alive' = alive /\ UNCHANGED <<recv, sending, queue, handle, quiet, cmd>>
        /\ (pc' = "write" /\ todo' = todo) \/ (pc' = "read" /\ todo' = Append(todo, cmd))
    BY <1>8 DEF WriteReport, object, reading, hidapi
  <2>2. CASE pc' = "read"
    <3>1. todo = <<>> => todo' = <<cmd>>
      BY <2>1, <2>2
    <3> QED
      BY <1>t, <2>1, <2>2, <3>1 DEF Own, Silent, Reading, Working
  <2>3. CASE pc' = "write"
    BY <1>t, <2>1, <2>3 DEF Own, Silent
  <2> QED
    BY <2>1, <2>2, <2>3
<1>9. CASE WriteFails
  BY <1>9, <1>t DEF WriteFails, Fail, CloseHandle, wire, Own
<1>10. CASE SkipWait
  BY <1>10, <1>t, SkipOne DEF SkipWait, object, reading, device, wire, power, Own
<1>11. CASE ReadFirst
  <2>1. pc = "read" /\ recv = <<>> /\ UNCHANGED <<handle, alive, todo, sending>>
        /\ (quiet' => quiet)
    BY <1>11 DEF ReadFirst, object, device
  <2>2. CASE handle # 0 /\ quiet'
    BY <1>11, <1>t, <2>1, <2>2, CopyFirst DEF Own
  <2>3. CASE ~(handle # 0 /\ quiet')
    BY <1>11, <1>t, <2>1, <2>3 DEF Own, ReadFirst, CopyReport, Fail
  <2> QED
    BY <2>2, <2>3
<1>12. CASE ReadNext
  <2>1. pc = "read" /\ UNCHANGED <<handle, quiet, alive, todo, sending>>
    BY <1>12 DEF ReadNext, object, device
  <2>2. CASE handle # 0 /\ quiet
    BY <1>12, <1>t, <2>1, <2>2, CopyNext DEF Own
  <2>3. CASE ~(handle # 0 /\ quiet)
    BY <1>12, <1>t, <2>1, <2>3 DEF Own, ReadNext, CopyReport
  <2> QED
    BY <2>2, <2>3
<1>13. CASE ReadFails
  BY <1>13, <1>t DEF ReadFails, Fail, CloseHandle, device, wire, Own
<1>14. CASE ReturnReply
  BY <1>14, <1>t DEF ReturnReply, object, hidapi, device, wire, Own, Returned, Silent
<1>15. CASE DeviceAnswers
  <2>1. /\ todo # <<>> /\ sending = <<>> /\ todo' = Tail(todo)
        /\ UNCHANGED <<pc, recv, queue, handle, quiet, alive>>
    BY <1>15 DEF DeviceAnswers, object, reading, hidapi
  <2>2. CASE pc = "greeting"
    <3>1. GreetingOnly => Len(todo) = 1 /\ todo[1] = 0 /\ Len(sending) = 0 /\ Len(queue) = 0
      <4>1. Len(todo) \in Nat \ {0} /\ Len(sending) = 0 /\ Len(queue) \in Nat
        BY <2>1, <1>t DEF Types
      <4>2. GreetingOnly => Len(todo) + Len(sending) + Len(queue) <= 1 /\ todo[1] = 0
        BY <2>1 DEF GreetingOnly
      <4>3. Len(todo) + Len(sending) + Len(queue) <= 1 => Len(todo) = 1 /\ Len(queue) = 0
        BY <4>1
      <4> QED
        BY <4>1, <4>2, <4>3
    <3>2. GreetingOnly => Len(sending') = 1
      BY <1>15, <3>1 DEF DeviceAnswers, AnswerOf
    <3>3. Len(todo) = 1 => Len(todo') = 0 /\ todo' = <<>>
      <4>1. Tail(todo) \in Seq(0 .. MaxCmd) /\ Len(Tail(todo)) = Len(todo) - 1
        BY <2>1, <1>t DEF Types
      <4>2. \A s \in Seq(0 .. MaxCmd) : Len(s) = 0 => s = <<>>
        OBVIOUS
      <4> QED
        BY <2>1, <4>1, <4>2
    <3>4. GreetingOnly => GreetingOnly'
      BY <2>1, <3>1, <3>2, <3>3 DEF GreetingOnly
    <3> QED
      BY <1>t, <2>1, <2>2, <3>4 DEF Own
  <2>3. CASE pc = "read"
    BY <1>15, <1>t, <2>1, <2>3, AnswerBegins DEF Own
  <2>4. CASE pc \notin {"greeting", "read"}
    BY <1>t, <2>1, <2>4 DEF Own, Silent, Returned, Types
  <2> QED
    BY <2>2, <2>3, <2>4
<1>16. CASE DeviceWaits
  <2>1. /\ todo # <<>> /\ Head(todo) # 0 /\ queue' = Append(queue, Wait) /\ sending = <<>> /\ alive
        /\ (queue # <<>> => queue[Len(queue)].kind # "wait")
        /\ UNCHANGED <<pc, recv, todo, sending, handle, quiet, alive, cmd>>
    BY <1>16 DEF DeviceWaits, object, reading, device
  <2>2. Head(todo) = todo[1]
    BY <2>1, <1>t DEF Types
  <2>3. Reading => Reading'
    <3> SUFFICES ASSUME Reading PROVE Reading'
      OBVIOUS
    <3>1. Working /\ ~(\E n \in 1 .. MaxReports, w \in {0, 1} : OneAnswer(n, w))
      BY <2>1 DEF Reading, OneAnswer
    <3>2. queue # <<Wait>>
      BY <2>1 DEF Wait
    <3>3. queue' = <<Wait>>
      <4>1. queue = <<>>
        BY <3>1, <3>2 DEF Working
      <4> QED
        BY <2>1, <4>1
    <3> QED
      BY <2>1, <3>1, <3>3 DEF Working, Reading
  <2> QED
    BY <1>t, <2>1, <2>2, <2>3 DEF Own, Silent, GreetingOnly, Returned, Types
<1>17. CASE DeviceSends
  <2>1. /\ sending # <<>> /\ sending' = Tail(sending)
        /\ queue' = (IF alive THEN Append(queue, Head(sending)) ELSE queue)
        /\ UNCHANGED <<pc, recv, todo, handle, quiet, alive>>
    BY <1>17 DEF DeviceSends, object, reading
  <2>2. Len(sending) >= 1 /\ Len(sending') = Len(sending) - 1
    BY <2>1, <1>t DEF Types
  <2>3. alive /\ GreetingOnly => GreetingOnly'
    <3>1. alive => Len(queue') = Len(queue) + 1
      BY <2>1, <1>t DEF Types
    <3> QED
      BY <2>1, <2>2, <3>1, <1>t DEF GreetingOnly, Types
  <2>4. alive /\ Reading => Reading'
    BY <1>17, <1>t, AnswerTravels
  <2> QED
    BY <1>t, <2>1, <2>3, <2>4 DEF Own, Silent, Returned, Types
<1>18. CASE Unplug
  <2>1. todo' = <<>> /\ sending' = <<>> /\ UNCHANGED <<pc, recv, queue, handle, quiet, cmd>>
    BY <1>18 DEF Unplug, object, reading
  <2>2. GreetingOnly => GreetingOnly'
    BY <2>1, <1>t DEF GreetingOnly, Types
  <2>3. Reading => Reading'
    BY <1>18, <1>t, AnswerCut
  <2> QED
    BY <1>t, <2>1, <2>2, <2>3 DEF Own, Silent, Returned, Types
<1>19. CASE Plug
  BY <1>19, <1>t DEF Plug, object, reading, hidapi, wire, power, Own, Silent, GreetingOnly, Reading,
     Working, OneAnswer, Returned
<1>20. CASE UNCHANGED vars
  BY <1>20, <1>t DEF vars, object, reading, hidapi, device, wire, power, Own, Silent, GreetingOnly,
     Reading, Working, OneAnswer, Returned
<1>21. CASE HidInitFails
  BY <1>21, <1>t DEF HidInitFails, object, reading, hidapi, device, wire, Own, Silent,
     GreetingOnly, Reading, Working, OneAnswer, Returned
<1> QED
  BY <1>1, <1>2, <1>3, <1>4, <1>5, <1>6, <1>7, <1>8, <1>9, <1>10, <1>11, <1>12, <1>13, <1>14,
     <1>15, <1>16, <1>17, <1>18, <1>19, <1>20, <1>21 DEF Next, SendDataStep

(* On a handle opened on a quiet device every reply is the whole answer to *)
(* the command it is returned for.                                         *)
THEOREM ReplyStaysOwn == Spec => []ReplyIsOwn
<1>1. Init => OwnInv
  BY HidAssumption DEF HidAssumption, Init, OwnInv, Types, Own
<1>2. OwnInv /\ Life => ReplyIsOwn
  <2> SUFFICES ASSUME OwnInv, Life, pc = "returned", quiet
               PROVE  /\ Len(recv) = recv[1].of
                      /\ \A i \in 1 .. Len(recv) : recv[i].cmd = cmd /\ recv[i].k = i - 1
    BY DEF ReplyIsOwn
  <2>1. PICK n \in 1 .. MaxReports :
          Len(recv) = n /\ \A i \in 1 .. n : recv[i] = Rep(cmd, i - 1, n)
    BY DEF OwnInv, Own, Life, Returned
  <2> QED
    BY <2>1, HidAssumption DEF HidAssumption, Rep
<1>3. LifeInv => Life
  BY DEF LifeInv
<1> QED
  BY <1>1, <1>2, <1>3, OwnStep, LifeInvariant, PTL DEF Spec
=============================================================================
