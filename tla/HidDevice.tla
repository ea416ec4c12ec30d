------------------------------ MODULE HidDevice ------------------------------
(***************************************************************************)
(* The life of a JubiterHidDevice: connecting, disconnecting, and SendData *)
(* with its automatic connection, its INIT packet and its reads with a     *)
(* timeout.  Reports carry nothing that ties them to a command, and an     *)
(* answer begins where SendData begins to read.                            *)
(*                                                                         *)
(* External: hidapi, whose handles see the reports that arrive while they  *)
(* are open, and the device, which is unplugged and plugged in, answers in *)
(* order and goes on sending an answer nobody waits for.                   *)
(***************************************************************************)
EXTENDS Integers, Sequences, FiniteSets

CONSTANTS
  MaxCmd,      \* bound: commands sent
  MaxOpen,     \* bound: handles opened
  MaxReports   \* bound: reports of a command, and of an answer

ASSUME HidAssumption ==
  /\ MaxCmd \in Nat /\ MaxOpen \in Nat
  /\ MaxReports \in Nat \ {0}

VARIABLES
  pc,        \* where the caller's thread is
  handle,    \* _handle, 0 for NULL
  path,      \* _path is set
  firstCmd,  \* _bFirstCmd
  cmd,       \* number of the command sent last
  left,      \* its reports yet to be written
  recv,      \* reports copied to vRecv
  want,      \* how many make up ulPlayloadSize
  opened,    \* external: handles hidapi gave out
  open,      \* external: those not closed
  alive,     \* external: the device was not unplugged since `handle' was opened
  queue,     \* external: reports `handle' has to be read
  plugged,   \* external
  todo,      \* external: commands the device has to answer, 0 for INIT
  sending,   \* external: the rest of the answer it is sending
  greeted,   \* history: the device was sent INIT
  talked,    \* history: the device was sent a command and no INIT before it
  calls,     \* history: what happened to the object: "connectedTwice", "closed"
  quiet,     \* history: the device had nothing to answer when `handle' was opened,
             \* and no answer has been refused as too long since
  lost,      \* history: "during" the command or "before" it power was lost
  noticed    \* history: since the last reply the caller saw an error or reconnected

object == <<handle, path, firstCmd>>
reading == <<recv, want>>
hidapi == <<opened, open, alive, queue>>
device == <<plugged, todo, sending>>
wire == <<greeted, talked>>
power == <<lost, noticed>>
vars == <<pc, object, cmd, left, reading, hidapi, device, wire, calls, quiet, power>>

Wait == [kind |-> "wait", cmd |-> 0, k |-> 0, of |-> 0]
AnswerOf(c, n) == [i \in 1 .. n |-> [kind |-> "data", cmd |-> c, k |-> i - 1, of |-> n]]

-----------------------------------------------------------------------------
Init ==
  /\ pc = "idle" /\ cmd = 0 /\ left = 0 /\ recv = <<>> /\ want = 0
  /\ handle = 0 /\ path = FALSE /\ firstCmd = TRUE
  /\ opened = 0 /\ open = {} /\ alive = FALSE /\ queue = <<>>
  /\ plugged = TRUE /\ todo = <<>> /\ sending = <<>>
  /\ greeted = FALSE /\ talked = FALSE /\ calls = {} /\ quiet = TRUE
  /\ lost = "no" /\ noticed = FALSE

Opens ==
  /\ plugged /\ opened < MaxOpen
  /\ opened' = opened + 1 /\ handle' = opened + 1 /\ open' = open \cup {opened + 1}
  /\ alive' = TRUE /\ queue' = <<>>
  /\ quiet' = (todo = <<>> /\ sending = <<>>)

OpenFails ==
  /\ handle' = 0
  /\ alive' = FALSE /\ queue' = <<>>
  /\ UNCHANGED <<opened, open, quiet>>

(* Mutant: a connection starts with firstCmd forgotten.                    *)
Connect_forgetsFirst ==
  /\ pc = "idle"
  /\ \/ Opens /\ path' = TRUE
     \/ OpenFails /\ UNCHANGED path
  /\ firstCmd' = FALSE
  /\ calls' = IF handle # 0 THEN calls \cup {"connectedTwice"} ELSE calls
  /\ noticed' = TRUE
  /\ UNCHANGED <<pc, cmd, left, reading, device, wire, lost>>

(* hid_init fails: Connect returns before it touches anything.             *)
HidInitFails ==
  /\ pc = "idle"
  /\ noticed' = TRUE
  /\ UNCHANGED <<pc, object, cmd, left, reading, hidapi, device, wire, calls, quiet, lost>>

(* Connect does not look at the handle it overwrites.                      *)
Connect ==
  /\ pc = "idle"
  /\ \/ Opens /\ path' = TRUE
     \/ OpenFails /\ UNCHANGED path
  /\ calls' = IF handle # 0 THEN calls \cup {"connectedTwice"} ELSE calls
  /\ noticed' = TRUE
  /\ UNCHANGED <<pc, firstCmd, cmd, left, reading, device, wire, lost>>

(* Disconnect, also as called by SendData.                                 *)
CloseHandle ==
  /\ firstCmd' = FALSE
  /\ handle' = 0 /\ open' = open \ {handle} /\ alive' = FALSE /\ queue' = <<>>
  /\ calls' = calls \cup {"closed"}
  /\ UNCHANGED <<path, opened, quiet>>

Disconnect ==
  /\ pc = "idle"
  /\ CloseHandle
  /\ noticed' = TRUE
  /\ UNCHANGED <<pc, cmd, left, reading, device, wire, lost>>

-----------------------------------------------------------------------------
(* SendData.                                                               *)

BeginCommand ==
  /\ cmd < MaxCmd
  /\ cmd' = cmd + 1
  /\ left' \in 1 .. MaxReports
  /\ pc' = IF firstCmd THEN "init" ELSE "write"
  /\ firstCmd' = FALSE

SendData ==
  /\ pc = "idle" /\ handle # 0
  /\ BeginCommand
  /\ UNCHANGED <<handle, path, reading, hidapi, device, wire, calls, quiet, power>>

(* The automatic connection, to the path of the last successful Connect.   *)
SendDataConnects ==
  /\ pc = "idle" /\ handle = 0
  /\ \/ path /\ Opens /\ BeginCommand /\ UNCHANGED noticed
     \/ OpenFails /\ noticed' = TRUE /\ UNCHANGED <<pc, firstCmd, cmd, left>>
  /\ UNCHANGED <<path, reading, device, wire, calls, lost>>

Fail ==
  /\ pc' = "idle" /\ left' = 0 /\ recv' = <<>> /\ want' = 0
  /\ noticed' = TRUE
  /\ lost' = IF lost = "no" THEN "no" ELSE "before"

WriteInit ==
  /\ pc = "init" /\ alive
  /\ todo' = Append(todo, 0)
  /\ greeted' = TRUE
  /\ pc' = "greeting"
  /\ UNCHANGED <<object, cmd, left, reading, hidapi, plugged, sending, talked, calls, quiet, power>>

(* hid_read has no timeout, takes any report, and fails on a dead handle.  *)
ReadInit ==
  /\ pc = "greeting" /\ queue # <<>>
  /\ queue' = Tail(queue)
  /\ pc' = "write"
  /\ UNCHANGED <<object, cmd, left, reading, opened, open, alive, device, wire, calls, quiet, power>>

(* A write that reports an error may have reached the device, here and in  *)
(* WriteFails.                                                             *)
InitFails ==
  /\ pc \in {"init", "greeting"}
  /\ pc = "greeting" => ~alive
  /\ \/ UNCHANGED <<todo, greeted>>
     \/ pc = "init" /\ alive /\ todo' = Append(todo, 0) /\ greeted' = TRUE
  /\ Fail /\ CloseHandle
  /\ UNCHANGED <<cmd, plugged, sending, talked>>

WriteReport ==
  /\ pc = "write" /\ alive
  /\ left' = left - 1
  /\ IF left = 1 THEN todo' = Append(todo, cmd) /\ pc' = "read" ELSE UNCHANGED <<todo, pc>>
  /\ talked' = (talked \/ ~greeted)
  /\ UNCHANGED <<object, cmd, reading, hidapi, plugged, sending, greeted, calls, quiet, power>>

(* Mutant: a write error is answered with a new connection and a retry.    *)
WriteFails_reconnects ==
  /\ pc = "write" /\ ~alive
  /\ Opens
  /\ UNCHANGED <<pc, path, firstCmd, cmd, left, reading, device, wire, calls, power>>

WriteFails ==
  /\ pc = "write"
  /\ \/ UNCHANGED <<todo, talked>>
     \/ /\ alive
        /\ todo' = IF left = 1 THEN Append(todo, cmd) ELSE todo
        /\ talked' = (talked \/ ~greeted)
  /\ Fail /\ CloseHandle
  /\ UNCHANGED <<cmd, plugged, sending, greeted>>

(* The loop of keep-alives around hid_read_timeout.                        *)
SkipWait ==
  /\ pc = "read" /\ queue # <<>> /\ Head(queue).kind = "wait"
  /\ queue' = Tail(queue)
  /\ UNCHANGED <<pc, object, cmd, left, reading, opened, open, alive, device, wire, calls, quiet, power>>

CopyReport ==
  /\ recv' = Append(recv, Head(queue))
  /\ pc' = IF Len(recv') >= want' THEN "returned" ELSE "read"
  /\ UNCHANGED <<left, power>>

(* Any report is taken for the first, and a continuation announces a       *)
(* length made up of its data.  When the length exceeds the caller's       *)
(* buffer, SendData returns JUBR_BUFFER_TOO_SMALL and keeps the handle,    *)
(* with the rest of the answer still to be read from it.                   *)
ReadFirst ==
  /\ pc = "read" /\ recv = <<>> /\ queue # <<>> /\ Head(queue).kind = "data"
  /\ \/ Head(queue).k = 0 /\ want' = Head(queue).of /\ CopyReport /\ UNCHANGED quiet
     \/ Head(queue).k > 0 /\ want' \in 1 .. MaxReports /\ CopyReport /\ UNCHANGED quiet
     \/ Fail /\ quiet' = FALSE
  /\ queue' = Tail(queue)
  /\ UNCHANGED <<object, cmd, opened, open, alive, device, wire, calls>>

ReadNext ==
  /\ pc = "read" /\ recv # <<>> /\ queue # <<>> /\ Head(queue).kind = "data"
  /\ want' = want
  /\ CopyReport
  /\ queue' = Tail(queue)
  /\ UNCHANGED <<object, cmd, opened, open, alive, device, wire, calls, quiet>>

(* Mutant: a timeout leaves the connection open.                           *)
ReadFails_keepsHandle ==
  /\ pc = "read"
  /\ Fail
  /\ UNCHANGED <<object, hidapi, quiet, cmd, device, wire, calls>>

(* Mutant: a timeout is a reason to read again, only an error is not.      *)
ReadFails_retries ==
  /\ pc = "read" /\ ~alive
  /\ Fail /\ CloseHandle
  /\ UNCHANGED <<cmd, device, wire>>

(* A timeout, or an error.                                                 *)
ReadFails ==
  /\ pc = "read"
  /\ Fail /\ CloseHandle
  /\ UNCHANGED <<cmd, device, wire>>

ReturnReply ==
  /\ pc = "returned"
  /\ pc' = "idle" /\ recv' = <<>> /\ want' = 0
  /\ lost' = IF lost = "during" THEN "before" ELSE "no"
  /\ noticed' = FALSE
  /\ UNCHANGED <<object, cmd, left, hidapi, device, wire, calls, quiet>>

-----------------------------------------------------------------------------
(* External: the device.                                                   *)

DeviceAnswers ==
  /\ todo # <<>> /\ sending = <<>>
  /\ todo' = Tail(todo)
  /\ \E n \in 1 .. MaxReports : sending' = AnswerOf(Head(todo), IF Head(todo) = 0 THEN 1 ELSE n)
  /\ UNCHANGED <<pc, object, cmd, left, reading, hidapi, plugged, wire, calls, quiet, power>>

(* Keep-alives while it works on a command, as many as the device likes:   *)
(* bounded to one unread.  It sends none for INIT, which ReadInit would    *)
(* take for the answer.                                                    *)
DeviceWaits ==
  /\ alive /\ todo # <<>> /\ Head(todo) # 0 /\ sending = <<>>
  /\ queue # <<>> => queue[Len(queue)].kind # "wait"
  /\ queue' = Append(queue, Wait)
  /\ UNCHANGED <<pc, object, cmd, left, reading, opened, open, alive, device, wire, calls, quiet, power>>

DeviceSends ==
  /\ sending # <<>>
  /\ sending' = Tail(sending)
  /\ queue' = IF alive THEN Append(queue, Head(sending)) ELSE queue
  /\ UNCHANGED <<pc, object, cmd, left, reading, opened, open, alive, plugged, todo, wire, calls, quiet, power>>

Unplug ==
  /\ plugged
  /\ plugged' = FALSE /\ todo' = <<>> /\ sending' = <<>> /\ alive' = FALSE
  /\ lost' = IF pc = "idle" \/ lost = "before" THEN "before" ELSE "during"
  /\ UNCHANGED <<pc, object, cmd, left, reading, opened, open, queue, wire, calls, quiet, noticed>>

Plug ==
  /\ ~plugged
  /\ plugged' = TRUE
  /\ UNCHANGED <<pc, object, cmd, left, reading, hidapi, todo, sending, wire, calls, quiet, power>>

-----------------------------------------------------------------------------
SendDataStep ==
  \/ WriteInit \/ ReadInit \/ InitFails \/ WriteReport \/ WriteFails
  \/ SkipWait \/ ReadFirst \/ ReadNext \/ ReadFails \/ ReturnReply

Next ==
  \/ Connect \/ HidInitFails \/ Disconnect \/ SendData \/ SendDataConnects
  \/ SendDataStep
  \/ DeviceAnswers \/ DeviceWaits \/ DeviceSends \/ Unplug \/ Plug

Spec == Init /\ [][Next]_vars

(* The caller's thread runs, as hid_write and hid_read_timeout end; the     *)
(* device, while it has power, works on its commands.                      *)
FairSpec == Spec /\ WF_vars(SendDataStep) /\ WF_vars(DeviceAnswers)

-----------------------------------------------------------------------------
Data == [kind : {"data"}, cmd : 0 .. MaxCmd, k : 0 .. MaxReports - 1, of : 1 .. MaxReports]

(* Type correctness of the object, hidapi and the device.                  *)
TypeOK ==
  /\ pc \in {"idle", "init", "greeting", "write", "read", "returned"}
  /\ handle \in 0 .. MaxOpen /\ path \in BOOLEAN /\ firstCmd \in BOOLEAN
  /\ cmd \in 0 .. MaxCmd /\ left \in 0 .. MaxReports
  /\ recv \in Seq(Data) /\ want \in 0 .. MaxReports
  /\ opened \in 0 .. MaxOpen /\ open \subseteq 1 .. opened
  /\ alive \in BOOLEAN /\ queue \in Seq(Data \cup {Wait})
  /\ plugged \in BOOLEAN /\ todo \in Seq(0 .. MaxCmd) /\ sending \in Seq(Data)
  /\ greeted \in BOOLEAN /\ talked \in BOOLEAN /\ quiet \in BOOLEAN
  /\ calls \subseteq {"connectedTwice", "closed"}
  /\ lost \in {"no", "during", "before"} /\ noticed \in BOOLEAN

(* On a handle that was opened while the device had nothing left to        *)
(* answer, SendData hands back the whole answer to its own command, until  *)
(* an answer is refused as too long: that is the one error which keeps the *)
(* handle, and the commands after it read what is left of that answer.     *)
(* Every other error that could leave reports behind closes the handle.    *)
ReplyIsOwn ==
  pc = "returned" /\ quiet =>
    /\ Len(recv) = recv[1].of
    /\ \A i \in 1 .. Len(recv) : recv[i].cmd = cmd /\ recv[i].k = i - 1

(* Power that was lost before a command is not lost on the caller: before  *)
(* a reply is handed over again it got an error, or it reconnected by a    *)
(* call of its own.  The automatic connection alone never hides a loss.    *)
PowerLossNoticed == pc = "returned" /\ lost = "before" => noticed

(* The object never holds more than one handle open, and none that it does *)
(* not know, unless Connect is called on a connected device.               *)
OneHandleOpen == "connectedTwice" \notin calls => open = {handle} \ {0}

(* The device hears INIT before the first command, unless the handle was   *)
(* closed before it: by Disconnect, or by SendData after an error.  Then   *)
(* the object never sends INIT again, whatever device it is connected to.  *)
InitComesFirst == talked => "closed" \in calls

(* SendData ends, but for hid_read waiting for the answer to INIT: every   *)
(* keep-alive starts the timeout again, but the device does not work on a  *)
(* command for ever.                                                       *)
SendDataEnds == pc \in {"init", "write", "read"} ~> pc \in {"idle", "greeting"}
=============================================================================
