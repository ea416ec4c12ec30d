---------------------------- MODULE BLETransport ----------------------------
(***************************************************************************)
(* Commands over Bluetooth (src/device/JubiterBLEDevice.cpp and Fido.cpp): *)
(* the caller's thread wraps a command, sends it and waits on a condition  *)
(* variable; the thread of the BLE library delivers the packets of the     *)
(* answer and the loss of the link in callbacks.  The two share the        *)
(* receive buffer of the Fido singleton and the device's handle with no    *)
(* lock between them, and packets carry no number of the command they      *)
(* answer.  A step is one access of one thread to what they share.         *)
(*                                                                         *)
(* One peripheral, one caller (JUB_cancelConnect may come from another     *)
(* thread while JUB_connectDevice is blocked).  The BLE library, the link  *)
(* and the peripheral are external: an ordered link that loses packets     *)
(* only by going down, and a peripheral that answers in order.             *)
(***************************************************************************)
EXTENDS Naturals, Sequences, FiniteSets

CONSTANTS
  MaxCmd,      \* bound: commands the caller sends
  MaxConn,     \* bound: connections made
  MaxPackets,  \* bound: packets of an answer
  MaxSeq       \* the largest packet index accepted, 0x7F in the code

ASSUME TransportAssumption ==
  /\ MaxCmd \in Nat /\ MaxConn \in Nat
  /\ MaxPackets \in Nat \ {0}
  /\ MaxSeq \in Nat \ {0}

VARIABLES
  pc,         \* where the caller's thread is
  cmd,        \* the number of the command it sent last
  recv,       \* Fido: mRecvMsg, packet by packet
  cmdHeader,  \* Fido: the header a reply must have
  pkgSeq,     \* Fido: index of the last continuation packet
  hasError,   \* Fido: packets are dropped until the next clear
  cb,         \* the library's thread: its place in a callback, and the packet
  handle,     \* JubiterBLEDevice: _handle
  connected,  \* JubiterBLEDevice: _bConnected
  cancelling, \* a CancelConnect has reset _handle and not yet _bConnected
  link,       \* external: the handle of the live link, 0 if there is none
  conns,      \* external: the handle of the last link made
  disc,       \* external: disconnect callbacks the library has yet to make
  todo,       \* external: commands the peripheral has yet to answer
  inflight,   \* external: packets the library has yet to deliver
  reply,      \* what SendData hands back
  answered,   \* history: the commands the replies handed back belong to
  abandoned,  \* history: the commands SendData returned an error for
  raced,      \* history: handle or status was reset during the last Connect
  torn        \* history: a packet was merged between the two steps of clear

fido == <<recv, cmdHeader, pkgSeq, hasError>>
device == <<handle, connected, cancelling>>
radio == <<link, conns, disc, todo, inflight>>
outcome == <<reply, answered, abandoned>>
history == <<outcome, raced, torn>>
vars == <<pc, cmd, fido, cb, device, radio, history>>

-----------------------------------------------------------------------------
(* Packets.  Packet k of an answer in `of' packets: the first starts with  *)
(* the command header and the length, the others with their index k - 1.   *)
(* short: no longer than a header, as only the last of several may be.     *)

Cmd == 1 .. MaxCmd

Message ==
  {m \in [kind : {"msg"}, cmd : Cmd, k : 0 .. MaxPackets - 1, of : 1 .. MaxPackets,
          short : BOOLEAN] :
     m.k < m.of /\ (m.short => m.k > 0 /\ m.k = m.of - 1)}

Signal == [kind : {"keepalive", "error"}]
Packet == Message \cup Signal

Answer(c, n, short) ==
  [i \in 1 .. n |-> [kind |-> "msg", cmd |-> c, k |-> i - 1, of |-> n,
                     short |-> short /\ i > 1 /\ i = n]]

(* Mutant: the index has no upper bound.                                   *)
CheckSeq_unbounded(m) ==
  /\ m.k > 0
  /\ m.k - 1 = pkgSeq + 1 \/ (m.k = 1 /\ pkgSeq = 0)

(* CHECK_SEQ: the index repeats 0 at the start and then goes up by one.    *)
CheckSeq(m) ==
  /\ m.k > 0
  /\ LET x == m.k - 1
     IN \/ x = 0 /\ pkgSeq = 0
        \/ x = pkgSeq + 1 /\ x <= MaxSeq

(* checkResponse.  The announced length is that of the first packet's      *)
(* answer; "mismatch" is the invalid status that also sets hasError.       *)
CheckResponse(buf) ==
  CASE buf = <<>> -> "empty"
    [] buf # <<>> /\ Len(buf) = 1 /\ buf[1].short -> "invalid"
    [] buf # <<>> /\ ~(Len(buf) = 1 /\ buf[1].short) ->
         IF buf[1].k > 0 \/ cmdHeader # "msg" THEN "mismatch"
         ELSE IF Len(buf) >= buf[1].of THEN "done" ELSE "receiving"

(* parseFidoApdu: what is in the buffer has the announced length, which    *)
(* removePkgIndex compares only for an answer of several packets.          *)
Parses(buf) == buf[1].of = 1 \/ Len(buf) = buf[1].of

-----------------------------------------------------------------------------
Init ==
  /\ pc = "idle"
  /\ cmd = 0
  /\ recv = <<>> /\ cmdHeader = "none" /\ pkgSeq = 0 /\ hasError = FALSE
  /\ cb = [pc |-> "idle", pkt |-> <<>>]
  /\ handle = 0 /\ connected = FALSE /\ cancelling = FALSE
  /\ link = 0 /\ conns = 0 /\ disc = 0 /\ todo = <<>> /\ inflight = <<>>
  /\ reply = <<>> /\ answered = <<>> /\ abandoned = {} /\ raced = FALSE /\ torn = FALSE

-----------------------------------------------------------------------------
(* SendData, on the caller's thread.                                       *)

(* With no handle, or a handle whose link is gone, SendData returns        *)
(* JUBR_NOT_CONNECT_DEVICE at once and changes nothing.                    *)
SendData ==
  /\ pc = "idle" /\ cmd < MaxCmd
  /\ handle # 0 /\ handle = link
  /\ cmd' = cmd + 1
  /\ pc' = "clear"
  /\ UNCHANGED <<fido, cb, device, radio, history>>

(* Mutant: the packets of the last answer stay.                            *)
ClearBuffer_keepsPackets ==
  /\ pc = "clear"
  /\ torn' = FALSE
  /\ pc' = "reset"
  /\ UNCHANGED <<cmd, fido, cb, device, radio, outcome, raced>>

(* Fido::clear empties the buffer first and resets the rest after.         *)
ClearBuffer ==
  /\ pc = "clear"
  /\ recv' = <<>> /\ torn' = FALSE
  /\ pc' = "reset"
  /\ UNCHANGED <<cmd, cmdHeader, pkgSeq, hasError, cb, device, radio, outcome, raced>>

(* Mutant: the index is not reset.                                         *)
ClearState_keepsIndex ==
  /\ pc = "reset"
  /\ cmdHeader' = "none" /\ hasError' = FALSE
  /\ pc' = "wrap"
  /\ UNCHANGED <<cmd, recv, pkgSeq, cb, device, radio, history>>

ClearState ==
  /\ pc = "reset"
  /\ cmdHeader' = "none" /\ pkgSeq' = 0 /\ hasError' = FALSE
  /\ pc' = "wrap"
  /\ UNCHANGED <<cmd, recv, cb, device, radio, history>>

WrapFidoApdu ==
  /\ pc = "wrap"
  /\ cmdHeader' = "msg"
  /\ pc' = "send"
  /\ UNCHANGED <<cmd, recv, pkgSeq, hasError, cb, device, radio, history>>

Abandon ==
  /\ pc' = "idle"
  /\ abandoned' = abandoned \cup {cmd}
  /\ UNCHANGED <<reply, answered, raced, torn>>

(* The handle is read again.  A send that reports an error may have        *)
(* reached the peripheral all the same.                                    *)
SendAPDU ==
  /\ pc = "send"
  /\ \E sent, ok \in BOOLEAN :
       /\ (sent \/ ok) => handle # 0 /\ handle = link
       /\ ok => sent
       /\ todo' = IF sent THEN Append(todo, cmd) ELSE todo
       /\ IF ok THEN pc' = "enter" /\ UNCHANGED history ELSE Abandon
  /\ UNCHANGED <<cmd, fido, cb, device, link, conns, disc, inflight>>

(* waitForReceive: wait_for has no predicate, so a notification that comes *)
(* before it is lost and one that comes for nothing ends it.               *)
WaitForReceive ==
  /\ pc = "enter"
  /\ pc' = "waiting"
  /\ UNCHANGED <<cmd, fido, cb, device, radio, history>>

(* Mutant: a wait that timed out starts over.                              *)
TimeoutOrSpurious_waitsAgain ==
  /\ pc = "waiting"
  /\ pc' \in {"enter", "woken"}
  /\ UNCHANGED <<cmd, fido, cb, device, radio, history>>

TimeoutOrSpurious ==
  /\ pc = "waiting"
  /\ pc' \in {"timedout", "woken"}
  /\ UNCHANGED <<cmd, fido, cb, device, radio, history>>

CheckConnected ==
  /\ pc \in {"woken", "timedout"}
  /\ IF connected /\ pc = "woken"
       THEN pc' = "check" /\ UNCHANGED history
       ELSE Abandon
  /\ UNCHANGED <<cmd, fido, cb, device, radio>>

CheckStatus ==
  /\ pc = "check"
  /\ LET status == CheckResponse(recv)
     IN  /\ IF status = "done" THEN pc' = "copy" /\ UNCHANGED history ELSE Abandon
         /\ hasError' = (hasError \/ status = "mismatch")
  /\ UNCHANGED <<cmd, recv, cmdHeader, pkgSeq, cb, device, radio>>

CopyResponse ==
  /\ pc = "copy"
  /\ IF Parses(recv)
       THEN /\ pc' = "returned"
            /\ reply' = recv
            /\ answered' = Append(answered, recv[1].cmd)
            /\ UNCHANGED <<abandoned, raced, torn>>
       ELSE Abandon
  /\ UNCHANGED <<cmd, fido, cb, device, radio>>

ReturnReply ==
  /\ pc = "returned"
  /\ pc' = "idle"
  /\ reply' = <<>>
  /\ UNCHANGED <<cmd, fido, cb, device, radio, answered, abandoned, raced, torn>>

-----------------------------------------------------------------------------
(* The callbacks, one at a time on the library's thread.                   *)

CallbackDone == cb' = [pc |-> "idle", pkt |-> <<>>]

(* Mutant: an answer that went wrong goes on being received.               *)
Dropped_neverForError(p) == p.kind = "keepalive"

(* A packet RecvCallBack returns from at once.                             *)
Dropped(p) == hasError \/ p.kind = "keepalive"

(* RecvCallBack up to the merge: the early returns and CHECK_SEQ.          *)
RecvCallBack ==
  /\ cb.pc = "idle" /\ inflight # <<>>
  /\ LET p == Head(inflight)
     IN  /\ inflight' = Tail(inflight)
         /\ \/ /\ Dropped(p)
               /\ CallbackDone /\ UNCHANGED <<pkgSeq, hasError>>
            \/ /\ ~Dropped(p) /\ p.kind = "error"
               /\ cb' = [pc |-> "notify", pkt |-> <<>>]
               /\ UNCHANGED <<pkgSeq, hasError>>
            \/ /\ ~Dropped(p) /\ p.kind = "msg" /\ recv # <<>> /\ ~CheckSeq(p)
               /\ hasError' = TRUE
               /\ cb' = [pc |-> "notify", pkt |-> <<>>]
               /\ UNCHANGED pkgSeq
            \/ /\ ~Dropped(p) /\ p.kind = "msg" /\ (recv = <<>> \/ CheckSeq(p))
               /\ pkgSeq' = IF recv = <<>> THEN pkgSeq ELSE p.k - 1
               /\ cb' = [pc |-> "merge", pkt |-> <<p>>]
               /\ UNCHANGED hasError
  /\ UNCHANGED <<pc, cmd, recv, cmdHeader, device, link, conns, disc, todo, history>>

MergePacket ==
  /\ cb.pc = "merge"
  /\ recv' = recv \o cb.pkt
  /\ LET status == CheckResponse(recv')
     IN  /\ hasError' = (hasError \/ status = "mismatch")
         /\ IF status = "receiving" THEN CallbackDone
                                    ELSE cb' = [pc |-> "notify", pkt |-> <<>>]
  /\ torn' = (torn \/ pc = "reset")
  /\ UNCHANGED <<pc, cmd, cmdHeader, pkgSeq, device, radio, outcome, raced>>

(* stopReceiving: wakes the caller if it waits, and is forgotten if not.   *)
StopReceiving ==
  /\ cb.pc = "notify"
  /\ CallbackDone
  /\ pc' = IF pc = "waiting" THEN "woken" ELSE pc
  /\ UNCHANGED <<cmd, fido, device, radio, history>>

Connecting == pc \in {"connected", "status"}

(* Mutant: the handle is left to the next connection.                      *)
DiscCallBack_keepsHandle ==
  /\ cb.pc = "idle" /\ disc > 0
  /\ disc' = disc - 1
  /\ cb' = [pc |-> "disc", pkt |-> <<>>]
  /\ raced' = (raced \/ Connecting)
  /\ UNCHANGED <<pc, cmd, fido, device, link, conns, todo, inflight,
                 outcome, torn>>

(* BLE_DiscCallBack ignores which device and which link it is about.       *)
DiscCallBack ==
  /\ cb.pc = "idle" /\ disc > 0
  /\ disc' = disc - 1
  /\ handle' = 0
  /\ cb' = [pc |-> "disc", pkt |-> <<>>]
  /\ raced' = (raced \/ Connecting)
  /\ UNCHANGED <<pc, cmd, fido, connected, cancelling, link, conns, todo, inflight,
                 outcome, torn>>

SetConnectStatuteFalse ==
  /\ cb.pc = "disc"
  /\ connected' = FALSE
  /\ cb' = [pc |-> "notify", pkt |-> <<>>]
  /\ raced' = (raced \/ Connecting)
  /\ UNCHANGED <<pc, cmd, fido, handle, cancelling, radio, outcome, torn>>

-----------------------------------------------------------------------------
(* Connecting and disconnecting, on the caller's thread.                   *)

Connect ==
  /\ pc = "idle" /\ link = 0
  /\ pc' = "connecting"
  /\ UNCHANGED <<cmd, fido, cb, device, radio, history>>

(* FT_BLE_ConnDev returns, with a link or without, whatever the library's  *)
(* thread or a thread in CancelConnect is doing.                           *)
ConnDev ==
  /\ pc = "connecting"
  /\ \/ /\ conns < MaxConn
        /\ conns' = conns + 1 /\ link' = conns + 1
        /\ pc' = "connected"
        /\ raced' = (cb.pc = "disc" \/ cancelling)
        /\ UNCHANGED <<disc, todo, inflight>>
     \/ pc' = "idle" /\ UNCHANGED <<radio, raced>>
  /\ UNCHANGED <<cmd, fido, cb, device, outcome, torn>>

StoreHandle ==
  /\ pc = "connected"
  /\ handle' = conns
  /\ pc' = "status"
  /\ UNCHANGED <<cmd, fido, cb, connected, cancelling, radio, history>>

StoreStatus ==
  /\ pc = "status"
  /\ connected' = TRUE
  /\ pc' = "idle"
  /\ UNCHANGED <<cmd, fido, cb, handle, cancelling, radio, history>>

(* CancelConnect resets the handle, whatever there was to cancel, and then *)
(* the status: two stores, between which Connect's own may come.           *)
CancelHandle ==
  /\ ~cancelling
  /\ pc \in {"idle", "connecting", "connected", "status"}
  /\ handle' = 0
  /\ cancelling' = TRUE
  /\ raced' = (raced \/ Connecting)
  /\ UNCHANGED <<pc, cmd, fido, cb, connected, radio, outcome, torn>>

(* Mutant: only the handle is reset.                                       *)
CancelStatus_keeps ==
  /\ cancelling
  /\ cancelling' = FALSE
  /\ raced' = (raced \/ Connecting)
  /\ UNCHANGED <<pc, cmd, fido, cb, handle, connected, radio, outcome, torn>>

CancelStatus ==
  /\ cancelling
  /\ connected' = FALSE
  /\ cancelling' = FALSE
  /\ raced' = (raced \/ Connecting)
  /\ UNCHANGED <<pc, cmd, fido, cb, handle, radio, outcome, torn>>

(* Disconnect takes the handle of any connection the caller still knows;   *)
(* when the library reports success the current handle is reset, be it     *)
(* another one.  The library may or may not call back for it.  Handle and  *)
(* status are two stores here too; the threads that could come in between  *)
(* store the same two values, so that one step stands for both.            *)
Disconnect ==
  /\ pc = "idle"
  /\ \E h \in 1 .. conns :
       IF h = link
         THEN /\ link' = 0 /\ todo' = <<>> /\ inflight' = <<>>
              /\ disc' \in {disc, disc + 1}
         ELSE UNCHANGED <<link, todo, inflight, disc>>
  /\ handle' = 0 /\ connected' = FALSE
  /\ UNCHANGED <<pc, cmd, fido, cb, cancelling, conns, history>>

-----------------------------------------------------------------------------
(* External: the peripheral and the link.                                  *)

Replies(c) ==
  LET whole == {Answer(c, n, short) : n \in 1 .. MaxPackets, short \in BOOLEAN}
  IN  whole \cup {<<[kind |-> "keepalive"]>> \o a : a \in whole}
            \cup {<<[kind |-> "error"]>>}

PeripheralAnswers ==
  /\ todo # <<>>
  /\ \E r \in Replies(Head(todo)) : inflight' = inflight \o r
  /\ todo' = Tail(todo)
  /\ UNCHANGED <<pc, cmd, fido, cb, device, link, conns, disc, history>>

LinkLost ==
  /\ link # 0
  /\ link' = 0 /\ todo' = <<>> /\ inflight' = <<>> /\ disc' = disc + 1
  /\ UNCHANGED <<pc, cmd, fido, cb, device, conns, history>>

-----------------------------------------------------------------------------
(* wait_for ends by itself, so the waiting thread always goes on.          *)
SendDataStep ==
  \/ ClearBuffer \/ ClearState \/ WrapFidoApdu \/ SendAPDU \/ WaitForReceive
  \/ TimeoutOrSpurious \/ CheckConnected \/ CheckStatus \/ CopyResponse \/ ReturnReply

CallbackStep ==
  \/ RecvCallBack \/ MergePacket \/ StopReceiving \/ DiscCallBack \/ SetConnectStatuteFalse

ConnectionStep ==
  \/ Connect \/ ConnDev \/ StoreHandle \/ StoreStatus \/ CancelHandle \/ CancelStatus
  \/ Disconnect

Next ==
  \/ SendData \/ SendDataStep
  \/ CallbackStep
  \/ ConnectionStep
  \/ PeripheralAnswers \/ LinkLost

Spec == Init /\ [][Next]_vars

(* The caller's thread runs, and the library goes on making its callbacks; *)
(* nothing is assumed of the peripheral, the link or the user.             *)
FairSpec == Spec /\ WF_vars(SendDataStep) /\ WF_vars(CallbackStep)

-----------------------------------------------------------------------------
SendPC == {"clear", "reset", "wrap", "send", "enter", "waiting", "woken",
           "timedout", "check", "copy", "returned"}

(* Type correctness of the transport's state.                              *)
TypeOK ==
  /\ pc \in SendPC \cup {"idle", "connecting", "connected", "status"}
  /\ cmd \in 0 .. MaxCmd
  /\ recv \in Seq(Message)
  /\ cmdHeader \in {"none", "msg"}
  /\ pkgSeq \in 0 .. MaxSeq
  /\ hasError \in BOOLEAN
  /\ cb \in [pc : {"idle", "merge", "notify", "disc"}, pkt : {<<>>} \cup {<<m>> : m \in Message}]
  /\ handle \in 0 .. MaxConn
  /\ connected \in BOOLEAN /\ cancelling \in BOOLEAN
  /\ link \in 0 .. MaxConn
  /\ conns \in 0 .. MaxConn
  /\ disc \in 0 .. MaxConn
  /\ todo \in Seq(Cmd)
  /\ inflight \in Seq(Packet)
  /\ reply \in Seq(Message)
  /\ answered \in Seq(Cmd)
  /\ abandoned \subseteq Cmd
  /\ raced \in BOOLEAN /\ torn \in BOOLEAN

(* SendData hands back all the packets of one answer, in order and nothing *)
(* else, however the callbacks interleave with timeouts, late answers,     *)
(* spurious wakeups and reconnections.  The exception is a packet that is  *)
(* merged when clear has emptied the buffer and not yet reset the index    *)
(* and hasError: packets dropped until the reset may then be missing       *)
(* between it and the rest of another answer.                              *)
ReplyWhole ==
  pc = "returned" /\ ~torn =>
    /\ reply # <<>>
    /\ Len(reply) = reply[1].of
    /\ \A i \in 1 .. Len(reply) : reply[i].cmd = reply[1].cmd /\ reply[i].k = i - 1

(* An answer can be that of an earlier command, because nothing on the     *)
(* wire tells, but it lags by no more commands than SendData has given up  *)
(* on: a caller that saw no error so far has the answer to its command.    *)
LagBoundedByAbandoned ==
  pc = "returned" => reply[1].cmd + Cardinality(abandoned) >= cmd

(* Until a command fails, a command finds the receiver as clear left it:   *)
(* no packet in the buffer, on the link or in a callback belongs to an     *)
(* earlier one, and none has been dropped as out of sequence.              *)
FreshUntilAbandoned ==
  abandoned = {} /\ pc \in SendPC =>
    /\ ~hasError
    /\ pc \notin {"clear"} => \A i \in DOMAIN recv : recv[i].cmd = cmd
    /\ \A i \in DOMAIN cb.pkt : cb.pkt[i].cmd = cmd
    /\ \A i \in DOMAIN inflight : inflight[i].kind = "msg" => inflight[i].cmd = cmd

(* A handle the device object keeps is that of the live link, or the       *)
(* library has yet to say that it is gone, unless a disconnect callback or *)
(* a CancelConnect came across the last JUB_connectDevice.                 *)
HandleIsLive ==
  handle # 0 /\ ~Connecting /\ ~raced => handle = link \/ disc > 0

(* _handle and _bConnected agree whenever neither is being written.  The   *)
(* exception is a Connect that a disconnect callback or a CancelConnect    *)
(* came across: each of them resets the two in two stores, and Connect     *)
(* sets them in two, so that a Connect which succeeds between the stores   *)
(* of a CancelConnect, say, leaves a live handle and a status that says    *)
(* there is no connection.                                                 *)
StatusAgrees ==
  ~Connecting /\ cb.pc # "disc" /\ ~cancelling /\ ~raced => (handle # 0 <=> connected)

(* The channel implements ReplyOrder.                                      *)
Order == INSTANCE ReplyOrder WITH sent <- cmd, answered <- answered
RepliesInOrder == Order!Spec

(* A handle whose link is gone is dropped in the end: the library's call   *)
(* back comes after whatever it has queued, with the same exception.       *)
DeadHandleDropped ==
  \A h \in 1 .. MaxConn :
    handle = h /\ link # h /\ ~Connecting /\ ~raced ~> handle # h \/ raced

(* SendData returns, also when its wakeup is lost or the link goes down.   *)
SendDataReturns == pc \in SendPC ~> pc = "idle"
=============================================================================
