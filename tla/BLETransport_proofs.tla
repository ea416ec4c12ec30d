------------------------ MODULE BLETransport_proofs -------------------------
(***************************************************************************)
(* Proofs about BLETransport, for every number of commands, connections    *)
(* and packets.                                                            *)
(***************************************************************************)
EXTENDS BLETransport, FiniteSetTheorems, TLAPS

(* Every link is lost at most once, so the callbacks still to be made are  *)
(* at most one for each link made and no longer up.                        *)
CallbacksOwed ==
  /\ link \in {0, conns}
  /\ disc <= conns
  /\ link # 0 => disc < conns

(* What a SendData in progress relies on.                                  *)
SendDataShape ==
  /\ pc \in SendPC => cmd \in Cmd
  /\ pc = "copy" => recv # <<>>

TypeInv == TypeOK /\ CallbacksOwed /\ SendDataShape

(* What holds while JUB_connectDevice stores what FT_BLE_ConnDev returned, *)
(* and between the two stores of the disconnect callback or CancelConnect. *)
StoreInv ==
  /\ Connecting /\ ~raced => /\ link = conns \/ disc > 0
                            /\ cb.pc # "disc" /\ ~cancelling /\ conns > 0
  /\ pc = "status" /\ ~raced => handle = conns
  /\ (cb.pc = "disc" \/ cancelling) /\ ~Connecting /\ ~raced => handle = 0

HandleInv == StoreInv /\ HandleIsLive /\ StatusAgrees

-----------------------------------------------------------------------------
LEMMA AnswerType ==
  ASSUME NEW c \in Cmd, NEW n \in 1 .. MaxPackets, NEW short \in BOOLEAN
  PROVE  Answer(c, n, short) \in Seq(Packet)
  <1>1. n \in Nat
    BY TransportAssumption DEF TransportAssumption
  <1>2. \A i \in 1 .. n :
          [kind |-> "msg", cmd |-> c, k |-> i - 1, of |-> n,
           short |-> short /\ i > 1 /\ i = n] \in Message
    <2> TAKE i \in 1 .. n
    <2>1. /\ i - 1 \in 0 .. MaxPackets - 1 /\ i - 1 < n
          /\ (short /\ i > 1 /\ i = n) \in BOOLEAN
          /\ (short /\ i > 1 /\ i = n) => i - 1 > 0 /\ i - 1 = n - 1
      BY <1>1, TransportAssumption DEF TransportAssumption
    <2>2. QED
      BY <2>1 DEF Message
  <1>3. QED
    BY <1>1, <1>2 DEF Answer, Packet

LEMMA RepliesType ==
  ASSUME NEW c \in Cmd, NEW r \in Replies(c)
  PROVE  r \in Seq(Packet)
  <1>1. \A n \in 1 .. MaxPackets, short \in BOOLEAN : Answer(c, n, short) \in Seq(Packet)
    BY AnswerType
  <1>2. <<[kind |-> "keepalive"]>> \in Seq(Packet) /\ <<[kind |-> "error"]>> \in Seq(Packet)
    <2>1. [kind |-> "keepalive"] \in Packet /\ [kind |-> "error"] \in Packet
      BY DEF Packet, Signal
    <2>2. QED
      BY <2>1
  <1>3. CASE r \in {Answer(c, n, short) : n \in 1 .. MaxPackets, short \in BOOLEAN}
    BY <1>1, <1>3
  <1>4. CASE \E n \in 1 .. MaxPackets, short \in BOOLEAN :
               r = <<[kind |-> "keepalive"]>> \o Answer(c, n, short)
    BY <1>1, <1>2, <1>4
  <1>5. CASE r = <<[kind |-> "error"]>>
    BY <1>2, <1>5
  <1>6. QED
    BY <1>3, <1>4, <1>5 DEF Replies

LEMMA ShortSequences ==
  ASSUME NEW S
  PROVE  <<>> \in Seq(S) /\ \A x \in S : <<x>> \in Seq(S)
  OBVIOUS

LEMMA TypeInit == Init => TypeInv
  <1> SUFFICES ASSUME Init PROVE TypeInv
    OBVIOUS
  <1>1. /\ MaxCmd \in Nat /\ MaxConn \in Nat /\ MaxPackets \in Nat
        /\ 0 \in 0 .. MaxCmd /\ 0 \in 0 .. MaxConn /\ 0 \in 0 .. MaxSeq
        /\ TRUE \in BOOLEAN /\ FALSE \in BOOLEAN
    BY TransportAssumption DEF TransportAssumption
  <1>2. TypeOK
    <2>1. /\ recv = <<>> /\ todo = <<>> /\ inflight = <<>> /\ reply = <<>> /\ answered = <<>>
          /\ cb = [pc |-> "idle", pkt |-> <<>>]
      BY DEF Init
    <2>2. /\ recv \in Seq(Message) /\ todo \in Seq(Cmd) /\ inflight \in Seq(Packet)
          /\ reply \in Seq(Message) /\ answered \in Seq(Cmd)
      BY <2>1, ShortSequences
    <2>3. cb \in [pc : {"idle", "merge", "notify", "disc"},
                  pkt : {<<>>} \cup {<<m>> : m \in Message}]
      BY <2>1
    <2>4. QED
      BY <1>1, <2>2, <2>3 DEF Init, TypeOK
  <1>3. CallbacksOwed /\ SendDataShape
    BY DEF Init, CallbacksOwed, SendDataShape, SendPC
  <1>4. QED
    BY <1>2, <1>3 DEF TypeInv

LEMMA CheckDone ==
  ASSUME CheckResponse(recv) = "done"
  PROVE  recv # <<>>
  BY DEF CheckResponse

LEMMA TypeSendData == TypeInv /\ (SendData \/ SendDataStep) => TypeInv'
  <1> SUFFICES ASSUME TypeInv, SendData \/ SendDataStep PROVE TypeInv'
    OBVIOUS
  <1> USE DEF TypeInv, TypeOK, CallbacksOwed, SendDataShape, SendPC, fido, device, radio, outcome, history
  <1>1. /\ MaxCmd \in Nat /\ MaxConn \in Nat /\ MaxPackets \in Nat
        /\ 0 \in 0 .. MaxCmd /\ 0 \in 0 .. MaxConn /\ 0 \in 0 .. MaxSeq
        /\ TRUE \in BOOLEAN /\ FALSE \in BOOLEAN
    BY TransportAssumption DEF TransportAssumption
  <1>2. CASE SendData
    BY <1>1, <1>2 DEF SendData, Cmd
  <1>3. CASE ClearBuffer
    <2>1. recv' = <<>> /\ torn' = FALSE /\ pc' = "reset"
          /\ UNCHANGED <<cmd, cmdHeader, pkgSeq, hasError, cb, device, radio, outcome, raced>>
      BY <1>3 DEF ClearBuffer
    <2>2. recv' \in Seq(Message)
      BY <2>1, ShortSequences
    <2>3. QED
      <3>1. /\ pc' \in SendPC \cup {"idle", "connecting", "connected", "status"}
            /\ torn' \in BOOLEAN /\ cmd \in Cmd /\ pc' # "copy"
        BY <1>3, <2>1 DEF ClearBuffer
      <3>2. QED
        BY <2>1, <2>2, <3>1
  <1>4. CASE ClearState \/ WrapFidoApdu
    <2>1. CASE ClearState
      BY <1>1, <2>1 DEF ClearState
    <2>2. CASE WrapFidoApdu
      BY <2>2 DEF WrapFidoApdu
    <2>3. QED
      BY <1>4, <2>1, <2>2
  <1>5. CASE SendAPDU
    <2>1. PICK sent \in BOOLEAN, ok \in BOOLEAN :
            /\ todo' = IF sent THEN Append(todo, cmd) ELSE todo
            /\ IF ok THEN pc' = "enter" /\ UNCHANGED history ELSE Abandon
      BY <1>5 DEF SendAPDU
    <2>2. todo' \in Seq(Cmd)
      BY <1>5, <2>1 DEF SendAPDU
    <2>3. QED
      BY <1>5, <2>1, <2>2 DEF SendAPDU, Abandon
  <1>6. CASE WaitForReceive \/ TimeoutOrSpurious
    BY <1>6 DEF WaitForReceive, TimeoutOrSpurious
  <1>7. CASE CheckConnected
    BY <1>7 DEF CheckConnected, Abandon
  <1>8. CASE CheckStatus
    BY <1>8, CheckDone DEF CheckStatus, Abandon
  <1>9. CASE CopyResponse
    <2>1. recv # <<>> /\ recv[1] \in Message /\ recv[1].cmd \in Cmd
      BY <1>9 DEF CopyResponse, Message
    <2>2. Append(answered, recv[1].cmd) \in Seq(Cmd)
      BY <2>1
    <2>3. QED
      BY <1>9, <2>2, ZenonT(60) DEF CopyResponse, Abandon
  <1>10. CASE ReturnReply
    BY <1>10 DEF ReturnReply
  <1>11. QED
    BY <1>2, <1>3, <1>4, <1>5, <1>6, <1>7, <1>8, <1>9, <1>10 DEF SendDataStep

LEMMA IndexBound ==
  ASSUME NEW m \in Message, pkgSeq \in 0 .. MaxSeq, CheckSeq(m)
  PROVE  m.k - 1 \in 0 .. MaxSeq
  <1>1. m.k \in 0 .. MaxPackets - 1
    BY DEF Message
  <1>2. QED
    BY <1>1, TransportAssumption DEF TransportAssumption, CheckSeq

LEMMA TypeCallback == TypeInv /\ CallbackStep => TypeInv'
  <1> SUFFICES ASSUME TypeInv, CallbackStep PROVE TypeInv'
    OBVIOUS
  <1> USE DEF TypeInv, TypeOK, CallbacksOwed, SendDataShape, SendPC, fido, device, radio, outcome, history
  <1>1. /\ MaxCmd \in Nat /\ MaxConn \in Nat /\ MaxPackets \in Nat
        /\ 0 \in 0 .. MaxCmd /\ 0 \in 0 .. MaxConn /\ 0 \in 0 .. MaxSeq
        /\ TRUE \in BOOLEAN /\ FALSE \in BOOLEAN
    BY TransportAssumption DEF TransportAssumption
  <1>2. CASE RecvCallBack
    <2>1. inflight # <<>> /\ Head(inflight) \in Packet /\ Tail(inflight) \in Seq(Packet)
      BY <1>2 DEF RecvCallBack
    <2>2. Head(inflight).kind = "msg" => Head(inflight) \in Message
      BY <2>1 DEF Packet, Signal
    <2>3. Head(inflight) \in Message /\ CheckSeq(Head(inflight))
            => Head(inflight).k - 1 \in 0 .. MaxSeq
      BY IndexBound
    <2>4. pkgSeq' \in 0 .. MaxSeq
      BY <1>2, <2>2, <2>3 DEF RecvCallBack
    <2>5. cb' \in [pc : {"idle", "merge", "notify", "disc"},
                   pkt : {<<>>} \cup {<<m>> : m \in Message}]
      BY <1>2, <2>2 DEF RecvCallBack, CallbackDone
    <2>6. /\ inflight' \in Seq(Packet) /\ hasError' \in BOOLEAN
          /\ UNCHANGED <<pc, cmd, recv, cmdHeader, device, link, conns, disc, todo, history>>
      BY <1>2, <2>1 DEF RecvCallBack
    <2>7. QED
      BY <2>4, <2>5, <2>6
  <1>3. CASE MergePacket
    <2>1. cb.pkt \in Seq(Message)
      <3>1. cb.pkt = <<>> \/ \E m \in Message : cb.pkt = <<m>>
        OBVIOUS
      <3>2. \A m \in Message : <<m>> \in Seq(Message)
        BY ShortSequences
      <3>3. CASE cb.pkt = <<>>
        BY <3>3, ShortSequences
      <3>4. CASE cb.pkt # <<>>
        <4>1. PICK m \in Message : cb.pkt = <<m>>
          BY <3>1, <3>4
        <4>2. <<m>> \in Seq(Message)
          BY <3>2
        <4>3. QED
          BY <4>1, <4>2
      <3>5. QED
        BY <3>3, <3>4
    <2>2. recv' \in Seq(Message) /\ (recv # <<>> => recv' # <<>>)
      BY <1>3, <2>1 DEF MergePacket
    <2>3. /\ cb' \in [pc : {"idle", "merge", "notify", "disc"},
                      pkt : {<<>>} \cup {<<m>> : m \in Message}]
          /\ hasError' \in BOOLEAN /\ torn' \in BOOLEAN
          /\ UNCHANGED <<pc, cmd, cmdHeader, pkgSeq, device, radio, outcome, raced>>
      BY <1>3 DEF MergePacket, CallbackDone
    <2>4. QED
      BY <2>2, <2>3
  <1>4. CASE StopReceiving
    BY <1>4 DEF StopReceiving, CallbackDone
  <1>5. CASE DiscCallBack
    BY <1>1, <1>5 DEF DiscCallBack, Connecting
  <1>6. CASE SetConnectStatuteFalse
    BY <1>6, ZenonT(60) DEF SetConnectStatuteFalse, Connecting
  <1>7. QED
    BY <1>2, <1>3, <1>4, <1>5, <1>6 DEF CallbackStep

LEMMA TypeConnection == TypeInv /\ (ConnectionStep \/ LinkLost) => TypeInv'
  <1> SUFFICES ASSUME TypeInv, ConnectionStep \/ LinkLost PROVE TypeInv'
    OBVIOUS
  <1> USE DEF TypeInv, TypeOK, CallbacksOwed, SendDataShape, SendPC, fido, device, radio, outcome, history
  <1>1. /\ MaxCmd \in Nat /\ MaxConn \in Nat /\ MaxPackets \in Nat
        /\ 0 \in 0 .. MaxCmd /\ 0 \in 0 .. MaxConn /\ 0 \in 0 .. MaxSeq
        /\ TRUE \in BOOLEAN /\ FALSE \in BOOLEAN
    BY TransportAssumption DEF TransportAssumption
  <1>2. CASE Connect
    BY <1>2 DEF Connect
  <1>3. CASE ConnDev
    <2>1. CASE pc' = "idle" /\ UNCHANGED <<radio, raced>>
      BY <1>3, <2>1 DEF ConnDev
    <2>2. CASE /\ conns < MaxConn
               /\ conns' = conns + 1 /\ link' = conns + 1
               /\ pc' = "connected"
               /\ raced' = (cb.pc = "disc" \/ cancelling)
               /\ UNCHANGED <<disc, todo, inflight>>
      <3>1. conns' \in 0 .. MaxConn /\ link' = conns' /\ link' # 0
            /\ disc' < conns' /\ raced' \in BOOLEAN
        BY <1>1, <1>3, <2>2 DEF ConnDev
      <3>2. QED
        BY <1>3, <2>2, <3>1 DEF ConnDev
    <2>3. QED
      BY <1>3, <2>1, <2>2 DEF ConnDev
  <1>4. CASE StoreHandle \/ StoreStatus
    BY <1>4 DEF StoreHandle, StoreStatus
  <1>5. CASE CancelHandle \/ CancelStatus
    <2>1. raced' \in BOOLEAN
      BY <1>5 DEF CancelHandle, CancelStatus, Connecting
    <2>2. QED
      BY <1>1, <1>5, <2>1, ZenonT(60) DEF CancelHandle, CancelStatus
  <1>6. CASE Disconnect
    <2>1. PICK h \in 1 .. conns :
            IF h = link
              THEN /\ link' = 0 /\ todo' = <<>> /\ inflight' = <<>>
                   /\ disc' \in {disc, disc + 1}
              ELSE UNCHANGED <<link, todo, inflight, disc>>
      BY <1>6 DEF Disconnect
    <2>2. /\ todo' \in Seq(Cmd) /\ inflight' \in Seq(Packet)
          /\ link' \in {0, conns}
          /\ disc' \in 0 .. MaxConn
          /\ disc' <= conns /\ (link' # 0 => disc' < conns)
      <3>1. <<>> \in Seq(Cmd) /\ <<>> \in Seq(Packet)
        BY ShortSequences
      <3>2. CASE h = link
        <4>1. disc' \in {disc, disc + 1} /\ disc' <= conns /\ link' = 0
              /\ todo' = <<>> /\ inflight' = <<>>
          BY <1>1, <2>1, <3>2
        <4>2. disc' \in Nat /\ conns \in Nat /\ conns <= MaxConn
          BY <1>1, <4>1
        <4>3. disc' \in 0 .. MaxConn
          BY <1>1, <4>1, <4>2
        <4>4. QED
          BY <3>1, <4>1, <4>3
      <3>3. CASE h # link
        BY <2>1, <3>3
      <3>4. QED
        BY <3>2, <3>3
    <2>3. QED
      BY <1>1, <1>6, <2>2 DEF Disconnect
  <1>7. CASE LinkLost
    BY <1>1, <1>7 DEF LinkLost
  <1>8. QED
    BY <1>2, <1>3, <1>4, <1>5, <1>6, <1>7 DEF ConnectionStep

LEMMA TypePeripheral == TypeInv /\ PeripheralAnswers => TypeInv'
  <1> SUFFICES ASSUME TypeInv, PeripheralAnswers PROVE TypeInv'
    OBVIOUS
  <1> USE DEF TypeInv, TypeOK, CallbacksOwed, SendDataShape, SendPC, fido, device, radio, outcome, history
  <1>1. todo # <<>> /\ Head(todo) \in Cmd /\ Tail(todo) \in Seq(Cmd)
    BY DEF PeripheralAnswers
  <1>2. PICK r \in Replies(Head(todo)) : inflight' = inflight \o r
    BY DEF PeripheralAnswers
  <1>3. r \in Seq(Packet)
    BY <1>1, RepliesType
  <1>4. inflight' \in Seq(Packet)
    BY <1>2, <1>3
  <1>5. QED
    BY <1>1, <1>4 DEF PeripheralAnswers

LEMMA TypeNext == TypeInv /\ [Next]_vars => TypeInv'
  <1>1. TypeInv /\ UNCHANGED vars => TypeInv'
    BY DEF vars, TypeInv, TypeOK, CallbacksOwed, SendDataShape, SendPC, fido, device, radio, outcome, history
  <1>2. QED
    BY <1>1, TypeSendData, TypeCallback, TypeConnection, TypePeripheral DEF Next

(* The transport's state keeps its type: no callback is owed for a link    *)
(* that was never made, and SendData never copies from an empty buffer.    *)
THEOREM TransportTypeCorrect == Spec => []TypeOK
  <1>1. TypeInv => TypeOK
    BY DEF TypeInv
  <1>2. QED
    BY <1>1, TypeInit, TypeNext, PTL DEF Spec

-----------------------------------------------------------------------------
LEMMA HandleInit == Init => HandleInv
  BY DEF Init, HandleInv, StoreInv, HandleIsLive, StatusAgrees, Connecting

(* SendData and the callbacks of packets touch neither the handle nor the  *)
(* link, and leave the caller outside of JUB_connectDevice.                *)
LEMMA HandleUntouched ==
  ASSUME HandleInv,
         UNCHANGED <<handle, connected, cancelling, link, conns, disc, raced>>,
         (Connecting' = FALSE /\ Connecting = FALSE) \/ pc' = pc,
         cb'.pc = "disc" <=> cb.pc = "disc"
  PROVE  HandleInv'
  BY DEF HandleInv, StoreInv, HandleIsLive, StatusAgrees, Connecting

LEMMA HandleSendData ==
  HandleInv /\ (SendData \/ SendDataStep \/ PeripheralAnswers) => HandleInv'
  <1> SUFFICES ASSUME HandleInv, SendData \/ SendDataStep \/ PeripheralAnswers
               PROVE  HandleInv'
    OBVIOUS
  <1>1. UNCHANGED <<handle, connected, cancelling, link, conns, disc, raced, cb>>
    BY DEF SendData, SendDataStep, PeripheralAnswers, ClearBuffer, ClearState, WrapFidoApdu,
           SendAPDU, WaitForReceive, TimeoutOrSpurious, CheckConnected, CheckStatus,
           CopyResponse, ReturnReply, Abandon, device, radio, outcome, history
  <1>2. (Connecting' = FALSE /\ Connecting = FALSE) \/ pc' = pc
    BY DEF SendData, SendDataStep, PeripheralAnswers, ClearBuffer, ClearState, WrapFidoApdu,
           SendAPDU, WaitForReceive, TimeoutOrSpurious, CheckConnected, CheckStatus,
           CopyResponse, ReturnReply, Abandon, Connecting
  <1>3. QED
    BY <1>1, <1>2, HandleUntouched

LEMMA HandleCallback == TypeInv /\ HandleInv /\ CallbackStep => HandleInv'
  <1> SUFFICES ASSUME TypeInv, HandleInv, CallbackStep PROVE HandleInv'
    OBVIOUS
  <1>1. CASE RecvCallBack \/ MergePacket \/ StopReceiving
    <2>1. UNCHANGED <<handle, connected, cancelling, link, conns, disc, raced>>
      BY <1>1 DEF RecvCallBack, MergePacket, StopReceiving, device, radio, outcome, history
    <2>2. (Connecting' = FALSE /\ Connecting = FALSE) \/ pc' = pc
      BY <1>1 DEF RecvCallBack, MergePacket, StopReceiving, Connecting
    <2>3. cb.pc # "disc" /\ cb'.pc # "disc"
      BY <1>1 DEF RecvCallBack, MergePacket, StopReceiving, CallbackDone
    <2>4. QED
      BY <2>1, <2>2, <2>3, HandleUntouched
  <1>2. CASE DiscCallBack
    <2>1. handle' = 0 /\ cb'.pc = "disc" /\ pc' = pc /\ raced' = (raced \/ Connecting)
      BY <1>2 DEF DiscCallBack
    <2>2. QED
      BY <2>1 DEF HandleInv, StoreInv, HandleIsLive, StatusAgrees, Connecting
  <1>3. CASE SetConnectStatuteFalse
    <2>1. /\ connected' = FALSE /\ cb.pc = "disc" /\ cb'.pc # "disc" /\ pc' = pc
          /\ raced' = (raced \/ Connecting)
          /\ UNCHANGED <<handle, cancelling, link, conns, disc>>
      BY <1>3 DEF SetConnectStatuteFalse, radio
    <2>2. QED
      BY <2>1 DEF HandleInv, StoreInv, HandleIsLive, StatusAgrees, Connecting
  <1>4. QED
    BY <1>1, <1>2, <1>3 DEF CallbackStep

LEMMA HandleConnection == TypeInv /\ HandleInv /\ (ConnectionStep \/ LinkLost) => HandleInv'
  <1> SUFFICES ASSUME TypeInv, HandleInv, ConnectionStep \/ LinkLost PROVE HandleInv'
    OBVIOUS
  <1> USE DEF HandleInv, StoreInv, HandleIsLive, StatusAgrees, Connecting
  <1>1. conns \in Nat /\ disc \in Nat
    BY TransportAssumption DEF TransportAssumption, TypeInv, TypeOK
  <1>2. CASE Connect
    BY <1>2 DEF Connect, device, radio, outcome, history
  <1>3. CASE ConnDev
    <2>1. CASE pc' = "idle" /\ UNCHANGED <<radio, raced>>
      BY <1>3, <2>1 DEF ConnDev, device, radio
    <2>2. CASE /\ conns' = conns + 1 /\ link' = conns + 1
               /\ pc' = "connected"
               /\ raced' = (cb.pc = "disc" \/ cancelling)
      <3>1. conns' > 0 /\ link' = conns' /\ cb' = cb /\ cancelling' = cancelling
        BY <1>1, <1>3, <2>2 DEF ConnDev, device
      <3>2. ~raced' => cb'.pc # "disc" /\ ~cancelling'
        BY <2>2, <3>1
      <3>3. pc' # "status" /\ Connecting'
        BY <2>2
      <3>4. QED
        BY <3>1, <3>2, <3>3
    <2>3. QED
      BY <1>3, <2>1, <2>2 DEF ConnDev
  <1>4. CASE StoreHandle
    BY <1>4 DEF StoreHandle, radio, outcome, history
  <1>5. CASE StoreStatus
    <2>1. /\ pc = "status" /\ pc' = "idle" /\ connected' = TRUE
          /\ UNCHANGED <<handle, cancelling, link, conns, disc, raced, cb>>
      BY <1>5 DEF StoreStatus, radio, outcome, history
    <2>2. conns > 0 => conns # 0
      BY <1>1
    <2>3. QED
      BY <2>1, <2>2
  <1>6. CASE CancelHandle \/ CancelStatus
    BY <1>6 DEF CancelHandle, CancelStatus, radio
  <1>7. CASE Disconnect
    BY <1>7 DEF Disconnect, outcome, history
  <1>8. CASE LinkLost
    <2>1. disc' > 0 /\ UNCHANGED <<pc, cb, handle, connected, cancelling, conns, raced>>
      BY <1>1, <1>8 DEF LinkLost, device, outcome, history
    <2>2. QED
      BY <2>1
  <1>9. QED
    BY <1>2, <1>3, <1>4, <1>5, <1>6, <1>7, <1>8 DEF ConnectionStep

LEMMA HandleNext == TypeInv /\ HandleInv /\ [Next]_vars => HandleInv'
  <1>1. HandleInv /\ UNCHANGED vars => HandleInv'
    BY DEF vars, HandleInv, StoreInv, HandleIsLive, StatusAgrees, Connecting, device, radio, outcome, history
  <1>2. QED
    BY <1>1, HandleSendData, HandleCallback, HandleConnection DEF Next

LEMMA HandleInvariant == Spec => []HandleInv
  BY TypeInit, TypeNext, HandleInit, HandleNext, PTL DEF Spec

(* The handle JubiterBLEDevice keeps is that of the live link, or its loss *)
(* is still to be reported, for any library and any number of links.       *)
THEOREM HandleLive == Spec => []HandleIsLive
  <1>1. HandleInv => HandleIsLive
    BY DEF HandleInv
  <1>2. QED
    BY <1>1, HandleInvariant, PTL

(* _handle and _bConnected are written by four functions on two threads    *)
(* and still agree, but where the code leaves the two writes of a connect  *)
(* open to those of the disconnect callback and of CancelConnect.          *)
THEOREM StatusAgreement == Spec => []StatusAgrees
  <1>1. HandleInv => StatusAgrees
    BY DEF HandleInv
  <1>2. QED
    BY <1>1, HandleInvariant, PTL

-----------------------------------------------------------------------------
(* Packets arrive in the order of their commands, and within the answer to *)
(* one command in the order of their index.                                *)
Before(p, q) == p.cmd < q.cmd \/ (p.cmd = q.cmd /\ p.k < q.k)

(* The messages, keepalives and errors aside, of a sequence of packets.    *)
Messages(s) == {m \in Message : \E i \in 1 .. Len(s) : s[i] = m}

InOrder(s) ==
  \A i, j \in 1 .. Len(s) :
    i < j /\ s[i] \in Message /\ s[j] \in Message => Before(s[i], s[j])

(* q continues the answer that p is a packet of.                           *)
Follows(p, q) == q.cmd = p.cmd /\ q.of = p.of /\ q.k = p.k + 1
Continues(m) == m \in Message /\ m.k > 0

Linked(s) ==
  \A i \in 2 .. Len(s) : Continues(s[i]) => s[i - 1] \in Message /\ Follows(s[i - 1], s[i])

Asked(s) == {c \in Cmd : \E i \in 1 .. Len(s) : s[i] = c}
Ascending(s) == \A i, j \in 1 .. Len(s) : i < j => s[i] < s[j]

LEMMA MessageFields ==
  ASSUME NEW m \in Message
  PROVE  /\ m.kind = "msg" /\ m.cmd \in Nat /\ m.cmd > 0 /\ m.cmd \in Cmd
         /\ m.k \in Nat /\ m.of \in Nat /\ m.k < m.of /\ m.of <= MaxPackets
  BY TransportAssumption DEF TransportAssumption, Message, Cmd

LEMMA PacketKind ==
  ASSUME NEW p \in Packet
  PROVE  p.kind = "msg" <=> p \in Message
  BY DEF Packet, Signal, Message

LEMMA TailIndex ==
  ASSUME NEW S, NEW s \in Seq(S), s # <<>>
  PROVE  /\ Len(s) > 0 /\ Head(s) = s[1] /\ Head(s) \in S
         /\ Tail(s) \in Seq(S) /\ Len(Tail(s)) = Len(s) - 1
         /\ \A i \in 1 .. Len(s) - 1 : Tail(s)[i] = s[i + 1]
  OBVIOUS

LEMMA ConcatIndex ==
  ASSUME NEW S, NEW s \in Seq(S), NEW r \in Seq(S)
  PROVE  /\ s \o r \in Seq(S) /\ Len(s \o r) = Len(s) + Len(r)
         /\ Len(s) \in Nat /\ Len(r) \in Nat
         /\ \A i \in 1 .. Len(s) : (s \o r)[i] = s[i]
         /\ \A i \in Len(s) + 1 .. Len(s) + Len(r) : (s \o r)[i] = r[i - Len(s)]
  OBVIOUS

LEMMA PrependIndex ==
  ASSUME NEW S, NEW x \in S, NEW s \in Seq(S)
  PROVE  /\ <<x>> \o s \in Seq(S) /\ Len(<<x>> \o s) = 1 + Len(s)
         /\ (<<x>> \o s)[1] = x
         /\ \A i \in 2 .. 1 + Len(s) : (<<x>> \o s)[i] = s[i - 1]
  <1>1. <<x>> \in Seq(S) /\ Len(<<x>>) = 1 /\ <<x>>[1] = x
    OBVIOUS
  <1>2. QED
    BY <1>1, ConcatIndex

LEMMA AppendLast ==
  ASSUME NEW S, NEW s \in Seq(S), NEW x \in S
  PROVE  /\ Append(s, x) \in Seq(S) /\ Append(s, x) # <<>>
         /\ Len(Append(s, x)) = Len(s) + 1 /\ Len(s) \in Nat
         /\ Append(s, x)[Len(Append(s, x))] = x
  OBVIOUS

LEMMA ConcatLast ==
  ASSUME NEW S, NEW s \in Seq(S), NEW x \in S
  PROVE  /\ s \o <<x>> \in Seq(S) /\ s \o <<x>> # <<>>
         /\ Len(s \o <<x>>) = Len(s) + 1 /\ Len(s) \in Nat
         /\ (s \o <<x>>)[Len(s \o <<x>>)] = x
         /\ s = <<>> => s \o <<x>> = <<x>>
         /\ s # <<>> => (s \o <<x>>)[1] = s[1]
  <1>1. <<x>> \in Seq(S) /\ Len(<<x>>) = 1 /\ <<x>>[1] = x /\ Len(s) \in Nat
    OBVIOUS
  <1>2. /\ s \o <<x>> \in Seq(S) /\ Len(s \o <<x>>) = Len(s) + 1
        /\ \A i \in 1 .. Len(s) : (s \o <<x>>)[i] = s[i]
        /\ (s \o <<x>>)[Len(s) + 1] = x
    OBVIOUS
  <1>3. s = <<>> => s \o <<x>> = <<x>>
    OBVIOUS
  <1>4. s # <<>> => Len(s) > 0
    OBVIOUS
  <1>5. s \o <<x>> # <<>>
    BY <1>1, <1>2
  <1>6. QED
    BY <1>1, <1>2, <1>3, <1>4, <1>5

LEMMA MessagesTail ==
  ASSUME NEW s \in Seq(Packet), s # <<>>
  PROVE  /\ Messages(Tail(s)) \subseteq Messages(s)
         /\ Head(s) \in Message => Head(s) \in Messages(s)
         /\ InOrder(s) => InOrder(Tail(s))
         /\ InOrder(s) /\ Head(s) \in Message => \A m \in Messages(Tail(s)) : Before(Head(s), m)
  <1>1. /\ Len(s) \in Nat /\ Len(s) > 0 /\ Head(s) = s[1] /\ Len(Tail(s)) = Len(s) - 1
        /\ \A i \in 1 .. Len(s) - 1 : Tail(s)[i] = s[i + 1]
    BY TailIndex
  <1>2. Messages(Tail(s)) \subseteq Messages(s)
    <2> SUFFICES ASSUME NEW m \in Message, NEW i \in 1 .. Len(s) - 1, Tail(s)[i] = m
                 PROVE  \E j \in 1 .. Len(s) : s[j] = m
      BY <1>1 DEF Messages
    <2>1. i + 1 \in 1 .. Len(s) /\ s[i + 1] = m
      BY <1>1
    <2>2. QED
      BY <2>1
  <1>3. Head(s) \in Message => Head(s) \in Messages(s)
    <2>1. 1 \in 1 .. Len(s)
      BY <1>1
    <2>2. QED
      BY <1>1, <2>1 DEF Messages
  <1>4. ASSUME InOrder(s) PROVE InOrder(Tail(s))
    <2> SUFFICES ASSUME NEW i \in 1 .. Len(s) - 1, NEW j \in 1 .. Len(s) - 1, i < j,
                        Tail(s)[i] \in Message, Tail(s)[j] \in Message
                 PROVE  Before(Tail(s)[i], Tail(s)[j])
      BY <1>1 DEF InOrder
    <2>1. /\ i + 1 \in 1 .. Len(s) /\ j + 1 \in 1 .. Len(s) /\ i + 1 < j + 1
          /\ Tail(s)[i] = s[i + 1] /\ Tail(s)[j] = s[j + 1]
      BY <1>1
    <2>2. QED
      BY <1>4, <2>1 DEF InOrder
  <1>5. ASSUME InOrder(s), Head(s) \in Message, NEW m \in Messages(Tail(s))
        PROVE  Before(Head(s), m)
    <2>1. PICK i \in 1 .. Len(s) - 1 : Tail(s)[i] = m
      BY <1>1 DEF Messages
    <2>2. /\ 1 \in 1 .. Len(s) /\ i + 1 \in 1 .. Len(s) /\ 1 < i + 1
          /\ s[i + 1] = m /\ s[1] = Head(s) /\ m \in Message
      BY <1>1, <2>1 DEF Messages
    <2>3. QED
      BY <1>5, <2>2 DEF InOrder
  <1>6. QED
    BY <1>2, <1>3, <1>4, <1>5

LEMMA MessagesConcat ==
  ASSUME NEW s \in Seq(Packet), NEW r \in Seq(Packet)
  PROVE  /\ Messages(s \o r) \subseteq Messages(s) \cup Messages(r)
         /\ InOrder(s) /\ InOrder(r) /\ (\A p \in Messages(s), q \in Messages(r) : Before(p, q))
              => InOrder(s \o r)
  <1>1. /\ Len(s) \in Nat /\ Len(r) \in Nat /\ Len(s \o r) = Len(s) + Len(r)
        /\ \A i \in 1 .. Len(s) : (s \o r)[i] = s[i]
        /\ \A i \in Len(s) + 1 .. Len(s) + Len(r) : (s \o r)[i] = r[i - Len(s)]
    BY ConcatIndex
  <1>2. \A i \in 1 .. Len(s \o r) :
          \/ i \in 1 .. Len(s) /\ (s \o r)[i] = s[i]
          \/ i - Len(s) \in 1 .. Len(r) /\ (s \o r)[i] = r[i - Len(s)] /\ i > Len(s)
    BY <1>1
  <1>3. Messages(s \o r) \subseteq Messages(s) \cup Messages(r)
    BY <1>2 DEF Messages
  <1>4. ASSUME InOrder(s), InOrder(r), \A p \in Messages(s), q \in Messages(r) : Before(p, q),
               NEW i \in 1 .. Len(s \o r), NEW j \in 1 .. Len(s \o r), i < j,
               (s \o r)[i] \in Message, (s \o r)[j] \in Message
        PROVE  Before((s \o r)[i], (s \o r)[j])
    <2>1. CASE i \in 1 .. Len(s) /\ j \in 1 .. Len(s)
      BY <1>1, <1>4, <2>1 DEF InOrder
    <2>2. CASE i \in 1 .. Len(s) /\ j - Len(s) \in 1 .. Len(r) /\ j > Len(s)
      <3>1. (s \o r)[i] = s[i] /\ (s \o r)[j] = r[j - Len(s)]
        BY <1>1, <1>2, <2>2
      <3>2. s[i] \in Messages(s) /\ r[j - Len(s)] \in Messages(r)
        BY <1>4, <2>2, <3>1 DEF Messages
      <3>3. QED
        BY <1>4, <3>1, <3>2
    <2>3. CASE i > Len(s) /\ j > Len(s)
      <3>1. /\ i - Len(s) \in 1 .. Len(r) /\ j - Len(s) \in 1 .. Len(r) /\ i - Len(s) < j - Len(s)
            /\ (s \o r)[i] = r[i - Len(s)] /\ (s \o r)[j] = r[j - Len(s)]
        BY <1>1, <1>2, <1>4, <2>3
      <3>2. QED
        BY <1>4, <3>1 DEF InOrder
    <2>4. QED
      BY <1>1, <1>2, <1>4, <2>1, <2>2, <2>3
  <1>5. QED
    BY <1>3, <1>4 DEF InOrder

LEMMA LinkedTail ==
  ASSUME NEW s \in Seq(Packet), s # <<>>, Linked(s)
  PROVE  /\ Linked(Tail(s))
         /\ Tail(s) # <<>> /\ Continues(Tail(s)[1])
              => Head(s) \in Message /\ Follows(Head(s), Tail(s)[1])
  <1>1. /\ Len(s) \in Nat /\ Len(s) > 0 /\ Head(s) = s[1] /\ Len(Tail(s)) = Len(s) - 1
        /\ Tail(s) \in Seq(Packet)
        /\ \A i \in 1 .. Len(s) - 1 : Tail(s)[i] = s[i + 1]
    BY TailIndex
  <1>2. ASSUME NEW i \in 2 .. Len(Tail(s)), Continues(Tail(s)[i])
        PROVE  Tail(s)[i - 1] \in Message /\ Follows(Tail(s)[i - 1], Tail(s)[i])
    <2>1. /\ i + 1 \in 2 .. Len(s) /\ Tail(s)[i] = s[i + 1]
          /\ i - 1 \in 1 .. Len(s) - 1 /\ Tail(s)[i - 1] = s[(i - 1) + 1] /\ (i - 1) + 1 = (i + 1) - 1
      BY <1>1
    <2>2. QED
      BY <1>2, <2>1 DEF Linked
  <1>3. ASSUME Tail(s) # <<>>, Continues(Tail(s)[1])
        PROVE  Head(s) \in Message /\ Follows(Head(s), Tail(s)[1])
    <2>1. Len(Tail(s)) > 0
      BY <1>1, <1>3
    <2>2. 2 \in 2 .. Len(s) /\ Tail(s)[1] = s[2] /\ s[2 - 1] = Head(s)
      BY <1>1, <2>1
    <2>3. QED
      BY <1>3, <2>2 DEF Linked
  <1>4. QED
    BY <1>2, <1>3 DEF Linked

LEMMA LinkedConcat ==
  ASSUME NEW s \in Seq(Packet), NEW r \in Seq(Packet), Linked(s), Linked(r),
         r # <<>>, ~Continues(r[1])
  PROVE  Linked(s \o r)
  <1>1. /\ Len(s) \in Nat /\ Len(r) \in Nat /\ Len(s \o r) = Len(s) + Len(r)
        /\ \A i \in 1 .. Len(s) : (s \o r)[i] = s[i]
        /\ \A i \in Len(s) + 1 .. Len(s) + Len(r) : (s \o r)[i] = r[i - Len(s)]
    BY ConcatIndex
  <1> SUFFICES ASSUME NEW i \in 2 .. Len(s \o r), Continues((s \o r)[i])
               PROVE  (s \o r)[i - 1] \in Message /\ Follows((s \o r)[i - 1], (s \o r)[i])
    BY DEF Linked
  <1>2. CASE i <= Len(s)
    <2>1. i \in 2 .. Len(s) /\ (s \o r)[i] = s[i] /\ (s \o r)[i - 1] = s[i - 1]
      BY <1>1, <1>2
    <2>2. QED
      BY <2>1 DEF Linked
  <1>3. CASE i > Len(s)
    <2>1. i - Len(s) \in 1 .. Len(r) /\ (s \o r)[i] = r[i - Len(s)]
      BY <1>1, <1>3
    <2>2. i - Len(s) # 1
      BY <2>1
    <2>3. i - Len(s) \in 2 .. Len(r) /\ (s \o r)[i - 1] = r[(i - Len(s)) - 1]
      BY <1>1, <2>1, <2>2
    <2>4. QED
      BY <2>1, <2>3 DEF Linked
  <1>4. QED
    BY <1>1, <1>2, <1>3

LEMMA AscendingTail ==
  ASSUME NEW s \in Seq(Cmd), s # <<>>
  PROVE  /\ Asked(Tail(s)) \subseteq Asked(s) /\ Head(s) \in Asked(s)
         /\ Ascending(s) => Ascending(Tail(s)) /\ \A c \in Asked(Tail(s)) : Head(s) < c
  <1>1. /\ Len(s) \in Nat /\ Len(s) > 0 /\ Head(s) = s[1] /\ Len(Tail(s)) = Len(s) - 1
        /\ Head(s) \in Cmd
        /\ \A i \in 1 .. Len(s) - 1 : Tail(s)[i] = s[i + 1]
    BY TailIndex
  <1>2. \A i \in 1 .. Len(Tail(s)) : i + 1 \in 1 .. Len(s) /\ Tail(s)[i] = s[i + 1] /\ 1 < i + 1
    BY <1>1
  <1>3. 1 \in 1 .. Len(s)
    BY <1>1
  <1>4. Asked(Tail(s)) \subseteq Asked(s) /\ Head(s) \in Asked(s)
    BY <1>1, <1>2, <1>3 DEF Asked
  <1>5. ASSUME Ascending(s), NEW c \in Asked(Tail(s)) PROVE Head(s) < c
    <2>1. PICK i \in 1 .. Len(Tail(s)) : Tail(s)[i] = c
      BY DEF Asked
    <2>2. i + 1 \in 1 .. Len(s) /\ 1 < i + 1 /\ s[i + 1] = c /\ s[1] = Head(s)
      BY <1>1, <1>2, <2>1
    <2>3. QED
      BY <1>3, <1>5, <2>2 DEF Ascending
  <1>6. ASSUME Ascending(s), NEW i \in 1 .. Len(Tail(s)), NEW j \in 1 .. Len(Tail(s)), i < j
        PROVE  Tail(s)[i] < Tail(s)[j]
    <2>1. i + 1 < j + 1
      BY <1>6
    <2>2. QED
      BY <1>2, <1>6, <2>1 DEF Ascending
  <1>7. QED
    BY <1>4, <1>5, <1>6 DEF Ascending

LEMMA AscendingAppend ==
  ASSUME NEW s \in Seq(Cmd), NEW c \in Cmd, Ascending(s), \A d \in Asked(s) : d < c
  PROVE  /\ Ascending(Append(s, c))
         /\ Asked(Append(s, c)) \subseteq Asked(s) \cup {c}
  <1>1. /\ Len(s) \in Nat /\ Len(Append(s, c)) = Len(s) + 1
        /\ \A i \in 1 .. Len(s) : Append(s, c)[i] = s[i] /\ s[i] \in Asked(s)
        /\ Append(s, c)[Len(s) + 1] = c
    BY DEF Asked
  <1>2. \A i \in 1 .. Len(Append(s, c)) : i \in 1 .. Len(s) \/ i = Len(s) + 1
    BY <1>1
  <1>3. Asked(Append(s, c)) \subseteq Asked(s) \cup {c}
    BY <1>1, <1>2 DEF Asked
  <1>4. ASSUME NEW i \in 1 .. Len(Append(s, c)), NEW j \in 1 .. Len(Append(s, c)), i < j
        PROVE  Append(s, c)[i] < Append(s, c)[j]
    <2>1. i \in 1 .. Len(s)
      BY <1>1, <1>4
    <2>2. CASE j \in 1 .. Len(s)
      BY <1>1, <1>4, <2>1, <2>2 DEF Ascending
    <2>3. CASE j = Len(s) + 1
      BY <1>1, <2>1, <2>3
    <2>4. QED
      BY <1>2, <2>2, <2>3
  <1>5. QED
    BY <1>3, <1>4 DEF Ascending

LEMMA Emptied ==
  /\ Messages(<<>>) = {} /\ InOrder(<<>>) /\ Linked(<<>>)
  /\ Asked(<<>>) = {} /\ Ascending(<<>>)
  BY DEF Messages, InOrder, Linked, Asked, Ascending

LEMMA AnswerPackets ==
  ASSUME NEW c \in Cmd, NEW n \in 1 .. MaxPackets, NEW short \in BOOLEAN
  PROVE  /\ n \in Nat /\ n > 0 /\ Len(Answer(c, n, short)) = n
         /\ Answer(c, n, short) \in Seq(Packet)
         /\ \A i \in 1 .. n :
              /\ Answer(c, n, short)[i] \in Message
              /\ Answer(c, n, short)[i].cmd = c
              /\ Answer(c, n, short)[i].k = i - 1
              /\ Answer(c, n, short)[i].of = n
  <1>1. n \in Nat /\ n > 0
    BY TransportAssumption DEF TransportAssumption
  <1>2. Answer(c, n, short) \in Seq(Packet) /\ Len(Answer(c, n, short)) = n
    BY <1>1, AnswerType DEF Answer
  <1>3. ASSUME NEW i \in 1 .. n
        PROVE  /\ Answer(c, n, short)[i] \in Packet
               /\ Answer(c, n, short)[i].kind = "msg" /\ Answer(c, n, short)[i].cmd = c
               /\ Answer(c, n, short)[i].k = i - 1 /\ Answer(c, n, short)[i].of = n
    <2>1. Answer(c, n, short)[i] \in Packet
      BY <1>1, <1>2
    <2>2. Answer(c, n, short)[i]
            = [kind |-> "msg", cmd |-> c, k |-> i - 1, of |-> n, short |-> short /\ i > 1 /\ i = n]
      BY <1>1 DEF Answer
    <2>3. QED
      BY <2>1, <2>2
  <1>4. \A i \in 1 .. n : Answer(c, n, short)[i] \in Message
    BY <1>3, PacketKind
  <1>5. QED
    BY <1>1, <1>2, <1>3, <1>4

LEMMA SignalPackets ==
  /\ [kind |-> "keepalive"] \in Packet /\ [kind |-> "keepalive"] \notin Message
  /\ [kind |-> "error"] \in Packet /\ [kind |-> "error"] \notin Message
  <1>1. [kind |-> "keepalive"] \in Packet /\ [kind |-> "error"] \in Packet
    BY DEF Packet, Signal
  <1>2. [kind |-> "keepalive"].kind # "msg" /\ [kind |-> "error"].kind # "msg"
    OBVIOUS
  <1>3. QED
    BY <1>1, <1>2, PacketKind

(* What the peripheral may answer: packets of one command, in order, each  *)
(* continuing the one before, behind at most one keepalive.                *)
ReplyLike(r, c) ==
  /\ r # <<>> /\ ~Continues(r[1])
  /\ InOrder(r) /\ Linked(r)
  /\ \A m \in Messages(r) : m.cmd = c
  /\ \A i \in 2 .. Len(r) : r[i] \in Message

LEMMA ReplyShape ==
  ASSUME NEW c \in Cmd, NEW r \in Replies(c)
  PROVE  r \in Seq(Packet) /\ ReplyLike(r, c)
  <1>1. ASSUME NEW n \in 1 .. MaxPackets, NEW short \in BOOLEAN, r = Answer(c, n, short)
        PROVE  ReplyLike(r, c)
    <2>1. /\ Len(r) = n /\ n \in Nat /\ n > 0 /\ r \in Seq(Packet)
          /\ \A i \in 1 .. n : r[i] \in Message /\ r[i].cmd = c /\ r[i].k = i - 1 /\ r[i].of = n
      BY <1>1, AnswerPackets
    <2>2. r # <<>> /\ ~Continues(r[1])
      BY <2>1 DEF Continues
    <2>3. InOrder(r) /\ Linked(r)
      BY <2>1 DEF InOrder, Before, Linked, Follows
    <2>4. (\A m \in Messages(r) : m.cmd = c) /\ \A i \in 2 .. Len(r) : r[i] \in Message
      BY <2>1 DEF Messages
    <2>5. QED
      BY <2>2, <2>3, <2>4 DEF ReplyLike
  <1>2. ASSUME NEW n \in 1 .. MaxPackets, NEW short \in BOOLEAN,
               r = <<[kind |-> "keepalive"]>> \o Answer(c, n, short)
        PROVE  ReplyLike(r, c)
    <2> DEFINE a == Answer(c, n, short)
               k == [kind |-> "keepalive"]
    <2>1. /\ a \in Seq(Packet) /\ n \in Nat /\ n > 0 /\ Len(a) = n
          /\ \A i \in 1 .. n : a[i] \in Message /\ a[i].cmd = c /\ a[i].k = i - 1 /\ a[i].of = n
      BY AnswerPackets
    <2>2. k \in Packet /\ k \notin Message
      BY SignalPackets
    <2> HIDE DEF a, k
    <2>3. /\ Len(r) = 1 + n /\ r \in Seq(Packet)
          /\ r[1] \notin Message
          /\ \A i \in 2 .. 1 + n : r[i] = a[i - 1]
      <3>1. r = <<k>> \o a
        BY <1>2 DEF a, k
      <3>2. /\ r \in Seq(Packet) /\ Len(r) = 1 + Len(a) /\ r[1] = k
            /\ \A i \in 2 .. 1 + Len(a) : r[i] = a[i - 1]
        BY <2>1, <2>2, <3>1, PrependIndex
      <3>3. QED
        BY <2>1, <2>2, <3>2
    <2>4. \A i \in 2 .. 1 + n : r[i] \in Message /\ r[i].cmd = c /\ r[i].k = i - 2 /\ r[i].of = n
      <3> TAKE i \in 2 .. 1 + n
      <3>1. i - 1 \in 1 .. n /\ (i - 1) - 1 = i - 2
        BY <2>1
      <3>2. QED
        BY <2>1, <2>3, <3>1
    <2>5. r # <<>> /\ ~Continues(r[1])
      BY <2>1, <2>3 DEF Continues
    <2>6. InOrder(r)
      <3> SUFFICES ASSUME NEW i \in 1 .. 1 + n, NEW j \in 1 .. 1 + n, i < j,
                          r[i] \in Message, r[j] \in Message
                   PROVE  Before(r[i], r[j])
        BY <2>3 DEF InOrder
      <3>1. i \in 2 .. 1 + n /\ j \in 2 .. 1 + n
        BY <2>1, <2>3
      <3>2. QED
        BY <2>1, <2>4, <3>1 DEF Before
    <2>7. Linked(r)
      <3> SUFFICES ASSUME NEW i \in 2 .. 1 + n, Continues(r[i])
                   PROVE  r[i - 1] \in Message /\ Follows(r[i - 1], r[i])
        BY <2>3 DEF Linked
      <3>1. i # 2
        BY <2>4 DEF Continues
      <3>2. i - 1 \in 2 .. 1 + n
        BY <2>1, <3>1
      <3>3. QED
        BY <2>1, <2>4, <3>2 DEF Follows
    <2>8. \A m \in Messages(r) : m.cmd = c
      BY <2>1, <2>3, <2>4 DEF Messages
    <2>9. QED
      BY <2>3, <2>4, <2>5, <2>6, <2>7, <2>8 DEF ReplyLike
  <1>3. ASSUME r = <<[kind |-> "error"]>> PROVE ReplyLike(r, c)
    <2>1. Len(r) = 1 /\ r[1] \notin Message
      BY <1>3, SignalPackets
    <2>2. QED
      BY <2>1 DEF ReplyLike, Continues, InOrder, Linked, Messages
  <1>4. r \in Seq(Packet)
    BY RepliesType
  <1>5. CASE r \in {Answer(c, n, short) : n \in 1 .. MaxPackets, short \in BOOLEAN}
    BY <1>1, <1>4, <1>5
  <1>6. CASE \E n \in 1 .. MaxPackets, short \in BOOLEAN :
               r = <<[kind |-> "keepalive"]>> \o Answer(c, n, short)
    BY <1>2, <1>4, <1>6
  <1>7. CASE r = <<[kind |-> "error"]>>
    BY <1>3, <1>4, <1>7
  <1>8. QED
    BY <1>5, <1>6, <1>7 DEF Replies

-----------------------------------------------------------------------------
(* The order of everything that is under way: replies handed over, packets *)
(* in the buffer, in a callback and in flight, commands to answer.         *)

Setup == {"clear", "reset", "wrap", "send"}
Awaiting == {"enter", "waiting", "woken", "timedout", "check", "copy"}
Working == {"reset", "wrap", "send"} \cup Awaiting

(* The last command that can have reached the peripheral.                  *)
LastSent == IF pc \in Setup THEN cmd - 1 ELSE cmd

(* An answer to c can have arrived: c was sent and is not to be answered.  *)
Arrivable(c) == c <= LastSent /\ \A d \in Asked(todo) : c < d

(* A packet that may start a reply is one of a command not yet replied to. *)
New(m) == m.cmd >= Order!Latest /\ (m.k = 0 => m.cmd > Order!Latest)

QueueInv ==
  /\ Ascending(todo)
  /\ \A d \in Asked(todo) : d <= LastSent
  /\ InOrder(inflight)
  /\ \A m \in Messages(inflight) : Arrivable(m.cmd)

PacketInv ==
  /\ cb.pc = "merge" <=> cb.pkt # <<>>
  /\ cb.pkt # <<>> =>
       /\ Arrivable(cb.pkt[1].cmd)
       /\ \A m \in Messages(inflight) : Before(cb.pkt[1], m)

FirstInv ==
  recv # <<>> =>
    /\ Arrivable(recv[1].cmd)
    /\ cb.pkt # <<>> => Before(recv[1], cb.pkt[1])
    /\ \A m \in Messages(inflight) : Before(recv[1], m)

LatestInv ==
  /\ Arrivable(Order!Latest)
  /\ cb.pkt # <<>> => New(cb.pkt[1])
  /\ \A m \in Messages(inflight) : New(m)
  /\ pc \in Working /\ recv # <<>> => New(recv[1])
  /\ pc = "copy" => recv # <<>> /\ recv[1].k = 0

OrderInv == QueueInv /\ PacketInv /\ FirstInv /\ LatestInv

LEMMA TransportFacts ==
  ASSUME TypeInv
  PROVE  /\ cmd \in Nat /\ LastSent \in Nat
         /\ cb.pkt # <<>> => cb.pkt[1] \in Message /\ cb.pkt = <<cb.pkt[1]>>
         /\ recv # <<>> => recv[1] \in Message /\ Len(recv) > 0
         /\ Order!Latest \in Nat
         /\ todo \in Seq(Cmd) /\ inflight \in Seq(Packet) /\ recv \in Seq(Message)
         /\ answered \in Seq(Cmd)
  <1> USE DEF TypeInv, TypeOK
  <1>1. cmd \in Nat /\ LastSent \in Nat
    BY TransportAssumption DEF TransportAssumption, SendDataShape, SendPC, Setup, LastSent, Cmd
  <1>2. cb.pkt # <<>> => cb.pkt[1] \in Message /\ cb.pkt = <<cb.pkt[1]>>
    <2>1. cb.pkt = <<>> \/ \E m \in Message : cb.pkt = <<m>>
      OBVIOUS
    <2>2. QED
      BY <2>1
  <1>3. recv # <<>> => recv[1] \in Message /\ Len(recv) > 0
    OBVIOUS
  <1>4. Order!Latest \in Nat
    <2>1. answered # <<>> => answered[Len(answered)] \in Cmd
      OBVIOUS
    <2>2. QED
      BY <2>1 DEF Order!Latest, Cmd
  <1>5. QED
    BY <1>1, <1>2, <1>3, <1>4

LEMMA OrderInit == Init => OrderInv
  <1> SUFFICES ASSUME Init PROVE OrderInv
    OBVIOUS
  <1>1. todo = <<>> /\ inflight = <<>> /\ recv = <<>> /\ cb.pkt = <<>> /\ cb.pc # "merge"
        /\ pc = "idle" /\ cmd = 0 /\ answered = <<>>
    BY DEF Init
  <1>2. LastSent = 0 /\ Order!Latest = 0
    BY <1>1 DEF LastSent, Setup, Order!Latest
  <1>3. Ascending(todo) /\ InOrder(inflight) /\ Asked(todo) = {} /\ Messages(inflight) = {}
    BY <1>1, Emptied
  <1>4. QED
    BY <1>1, <1>2, <1>3
       DEF OrderInv, QueueInv, PacketInv, FirstInv, LatestInv, Arrivable, Working, Awaiting

(* What is under way stays in order when nothing is added to it.           *)
LEMMA OrderCarries ==
  ASSUME TypeInv, TypeInv', OrderInv,
         Ascending(todo'), \A d \in Asked(todo') : d <= LastSent',
         \A c \in Nat : Arrivable(c) => Arrivable(c)',
         InOrder(inflight'), Messages(inflight') \subseteq Messages(inflight),
         answered' = answered,
         cb'.pc = "merge" <=> cb'.pkt # <<>>,
         cb'.pkt # <<>> => cb'.pkt = cb.pkt,
         recv' # <<>> => recv' = recv,
         pc' \in Working /\ recv' # <<>> => pc \in Working,
         pc' = "copy" => recv' # <<>> /\ recv'[1].k = 0
  PROVE  OrderInv'
  <1>1. \A m \in Messages(inflight) : m.cmd \in Nat
    BY MessageFields DEF Messages
  <1>2. /\ Order!Latest' = Order!Latest /\ Order!Latest \in Nat
        /\ \A m : New(m)' <=> New(m)
    BY TransportFacts DEF New, Order!Latest
  <1>3. cb.pkt # <<>> => cb.pkt[1].cmd \in Nat
    BY TransportFacts, MessageFields
  <1>4. recv # <<>> => recv[1].cmd \in Nat
    BY TransportFacts, MessageFields
  <1>5. QueueInv'
    BY <1>1 DEF OrderInv, QueueInv
  <1>6. PacketInv'
    BY <1>3 DEF OrderInv, PacketInv
  <1>7. FirstInv'
    BY <1>4 DEF OrderInv, FirstInv
  <1>8. LatestInv'
    <2>1. Arrivable(Order!Latest)'
      BY <1>2 DEF OrderInv, LatestInv, Arrivable
    <2>2. cb'.pkt # <<>> => New(cb.pkt[1])
      BY DEF OrderInv, LatestInv
    <2>3. \A m \in Messages(inflight') : New(m)
      BY DEF OrderInv, LatestInv
    <2>4. pc' \in Working /\ recv' # <<>> => New(recv[1])
      BY DEF OrderInv, LatestInv
    <2>5. QED
      BY <1>2, <2>1, <2>2, <2>3, <2>4 DEF LatestInv
  <1>9. QED
    BY <1>5, <1>6, <1>7, <1>8 DEF OrderInv

LEMMA OrderQuiet ==
  ASSUME TypeInv, TypeInv', OrderInv,
         todo' = todo \/ todo' = <<>>, inflight' = inflight \/ inflight' = <<>>,
         LastSent' = LastSent, answered' = answered,
         cb'.pc = "merge" <=> cb'.pkt # <<>>,
         cb'.pkt # <<>> => cb'.pkt = cb.pkt,
         recv' # <<>> => recv' = recv,
         pc' \in Working /\ recv' # <<>> => pc \in Working,
         pc' = "copy" => recv' # <<>> /\ recv'[1].k = 0
  PROVE  OrderInv'
  <1>1. Asked(todo') \subseteq Asked(todo) /\ Ascending(todo')
    BY Emptied DEF OrderInv, QueueInv
  <1>2. Messages(inflight') \subseteq Messages(inflight) /\ InOrder(inflight')
    BY Emptied DEF OrderInv, QueueInv
  <1>3. \A d \in Asked(todo') : d <= LastSent'
    BY <1>1 DEF OrderInv, QueueInv
  <1>4. \A c \in Nat : Arrivable(c) => Arrivable(c)'
    BY <1>1 DEF Arrivable
  <1>5. QED
    BY <1>1, <1>2, <1>3, <1>4, OrderCarries

LEMMA DoneIsFirst ==
  ASSUME CheckResponse(recv) = "done", recv # <<>> => recv[1].k \in Nat
  PROVE  recv # <<>> /\ recv[1].k = 0
  BY DEF CheckResponse

LEMMA OrderSendData ==
  ASSUME TypeInv, TypeInv', OrderInv, SendData \/ SendDataStep
  PROVE  OrderInv'
  <1> USE DEF fido, device, radio, outcome, history
  <1>1. cb.pc = "merge" <=> cb.pkt # <<>>
    BY DEF OrderInv, PacketInv
  <1>2. cmd \in Nat /\ LastSent \in Nat
    BY TransportFacts
  <1>3. CASE SendData
    <2>1. /\ UNCHANGED <<recv, todo, inflight, answered, cb>> /\ pc' = "clear"
          /\ pc = "idle" /\ cmd' = cmd + 1
      BY <1>3 DEF SendData
    <2>2. LastSent' = LastSent /\ pc' \notin Working
      BY <1>2, <2>1 DEF LastSent, Setup, Working, Awaiting
    <2>3. QED
      BY <1>1, <2>1, <2>2, OrderQuiet
  <1>4. CASE ClearBuffer
    <2>1. /\ UNCHANGED <<cmd, todo, inflight, answered, cb>> /\ recv' = <<>>
          /\ pc = "clear" /\ pc' = "reset"
      BY <1>4 DEF ClearBuffer
    <2>2. LastSent' = LastSent
      BY <2>1 DEF LastSent, Setup
    <2>3. QED
      BY <1>1, <2>1, <2>2, OrderQuiet
  <1>5. CASE ClearState \/ WrapFidoApdu
    <2>1. /\ UNCHANGED <<cmd, recv, todo, inflight, answered, cb>>
          /\ pc \in {"reset", "wrap"} /\ pc' \in {"wrap", "send"}
      BY <1>5 DEF ClearState, WrapFidoApdu
    <2>2. LastSent' = LastSent /\ pc \in Working
      BY <2>1 DEF LastSent, Setup, Working
    <2>3. QED
      BY <1>1, <2>1, <2>2, OrderQuiet
  <1>6. CASE SendAPDU
    <2>1. /\ UNCHANGED <<cmd, recv, inflight, answered, cb>> /\ pc = "send"
          /\ pc' \in {"enter", "idle"}
          /\ todo' = todo \/ todo' = Append(todo, cmd)
      BY <1>6 DEF SendAPDU, Abandon
    <2>2. cmd \in Cmd /\ LastSent = cmd - 1 /\ LastSent' = cmd
      BY <2>1 DEF TypeInv, SendDataShape, SendPC, LastSent, Setup
    <2>3. \A d \in Asked(todo) : d < cmd
      BY <1>2, <2>2 DEF OrderInv, QueueInv, Asked, Cmd
    <2>4. Ascending(todo') /\ Asked(todo') \subseteq Asked(todo) \cup {cmd}
      BY <2>1, <2>2, <2>3, AscendingAppend, TransportFacts DEF OrderInv, QueueInv
    <2>5. \A d \in Asked(todo') : d <= LastSent'
      BY <1>2, <2>2, <2>3, <2>4 DEF Asked, Cmd
    <2>6. \A c \in Nat : Arrivable(c) => Arrivable(c)'
      BY <1>2, <2>2, <2>4 DEF Arrivable
    <2>7. InOrder(inflight') /\ Messages(inflight') \subseteq Messages(inflight)
      BY <2>1 DEF OrderInv, QueueInv
    <2>8. pc \in Working /\ pc' # "copy"
      BY <2>1 DEF Working
    <2>9. QED
      BY <1>1, <2>1, <2>4, <2>5, <2>6, <2>7, <2>8, OrderCarries
  <1>7. CASE WaitForReceive \/ TimeoutOrSpurious \/ CheckConnected
    <2>1. /\ UNCHANGED <<cmd, recv, todo, inflight, answered, cb>>
          /\ pc \in Awaiting /\ pc' \in Awaiting \cup {"idle"} /\ pc' # "copy"
      BY <1>7 DEF WaitForReceive, TimeoutOrSpurious, CheckConnected, Abandon, Awaiting
    <2>2. LastSent' = LastSent /\ pc \in Working
      BY <2>1 DEF LastSent, Setup, Working, Awaiting
    <2>3. QED
      BY <1>1, <2>1, <2>2, OrderQuiet
  <1>8. CASE CheckStatus
    <2>1. /\ UNCHANGED <<cmd, recv, todo, inflight, answered, cb>>
          /\ pc = "check" /\ pc' \in {"copy", "idle"}
          /\ pc' = "copy" => CheckResponse(recv) = "done"
      BY <1>8 DEF CheckStatus, Abandon
    <2>2. LastSent' = LastSent /\ pc \in Working
      BY <2>1 DEF LastSent, Setup, Working, Awaiting
    <2>3. pc' = "copy" => recv # <<>> /\ recv[1].k = 0
      BY <2>1, DoneIsFirst, TransportFacts, MessageFields
    <2>4. QED
      BY <1>1, <2>1, <2>2, <2>3, OrderQuiet
  <1>9. CASE CopyResponse
    <2>1. /\ UNCHANGED <<cmd, recv, todo, inflight, cb>> /\ pc = "copy"
          /\ pc' \in {"returned", "idle"}
          /\ answered' = answered \/ answered' = Append(answered, recv[1].cmd)
      BY <1>9 DEF CopyResponse, Abandon
    <2>2. LastSent' = LastSent /\ pc' \notin Working /\ pc \in Working
      BY <2>1 DEF LastSent, Setup, Working, Awaiting
    <2>3. CASE answered' = answered
      BY <1>1, <2>1, <2>2, <2>3, OrderQuiet
    <2>4. CASE answered' = Append(answered, recv[1].cmd)
      <3>1. Order!Latest' = recv[1].cmd /\ recv # <<>> /\ recv[1] \in Message
        <4>1. recv # <<>> /\ recv[1].cmd \in Cmd
          BY <2>1, TransportFacts, MessageFields DEF TypeInv, SendDataShape
        <4>2. answered' # <<>> /\ answered'[Len(answered')] = recv[1].cmd
          BY <2>4, <4>1, AppendLast, TransportFacts
        <4>3. QED
          BY <4>1, <4>2, TransportFacts DEF Order!Latest
      <3>2. \A c : Arrivable(c)' <=> Arrivable(c)
        BY <2>1, <2>2 DEF Arrivable
      <3>3. \A m \in Messages(inflight) : New(m)'
        <4>1. \A m \in Messages(inflight) : Before(recv[1], m) /\ m \in Message
          BY <3>1 DEF OrderInv, FirstInv, Messages
        <4>2. QED
          BY <3>1, <4>1, MessageFields DEF New, Before
      <3>4. cb.pkt # <<>> => New(cb.pkt[1])'
        <4>1. cb.pkt # <<>> => Before(recv[1], cb.pkt[1]) /\ cb.pkt[1] \in Message
          BY <3>1, TransportFacts DEF OrderInv, FirstInv
        <4>2. QED
          BY <2>1, <3>1, <4>1, MessageFields DEF New, Before
      <3>5. Arrivable(Order!Latest)'
        BY <3>1, <3>2, <2>1, <2>2 DEF OrderInv, FirstInv, Arrivable
      <3>6. LatestInv'
        BY <2>1, <2>2, <3>3, <3>4, <3>5 DEF LatestInv, Working, Awaiting
      <3>7. QueueInv' /\ PacketInv' /\ FirstInv'
        BY <2>1, <2>2, <3>2 DEF OrderInv, QueueInv, PacketInv, FirstInv
      <3>8. QED
        BY <3>6, <3>7 DEF OrderInv
    <2>5. QED
      BY <2>1, <2>3, <2>4
  <1>10. CASE ReturnReply
    <2>1. /\ UNCHANGED <<cmd, recv, todo, inflight, answered, cb>>
          /\ pc = "returned" /\ pc' = "idle"
      BY <1>10 DEF ReturnReply
    <2>2. LastSent' = LastSent /\ pc' \notin Working
      BY <2>1 DEF LastSent, Setup, Working, Awaiting
    <2>3. QED
      BY <1>1, <2>1, <2>2, OrderQuiet
  <1>11. QED
    BY <1>3, <1>4, <1>5, <1>6, <1>7, <1>8, <1>9, <1>10 DEF SendDataStep

LEMMA OrderCallback ==
  ASSUME TypeInv, TypeInv', OrderInv, CallbackStep
  PROVE  OrderInv'
  <1> USE DEF fido, device, radio, outcome, history
  <1>1. cb.pc = "merge" <=> cb.pkt # <<>>
    BY DEF OrderInv, PacketInv
  <1>2. CASE RecvCallBack
    <2> PICK p : p = Head(inflight)
      OBVIOUS
    <2>1. /\ cb.pc = "idle" /\ inflight # <<>> /\ inflight' = Tail(inflight)
          /\ UNCHANGED <<pc, cmd, recv, todo, answered>>
      BY <1>2 DEF RecvCallBack
    <2>2. /\ cb'.pc = "merge" <=> cb'.pkt # <<>>
          /\ cb'.pkt # <<>> => p.kind = "msg" /\ cb' = [pc |-> "merge", pkt |-> <<p>>]
      <3>1. \/ cb'.pc # "merge" /\ cb'.pkt = <<>>
            \/ p.kind = "msg" /\ cb' = [pc |-> "merge", pkt |-> <<p>>]
        BY <1>2 DEF RecvCallBack, CallbackDone
      <3>2. <<p>> # <<>>
        OBVIOUS
      <3>3. QED
        BY <3>1, <3>2
    <2>3. /\ Messages(inflight') \subseteq Messages(inflight) /\ InOrder(inflight')
          /\ p \in Packet
          /\ p \in Message => p \in Messages(inflight) /\ \A m \in Messages(inflight') : Before(p, m)
      BY <2>1, MessagesTail, TailIndex, TransportFacts DEF OrderInv, QueueInv
    <2>4. /\ LastSent' = LastSent /\ \A c : Arrivable(c)' <=> Arrivable(c)
          /\ \A m : New(m)' <=> New(m)
      BY <2>1 DEF LastSent, Arrivable, New, Order!Latest
    <2>5. CASE cb'.pkt = <<>>
      <3>1. \A c \in Nat : Arrivable(c) => Arrivable(c)'
        BY <2>4
      <3>2. Ascending(todo') /\ \A d \in Asked(todo') : d <= LastSent'
        BY <2>1, <2>4 DEF OrderInv, QueueInv
      <3>3. pc' = "copy" => recv' # <<>> /\ recv'[1].k = 0
        BY <2>1 DEF OrderInv, LatestInv
      <3>4. QED
        BY <2>1, <2>2, <2>3, <2>5, <3>1, <3>2, <3>3, OrderCarries
    <2>6. CASE cb'.pkt # <<>>
      <3>1. p \in Message /\ cb'.pkt = <<p>> /\ cb'.pkt[1] = p /\ cb'.pc = "merge"
        BY <2>2, <2>3, <2>6, PacketKind
      <3>2. p \in Messages(inflight) /\ \A m \in Messages(inflight') : Before(p, m)
        BY <2>3, <3>1
      <3>3. QueueInv'
        BY <2>1, <2>3, <2>4 DEF OrderInv, QueueInv
      <3>4. PacketInv'
        BY <2>4, <3>1, <3>2 DEF OrderInv, QueueInv, PacketInv
      <3>5. FirstInv'
        BY <2>1, <2>3, <2>4, <3>1, <3>2 DEF OrderInv, FirstInv
      <3>6. LatestInv'
        <4>1. Arrivable(Order!Latest)'
          BY <2>1, <2>4 DEF OrderInv, LatestInv, Order!Latest
        <4>2. New(cb.pkt[1])'
          BY <2>4, <3>1, <3>2 DEF OrderInv, LatestInv
        <4>3. \A m \in Messages(inflight') : New(m)'
          BY <2>3, <2>4 DEF OrderInv, LatestInv
        <4>4. /\ pc' \in Working /\ recv' # <<>> => New(recv[1])'
              /\ pc' = "copy" => recv' # <<>> /\ recv'[1].k = 0
          BY <2>1, <2>4 DEF OrderInv, LatestInv
        <4>5. QED
          BY <4>1, <4>2, <4>3, <4>4 DEF LatestInv
      <3>7. QED
        BY <3>3, <3>4, <3>5, <3>6 DEF OrderInv
    <2>7. QED
      BY <2>5, <2>6
  <1>3. CASE MergePacket
    <2> DEFINE p == cb.pkt[1]
    <2>1. /\ cb.pc = "merge" /\ recv' = recv \o cb.pkt
          /\ cb'.pc # "merge" /\ cb'.pkt = <<>>
          /\ UNCHANGED <<pc, cmd, todo, inflight, answered>>
      BY <1>3 DEF MergePacket, CallbackDone
    <2>2. p \in Message /\ cb.pkt = <<p>> /\ cb.pkt # <<>>
      BY <1>1, <2>1, TransportFacts
    <2>3. /\ recv' # <<>>
          /\ recv = <<>> => recv'[1] = p
          /\ recv # <<>> => recv'[1] = recv[1]
      BY <2>1, <2>2, TransportFacts
    <2> HIDE DEF p
    <2>4. /\ LastSent' = LastSent /\ \A c : Arrivable(c)' <=> Arrivable(c)
          /\ \A m : New(m)' <=> New(m)
          /\ Order!Latest' = Order!Latest
      BY <2>1 DEF LastSent, Arrivable, New, Order!Latest
    <2>5. QueueInv'
      BY <2>1, <2>4 DEF OrderInv, QueueInv
    <2>6. PacketInv'
      BY <2>1 DEF PacketInv
    <2>7. FirstInv'
      <3>1. CASE recv = <<>>
        <4>1. Arrivable(p.cmd) /\ \A m \in Messages(inflight) : Before(p, m)
          BY <2>2 DEF OrderInv, PacketInv, p
        <4>2. QED
          BY <2>1, <2>3, <2>4, <3>1, <4>1 DEF FirstInv
      <3>2. CASE recv # <<>>
        BY <2>1, <2>3, <2>4, <3>2 DEF OrderInv, FirstInv
      <3>3. QED
        BY <3>1, <3>2
    <2>8. LatestInv'
      <3>1. New(p)
        BY <2>2 DEF OrderInv, LatestInv, p
      <3>2. pc \in Working /\ recv # <<>> => New(recv[1])
        BY DEF OrderInv, LatestInv
      <3>3. pc \in Working => New(recv'[1])
        BY <2>3, <3>1, <3>2
      <3>4. pc = "copy" => recv # <<>> /\ recv[1].k = 0
        BY DEF OrderInv, LatestInv
      <3>5. QED
        BY <2>1, <2>3, <2>4, <3>3, <3>4 DEF OrderInv, LatestInv
    <2>9. QED
      BY <2>5, <2>6, <2>7, <2>8 DEF OrderInv
  <1>4. CASE StopReceiving \/ DiscCallBack \/ SetConnectStatuteFalse
    <2>1. /\ UNCHANGED <<cmd, recv, todo, inflight, answered>>
          /\ cb'.pc # "merge" /\ cb'.pkt = <<>>
          /\ pc' = pc \/ (pc = "waiting" /\ pc' = "woken")
      BY <1>4 DEF StopReceiving, DiscCallBack, SetConnectStatuteFalse, CallbackDone
    <2>2. LastSent' = LastSent /\ (pc' \in Working => pc \in Working)
      BY <2>1 DEF LastSent, Setup, Working, Awaiting
    <2>3. pc' = "copy" => recv' # <<>> /\ recv'[1].k = 0
      BY <2>1 DEF OrderInv, LatestInv
    <2>4. QED
      BY <2>1, <2>2, <2>3, OrderQuiet
  <1>5. QED
    BY <1>2, <1>3, <1>4 DEF CallbackStep

LEMMA OrderConnection ==
  ASSUME TypeInv, TypeInv', OrderInv, ConnectionStep \/ LinkLost
  PROVE  OrderInv'
  <1>1. cb.pc = "merge" <=> cb.pkt # <<>>
    BY DEF OrderInv, PacketInv
  <1>2. /\ UNCHANGED <<cmd, recv, answered, cb>>
        /\ todo' = todo \/ todo' = <<>>
        /\ inflight' = inflight \/ inflight' = <<>>
    BY DEF ConnectionStep, Connect, ConnDev, StoreHandle, StoreStatus, CancelHandle, CancelStatus,
           Disconnect, LinkLost, fido, device, radio, outcome, history
  <1>3. pc' = pc \/ (pc' \in {"idle", "connecting", "connected", "status"}
                       /\ pc \in {"idle", "connecting", "connected", "status"})
    BY DEF ConnectionStep, Connect, ConnDev, StoreHandle, StoreStatus, CancelHandle, CancelStatus,
           Disconnect, LinkLost
  <1>4. LastSent' = LastSent /\ (pc' \in Working => pc \in Working)
    BY <1>2, <1>3 DEF LastSent, Setup, Working, Awaiting
  <1>5. pc' = "copy" => recv' # <<>> /\ recv'[1].k = 0
    BY <1>2, <1>3 DEF OrderInv, LatestInv
  <1>6. QED
    BY <1>1, <1>2, <1>4, <1>5, OrderQuiet

LEMMA OrderPeripheral ==
  ASSUME TypeInv, TypeInv', OrderInv, PeripheralAnswers
  PROVE  OrderInv'
  <1> PICK c : c = Head(todo)
    OBVIOUS
  <1>1. PICK r \in Replies(c) : inflight' = inflight \o r
    BY DEF PeripheralAnswers
  <1>2. /\ todo # <<>> /\ todo' = Tail(todo)
        /\ UNCHANGED <<pc, cmd, recv, answered, cb>>
    BY DEF PeripheralAnswers, fido, history, outcome
  <1>3. /\ c \in Cmd /\ c \in Asked(todo)
        /\ Asked(todo') \subseteq Asked(todo) /\ Ascending(todo')
        /\ \A d \in Asked(todo') : c < d
    BY <1>2, AscendingTail, TailIndex, TransportFacts DEF OrderInv, QueueInv
  <1>4. r \in Seq(Packet) /\ InOrder(r) /\ \A m \in Messages(r) : m.cmd = c
    BY <1>3, ReplyShape DEF ReplyLike
  <1>5. LastSent' = LastSent /\ Order!Latest' = Order!Latest
    BY <1>2 DEF LastSent, Order!Latest
  <1>6. \A x \in Nat : Arrivable(x) => Arrivable(x)' /\ x < c
    BY <1>2, <1>3, <1>5 DEF Arrivable
  <1>7. Arrivable(c)'
    BY <1>2, <1>3, <1>5 DEF Arrivable, OrderInv, QueueInv
  <1>8. \A p \in Message, m \in Messages(r) : Arrivable(p.cmd) => Before(p, m)
    BY <1>4, <1>6, MessageFields DEF Before
  <1>9. /\ InOrder(inflight')
        /\ Messages(inflight') \subseteq Messages(inflight) \cup Messages(r)
    <2>1. \A p \in Messages(inflight), m \in Messages(r) : Before(p, m)
      BY <1>8 DEF OrderInv, QueueInv, Messages
    <2>2. QED
      BY <1>1, <1>4, <2>1, MessagesConcat, TransportFacts DEF OrderInv, QueueInv
  <1>10. QueueInv'
    <2>1. \A m \in Messages(inflight) : Arrivable(m.cmd)'
      BY <1>6, MessageFields DEF OrderInv, QueueInv, Messages
    <2>2. \A m \in Messages(r) : Arrivable(m.cmd)'
      BY <1>4, <1>7
    <2>3. QED
      BY <1>3, <1>5, <1>9, <2>1, <2>2 DEF OrderInv, QueueInv
  <1>11. PacketInv'
    <2>1. cb.pkt # <<>> => cb.pkt[1] \in Message /\ Arrivable(cb.pkt[1].cmd)
      BY TransportFacts DEF OrderInv, PacketInv
    <2>2. QED
      BY <1>2, <1>6, <1>8, <1>9, <2>1, MessageFields DEF OrderInv, PacketInv
  <1>12. FirstInv'
    <2>1. recv # <<>> => recv[1] \in Message /\ Arrivable(recv[1].cmd)
      BY TransportFacts DEF OrderInv, FirstInv
    <2>2. QED
      BY <1>2, <1>6, <1>8, <1>9, <2>1, MessageFields DEF OrderInv, FirstInv
  <1>13. LatestInv'
    <2>1. Arrivable(Order!Latest) /\ Order!Latest \in Nat
      BY TransportFacts DEF OrderInv, LatestInv
    <2>2. Arrivable(Order!Latest)' /\ Order!Latest < c
      BY <1>5, <1>6, <2>1 DEF Arrivable
    <2>3. \A m : New(m)' <=> New(m)
      BY <1>5 DEF New
    <2>4. \A m \in Messages(r) : New(m)
      BY <1>3, <1>4, <2>1, <2>2 DEF New, Cmd
    <2>5. \A m \in Messages(inflight') : New(m)'
      BY <1>9, <2>3, <2>4 DEF OrderInv, LatestInv
    <2>6. QED
      BY <1>2, <2>2, <2>3, <2>5 DEF OrderInv, LatestInv
  <1>14. QED
    BY <1>10, <1>11, <1>12, <1>13 DEF OrderInv

LEMMA OrderNext == TypeInv /\ OrderInv /\ [Next]_vars => OrderInv'
  <1> SUFFICES ASSUME TypeInv, OrderInv, [Next]_vars PROVE OrderInv'
    OBVIOUS
  <1>1. TypeInv'
    BY TypeNext
  <1>2. CASE UNCHANGED vars
    BY <1>2 DEF vars, fido, radio, outcome, history, OrderInv, QueueInv, PacketInv, FirstInv,
                LatestInv, Arrivable, New, LastSent, Order!Latest
  <1>3. QED
    BY <1>1, <1>2, OrderSendData, OrderCallback, OrderConnection, OrderPeripheral DEF Next

LEMMA OrderInvariant == Spec => []OrderInv
  BY TypeInit, TypeNext, OrderInit, OrderNext, PTL DEF Spec

LEMMA OrderStep == TypeInv /\ OrderInv /\ [Next]_vars => [Order!Next]_<<cmd, answered>>
  <1> SUFFICES ASSUME TypeInv, OrderInv, [Next]_vars PROVE [Order!Next]_<<cmd, answered>>
    OBVIOUS
  <1>1. CASE SendData
    <2>1. cmd' = cmd + 1 /\ answered' = answered
      BY <1>1 DEF SendData, history, outcome
    <2>2. QED
      BY <2>1 DEF Order!Next, Order!Send
  <1>2. CASE CopyResponse
    <2>1. pc = "copy" /\ cmd' = cmd
      BY <1>2 DEF CopyResponse
    <2>2. CASE answered' = answered
      BY <2>1, <2>2
    <2>3. CASE answered' = Append(answered, recv[1].cmd)
      <3>1. recv # <<>> /\ recv[1].k = 0 /\ New(recv[1]) /\ Arrivable(recv[1].cmd)
        BY <2>1 DEF OrderInv, FirstInv, LatestInv, Working, Awaiting
      <3>2. recv[1].cmd > Order!Latest /\ recv[1].cmd <= cmd
        BY <2>1, <3>1 DEF New, Arrivable, LastSent, Setup
      <3>3. recv[1].cmd \in (Order!Latest + 1) .. cmd
        BY <3>1, <3>2, TransportFacts, MessageFields
      <3>4. QED
        BY <2>1, <2>3, <3>3 DEF Order!Next, Order!HandOver
    <2>4. QED
      BY <1>2, <2>2, <2>3 DEF CopyResponse, Abandon
  <1>3. CASE SendDataStep /\ ~CopyResponse
    BY <1>3 DEF SendDataStep, ClearBuffer, ClearState, WrapFidoApdu, SendAPDU, WaitForReceive,
                TimeoutOrSpurious, CheckConnected, CheckStatus, ReturnReply, Abandon,
                history, outcome
  <1>4. CASE CallbackStep
    BY <1>4 DEF CallbackStep, RecvCallBack, MergePacket, StopReceiving, DiscCallBack,
                SetConnectStatuteFalse, history, outcome
  <1>5. CASE ConnectionStep \/ LinkLost \/ PeripheralAnswers
    BY <1>5 DEF ConnectionStep, Connect, ConnDev, StoreHandle, StoreStatus, CancelHandle, CancelStatus,
                Disconnect, LinkLost, PeripheralAnswers, history, outcome
  <1>6. CASE UNCHANGED vars
    BY <1>6 DEF vars, history, outcome
  <1>7. QED
    BY <1>1, <1>2, <1>3, <1>4, <1>5, <1>6 DEF Next

(* The channel implements ReplyOrder, for any number of commands, packets  *)
(* and connections: SendData never hands back the answers to two commands  *)
(* in the wrong order, nor one of them twice, whatever timeouts and        *)
(* callbacks do to the receive buffer of the Fido singleton.               *)
THEOREM RepliesOrdered == Spec => RepliesInOrder
  <1>1. Init => Order!Init
    BY DEF Init, Order!Init
  <1>2. QED
    BY <1>1, TypeInit, TypeNext, OrderInvariant, OrderStep, PTL DEF Spec, RepliesInOrder, Order!Spec

-----------------------------------------------------------------------------
(* How far a reply can lag: every command SendData is done with was either *)
(* replied to or given up on, and no two replies are to the same command.  *)

Settled == IF pc \in SendPC \ {"returned"} THEN cmd - 1 ELSE cmd

LagInv ==
  /\ abandoned \subseteq 1 .. Settled
  /\ IsFiniteSet(abandoned)
  /\ Len(answered) + Cardinality(abandoned) = Settled
  /\ Len(answered) <= Order!Latest
  /\ pc = "returned" => reply[1].cmd = Order!Latest

LEMMA LagInit == Init => LagInv
  <1> SUFFICES ASSUME Init PROVE LagInv
    OBVIOUS
  <1>1. pc = "idle" /\ cmd = 0 /\ answered = <<>> /\ abandoned = {}
    BY DEF Init
  <1>2. Settled = 0 /\ Order!Latest = 0 /\ Len(answered) = 0
    BY <1>1 DEF Settled, SendPC, Order!Latest
  <1>3. IsFiniteSet(abandoned) /\ Cardinality(abandoned) = 0
    BY <1>1, FS_EmptySet
  <1>4. QED
    BY <1>1, <1>2, <1>3 DEF LagInv

LEMMA LagKept ==
  ASSUME LagInv, Settled' = Settled, UNCHANGED <<answered, abandoned>>,
         pc' = "returned" => pc = "returned" /\ reply' = reply
  PROVE  LagInv'
  BY DEF LagInv, Order!Latest

LEMMA LagAbandon ==
  ASSUME TypeInv, LagInv, Abandon, UNCHANGED cmd, pc \in SendPC \ {"returned"}
  PROVE  LagInv'
  <1>1. /\ abandoned' = abandoned \cup {cmd} /\ UNCHANGED answered /\ pc' = "idle"
        /\ cmd \in Nat /\ cmd > 0
    BY TransportFacts DEF Abandon, TypeInv, SendDataShape, Cmd
  <1>2. Settled = cmd - 1 /\ Settled' = cmd
    BY <1>1 DEF Settled, SendPC
  <1>3. cmd \notin abandoned
    BY <1>1, <1>2 DEF LagInv
  <1>4. IsFiniteSet(abandoned') /\ Cardinality(abandoned') = Cardinality(abandoned) + 1
    BY <1>1, <1>3, FS_AddElement DEF LagInv
  <1>5. abandoned' \subseteq 1 .. Settled'
    BY <1>1, <1>2 DEF LagInv
  <1>6. Cardinality(abandoned) \in Nat /\ Len(answered) \in Nat
    BY FS_CardinalityType, TransportFacts DEF LagInv
  <1>7. QED
    BY <1>1, <1>2, <1>4, <1>5, <1>6 DEF LagInv, Order!Latest

LEMMA LagNext == TypeInv /\ OrderInv /\ LagInv /\ [Next]_vars => LagInv'
  <1> SUFFICES ASSUME TypeInv, OrderInv, LagInv, [Next]_vars PROVE LagInv'
    OBVIOUS
  <1> USE DEF history, outcome
  <1>1. cmd \in Nat
    BY TransportFacts
  <1>2. CASE SendData
    <2>1. Settled' = Settled /\ pc' = "clear"
      BY <1>1, <1>2 DEF SendData, Settled, SendPC
    <2>2. QED
      BY <1>2, <2>1, LagKept DEF SendData
  <1>3. CASE ClearBuffer \/ ClearState \/ WrapFidoApdu \/ WaitForReceive \/ TimeoutOrSpurious
    <2>1. /\ UNCHANGED <<cmd, answered, abandoned>>
          /\ pc \in SendPC \ {"returned"} /\ pc' \in SendPC \ {"returned"}
      BY <1>3 DEF ClearBuffer, ClearState, WrapFidoApdu, WaitForReceive, TimeoutOrSpurious, SendPC
    <2>2. Settled' = Settled
      BY <2>1 DEF Settled
    <2>3. QED
      BY <2>1, <2>2, LagKept
  <1>4. CASE SendAPDU \/ CheckConnected \/ CheckStatus
    <2>1. /\ UNCHANGED cmd /\ pc \in SendPC \ {"returned"}
          /\ \/ Abandon
             \/ pc' \in SendPC \ {"returned"} /\ UNCHANGED history
      BY <1>4 DEF SendAPDU, CheckConnected, CheckStatus, SendPC
    <2>2. CASE Abandon
      BY <2>1, <2>2, LagAbandon
    <2>3. CASE pc' \in SendPC \ {"returned"} /\ UNCHANGED history
      <3>1. Settled' = Settled
        BY <2>1, <2>3 DEF Settled
      <3>2. QED
        BY <2>1, <2>3, <3>1, LagKept
    <2>4. QED
      BY <2>1, <2>2, <2>3
  <1>5. CASE CopyResponse
    <2>1. pc = "copy" /\ UNCHANGED cmd /\ pc \in SendPC \ {"returned"}
      BY <1>5 DEF CopyResponse, SendPC
    <2>2. CASE Abandon
      BY <2>1, <2>2, LagAbandon
    <2>3. CASE /\ pc' = "returned" /\ reply' = recv
               /\ answered' = Append(answered, recv[1].cmd) /\ UNCHANGED abandoned
      <3>1. recv # <<>> /\ recv[1] \in Message /\ recv[1].cmd \in Cmd /\ recv[1].cmd \in Nat
        BY <2>1, TransportFacts, MessageFields DEF TypeInv, SendDataShape
      <3>2. recv[1].cmd > Order!Latest
        BY <2>1, <3>1 DEF OrderInv, LatestInv, New, Working, Awaiting
      <3>3. /\ answered' # <<>> /\ answered'[Len(answered')] = recv[1].cmd
            /\ Len(answered') = Len(answered) + 1 /\ Len(answered) \in Nat
        BY <2>3, <3>1, AppendLast, TransportFacts
      <3>4. Order!Latest' = recv[1].cmd
        BY <3>3 DEF Order!Latest
      <3>5. Settled = cmd - 1 /\ Settled' = cmd
        BY <2>1, <2>3 DEF Settled, SendPC
      <3>6. Cardinality(abandoned) \in Nat
        BY FS_CardinalityType DEF LagInv
      <3>7. Order!Latest \in Nat
        BY TransportFacts
      <3>8. Len(answered') <= Order!Latest'
        BY <3>1, <3>2, <3>3, <3>4, <3>7 DEF LagInv
      <3>9. abandoned \subseteq 1 .. cmd
        BY <1>1, <3>5 DEF LagInv
      <3>10. Len(answered') + Cardinality(abandoned) = cmd
        BY <1>1, <3>3, <3>5, <3>6 DEF LagInv
      <3>11. QED
        BY <2>3, <3>4, <3>5, <3>8, <3>9, <3>10 DEF LagInv
    <2>4. QED
      BY <1>5, <2>2, <2>3 DEF CopyResponse
  <1>6. CASE ReturnReply
    <2>1. Settled' = Settled /\ pc' = "idle" /\ UNCHANGED <<answered, abandoned>>
      BY <1>6 DEF ReturnReply, Settled, SendPC
    <2>2. QED
      BY <2>1, LagKept
  <1>7. CASE CallbackStep \/ ConnectionStep \/ PeripheralAnswers \/ LinkLost \/ UNCHANGED vars
    <2>1. UNCHANGED <<cmd, reply, answered, abandoned>>
      BY <1>7 DEF CallbackStep, RecvCallBack, MergePacket, StopReceiving, DiscCallBack,
                  SetConnectStatuteFalse, ConnectionStep, Connect, ConnDev, StoreHandle,
                  StoreStatus, CancelHandle, CancelStatus, Disconnect, LinkLost, PeripheralAnswers, vars
    <2>2. \/ pc' = pc
          \/ pc = "waiting" /\ pc' = "woken"
          \/ /\ pc \in {"idle", "connecting", "connected", "status"}
             /\ pc' \in {"idle", "connecting", "connected", "status"}
      BY <1>7 DEF CallbackStep, RecvCallBack, MergePacket, StopReceiving, DiscCallBack,
                  SetConnectStatuteFalse, ConnectionStep, Connect, ConnDev, StoreHandle,
                  StoreStatus, CancelHandle, CancelStatus, Disconnect, LinkLost, PeripheralAnswers, vars
    <2>3. Settled' = Settled /\ (pc' = "returned" => pc = "returned")
      BY <2>1, <2>2 DEF Settled, SendPC
    <2>4. QED
      BY <2>1, <2>3, LagKept
  <1>8. QED
    BY <1>2, <1>3, <1>4, <1>5, <1>6, <1>7 DEF Next, SendDataStep

(* SendData may hand back the answer to an earlier command than the one it *)
(* sent, but it lags by no more commands than SendData has returned an     *)
(* error for, however many are sent.                                       *)
THEOREM LagBounded == Spec => []LagBoundedByAbandoned
  <1>1. TypeInv /\ LagInv => LagBoundedByAbandoned
    <2> SUFFICES ASSUME TypeInv, LagInv, pc = "returned"
                 PROVE  reply[1].cmd + Cardinality(abandoned) >= cmd
      BY DEF LagBoundedByAbandoned
    <2>1. /\ Settled = cmd /\ reply[1].cmd = Order!Latest
          /\ Len(answered) <= Order!Latest
          /\ Len(answered) + Cardinality(abandoned) = Settled
      BY DEF LagInv, Settled
    <2>2. /\ Cardinality(abandoned) \in Nat /\ Order!Latest \in Nat
          /\ Len(answered) \in Nat /\ cmd \in Nat
      BY FS_CardinalityType, TransportFacts DEF LagInv
    <2>3. QED
      BY <2>1, <2>2
  <1>2. QED
    BY <1>1, TypeInit, TypeNext, OrderInit, OrderNext, LagInit, LagNext, PTL DEF Spec

-----------------------------------------------------------------------------
(* Why a reply is whole: a continuation packet follows the packet before   *)
(* it on the link, and one that is merged follows the packet merged last,  *)
(* unless packets have been dropped in between, which sets hasError.       *)

Cleared == {"wrap", "send"} \cup Awaiting

Contiguous(s) ==
  \A i \in 1 .. Len(s) : s[i].cmd = s[1].cmd /\ s[i].of = s[1].of /\ s[i].k = i - 1

NextFollows(p) ==
  inflight # <<>> /\ Continues(inflight[1]) => Follows(p, inflight[1])

LinkInv ==
  /\ Linked(inflight)
  /\ cb.pkt # <<>> => NextFollows(cb.pkt[1])

StreamInv ==
  /\ pc = "reset" /\ ~torn => recv = <<>>
  /\ pc \in {"send"} \cup Awaiting => cmdHeader = "msg"
  /\ pc \in Cleared /\ hasError /\ cb.pkt # <<>> => recv # <<>> /\ recv[1].k > 0
  /\ pc \in Cleared /\ ~torn /\ recv # <<>> /\ recv[1].k = 0 =>
       /\ Contiguous(recv)
       /\ ~hasError /\ cb.pkt # <<>> => Follows(recv[Len(recv)], cb.pkt[1])
       /\ ~hasError /\ cb.pkt = <<>> => NextFollows(recv[Len(recv)])
  /\ pc = "returned" /\ ~torn =>
       reply # <<>> /\ reply[1].k = 0 /\ Len(reply) = reply[1].of /\ Contiguous(reply)

LEMMA StreamInit == Init => LinkInv /\ StreamInv
  BY Emptied DEF Init, LinkInv, StreamInv, Cleared, Awaiting

(* Packets in sequence that parse are as many as the first one announces:  *)
(* that parseFidoApdu does not count them in a short answer is no loss.    *)
LEMMA WholeLength ==
  ASSUME NEW s \in Seq(Message), s # <<>>, Contiguous(s), Parses(s)
  PROVE  Len(s) = s[1].of
  <1>1. Len(s) \in Nat /\ Len(s) > 0 /\ s[Len(s)] \in Message /\ s[1] \in Message
    OBVIOUS
  <1>2. s[Len(s)].of = s[1].of /\ s[Len(s)].k = Len(s) - 1
    BY <1>1 DEF Contiguous
  <1>3. /\ s[Len(s)].k < s[Len(s)].of
        /\ s[Len(s)].k \in Nat /\ s[Len(s)].of \in Nat
    BY <1>1, MessageFields
  <1>4. QED
    BY <1>1, <1>2, <1>3 DEF Parses

LEMMA ContiguousMore ==
  ASSUME NEW s \in Seq(Message), NEW p \in Message, s # <<>>, s[1].k = 0,
         Contiguous(s), Follows(s[Len(s)], p)
  PROVE  Contiguous(s \o <<p>>)
  <1>1. /\ Len(s) \in Nat /\ Len(s) > 0 /\ Len(s \o <<p>>) = Len(s) + 1
        /\ \A i \in 1 .. Len(s) : (s \o <<p>>)[i] = s[i]
        /\ (s \o <<p>>)[Len(s) + 1] = p
    OBVIOUS
  <1>2. p.cmd = s[1].cmd /\ p.of = s[1].of /\ p.k = Len(s)
    BY <1>1 DEF Contiguous, Follows
  <1>3. \A i \in 1 .. Len(s) + 1 : i \in 1 .. Len(s) \/ i = Len(s) + 1
    BY <1>1
  <1>4. (s \o <<p>>)[1] = s[1]
    BY <1>1
  <1>5. ASSUME NEW i \in 1 .. Len(s) + 1
        PROVE  /\ (s \o <<p>>)[i].cmd = s[1].cmd /\ (s \o <<p>>)[i].of = s[1].of
               /\ (s \o <<p>>)[i].k = i - 1
    <2>1. CASE i \in 1 .. Len(s)
      BY <1>1, <2>1 DEF Contiguous
    <2>2. CASE i = Len(s) + 1
      BY <1>1, <1>2, <2>2
    <2>3. QED
      BY <1>3, <2>1, <2>2
  <1>6. QED
    BY <1>1, <1>4, <1>5 DEF Contiguous

(* The stream is as it was when a step neither clears nor delivers.        *)
LEMMA StreamKept ==
  ASSUME LinkInv, StreamInv,
         UNCHANGED <<recv, cmdHeader, hasError, torn, reply>>, cb'.pkt = cb.pkt,
         inflight' = inflight \/ inflight' = <<>>,
         pc' = "reset" => pc = "reset",
         pc' \in Cleared => pc \in Cleared,
         pc' \in {"send"} \cup Awaiting => pc \in {"send"} \cup Awaiting,
         pc' = "returned" => pc = "returned"
  PROVE  LinkInv' /\ StreamInv'
  <1>1. Linked(inflight')
    BY Emptied DEF LinkInv
  <1>2. \A p : NextFollows(p) => NextFollows(p)'
    BY DEF NextFollows
  <1>3. LinkInv'
    BY <1>1, <1>2 DEF LinkInv
  <1>4. StreamInv'
    <2>1. /\ pc' = "reset" /\ ~torn' => recv' = <<>>
          /\ pc' \in {"send"} \cup Awaiting => cmdHeader' = "msg"
          /\ pc' \in Cleared /\ hasError' /\ cb'.pkt # <<>> => recv' # <<>> /\ recv'[1].k > 0
          /\ pc' = "returned" /\ ~torn' =>
               reply' # <<>> /\ reply'[1].k = 0 /\ Len(reply') = reply'[1].of /\ Contiguous(reply')
      BY DEF StreamInv
    <2>2. ASSUME pc' \in Cleared, ~torn', recv' # <<>>, recv'[1].k = 0
          PROVE  /\ Contiguous(recv')
                 /\ ~hasError' /\ cb'.pkt # <<>> => Follows(recv'[Len(recv')], cb'.pkt[1])
                 /\ ~hasError' /\ cb'.pkt = <<>> => NextFollows(recv[Len(recv)])'
      BY <1>2, <2>2 DEF StreamInv
    <2>3. QED
      BY <2>1, <2>2 DEF StreamInv
  <1>5. QED
    BY <1>3, <1>4

LEMMA StreamSendData ==
  ASSUME TypeInv, OrderInv, LinkInv, StreamInv, SendData \/ SendDataStep
  PROVE  LinkInv' /\ StreamInv'
  <1> USE DEF fido, radio, outcome, history
  <1>1. CASE SendData \/ SendAPDU \/ WaitForReceive \/ TimeoutOrSpurious \/ CheckConnected
    <2>1. /\ UNCHANGED <<recv, cmdHeader, hasError, torn, reply, inflight, cb>>
          /\ \/ pc' \in {"clear", "idle"}
             \/ pc \in {"send"} \cup Awaiting /\ pc' \in Awaiting
      BY <1>1 DEF SendData, SendAPDU, WaitForReceive, TimeoutOrSpurious, CheckConnected,
                  Abandon, Awaiting
    <2>2. /\ pc' # "reset" /\ pc' # "returned"
          /\ pc' \in Cleared => pc \in Cleared
          /\ pc' \in {"send"} \cup Awaiting => pc \in {"send"} \cup Awaiting
      BY <2>1 DEF Cleared, Awaiting
    <2>3. QED
      BY <2>1, <2>2, StreamKept
  <1>2. CASE ClearBuffer
    <2>1. recv' = <<>> /\ pc' = "reset" /\ inflight' = inflight /\ cb' = cb
      BY <1>2 DEF ClearBuffer
    <2>2. LinkInv'
      BY <2>1 DEF LinkInv, NextFollows
    <2>3. StreamInv'
      BY <2>1 DEF StreamInv, Cleared, Awaiting
    <2>4. QED
      BY <2>2, <2>3
  <1>3. CASE ClearState
    <2>1. /\ UNCHANGED <<recv, torn, inflight, cb>> /\ hasError' = FALSE
          /\ pc = "reset" /\ pc' = "wrap"
      BY <1>3 DEF ClearState
    <2>2. LinkInv'
      BY <2>1 DEF LinkInv, NextFollows
    <2>3. ~torn => recv = <<>>
      BY <2>1 DEF StreamInv
    <2>4. StreamInv'
      BY <2>1, <2>3 DEF StreamInv, Awaiting
    <2>5. QED
      BY <2>2, <2>4
  <1>4. CASE WrapFidoApdu
    <2>1. /\ UNCHANGED <<recv, hasError, torn, inflight, cb>> /\ cmdHeader' = "msg"
          /\ pc = "wrap" /\ pc' = "send"
      BY <1>4 DEF WrapFidoApdu
    <2>2. LinkInv'
      BY <2>1 DEF LinkInv, NextFollows
    <2>3. pc \in Cleared
      BY <2>1 DEF Cleared
    <2>4. StreamInv'
      BY <2>1, <2>3 DEF StreamInv, NextFollows
    <2>5. QED
      BY <2>2, <2>4
  <1>5. CASE CheckStatus
    <2>1. /\ UNCHANGED <<recv, cmdHeader, torn, reply, inflight, cb>> /\ pc = "check"
          /\ \/ pc' = "idle"
             \/ pc' = "copy" /\ CheckResponse(recv) = "done"
          /\ hasError' = (hasError \/ CheckResponse(recv) = "mismatch")
      BY <1>5 DEF CheckStatus, Abandon
    <2>2. CASE pc' = "idle"
      <3>1. LinkInv'
        BY <2>1 DEF LinkInv, NextFollows
      <3>2. StreamInv'
        BY <2>2 DEF StreamInv, Cleared, Awaiting
      <3>3. QED
        BY <3>1, <3>2
    <2>3. CASE pc' = "copy" /\ CheckResponse(recv) = "done"
      <3>1. hasError' = hasError
        BY <2>1, <2>3 DEF TypeInv, TypeOK
      <3>2. pc \in Cleared /\ pc \in {"send"} \cup Awaiting
        BY <2>1 DEF Cleared, Awaiting
      <3>3. QED
        BY <2>1, <2>3, <3>1, <3>2, StreamKept
    <2>4. QED
      BY <2>1, <2>2, <2>3
  <1>6. CASE CopyResponse
    <2>1. UNCHANGED <<recv, cmdHeader, hasError, torn, inflight, cb>> /\ pc = "copy"
      BY <1>6 DEF CopyResponse, Abandon
    <2>2. LinkInv'
      BY <2>1 DEF LinkInv, NextFollows
    <2>3. CASE pc' = "idle"
      BY <2>2, <2>3 DEF StreamInv, Cleared, Awaiting
    <2>4. CASE pc' = "returned" /\ reply' = recv /\ Parses(recv)
      <3>1. recv # <<>> /\ recv[1].k = 0
        BY <2>1 DEF OrderInv, LatestInv
      <3>2. ~torn => Contiguous(recv)
        BY <2>1, <3>1 DEF StreamInv, Cleared, Awaiting
      <3>3. ~torn => Len(recv) = recv[1].of
        BY <2>4, <3>1, <3>2, WholeLength DEF TypeInv, TypeOK
      <3>4. StreamInv'
        BY <2>1, <2>4, <3>1, <3>2, <3>3 DEF StreamInv, Cleared, Awaiting
      <3>5. QED
        BY <2>2, <3>4
    <2>5. QED
      BY <1>6, <2>3, <2>4 DEF CopyResponse, Abandon
  <1>7. CASE ReturnReply
    <2>1. UNCHANGED <<inflight, cb>> /\ pc' = "idle"
      BY <1>7 DEF ReturnReply
    <2>2. LinkInv'
      BY <2>1 DEF LinkInv, NextFollows
    <2>3. StreamInv'
      BY <2>1 DEF StreamInv, Cleared, Awaiting
    <2>4. QED
      BY <2>2, <2>3
  <1>8. QED
    BY <1>1, <1>2, <1>3, <1>4, <1>5, <1>6, <1>7 DEF SendDataStep

LEMMA StreamCallback ==
  ASSUME TypeInv, OrderInv, LinkInv, StreamInv, CallbackStep
  PROVE  LinkInv' /\ StreamInv'
  <1> USE DEF fido, device, radio, outcome, history
  <1>1. cb.pc = "merge" <=> cb.pkt # <<>>
    BY DEF OrderInv, PacketInv
  <1>2. hasError \in BOOLEAN /\ torn \in BOOLEAN
    BY DEF TypeInv, TypeOK
  <1>3. CASE RecvCallBack
    <2> PICK p : p = Head(inflight)
      OBVIOUS
    <2>1. /\ cb.pc = "idle" /\ cb.pkt = <<>> /\ inflight # <<>> /\ inflight' = Tail(inflight)
          /\ UNCHANGED <<pc, recv, cmdHeader, torn, reply>>
      BY <1>1, <1>3 DEF RecvCallBack
    <2>2. /\ Linked(inflight') /\ p \in Packet /\ p = inflight[1]
          /\ inflight' # <<>> /\ Continues(inflight'[1])
               => p \in Message /\ Follows(p, inflight'[1])
      BY <2>1, LinkedTail, TailIndex, TransportFacts DEF LinkInv
    <2>3. CASE /\ cb'.pkt = <<>>
               /\ \/ hasError' = TRUE
                  \/ hasError' = hasError /\ p.kind # "msg"
      <3>1. LinkInv'
        BY <2>2, <2>3 DEF LinkInv
      <3>2. ~hasError' => ~hasError /\ p \notin Message
        BY <1>2, <2>2, <2>3, PacketKind
      <3>3. ~hasError' => \A q : NextFollows(q)'
        BY <2>2, <3>2 DEF NextFollows
      <3>4. pc \in Cleared /\ ~torn /\ recv # <<>> /\ recv[1].k = 0 => Contiguous(recv)
        BY DEF StreamInv
      <3>5. /\ pc = "reset" /\ ~torn => recv = <<>>
            /\ pc \in {"send"} \cup Awaiting => cmdHeader = "msg"
            /\ pc = "returned" /\ ~torn =>
                 reply # <<>> /\ reply[1].k = 0 /\ Len(reply) = reply[1].of /\ Contiguous(reply)
        BY DEF StreamInv
      <3>6. StreamInv'
        BY <2>1, <2>3, <3>3, <3>4, <3>5 DEF StreamInv
      <3>7. QED
        BY <3>1, <3>6
    <2>4. CASE /\ cb' = [pc |-> "merge", pkt |-> <<p>>] /\ hasError' = hasError /\ ~hasError
               /\ p.kind = "msg" /\ (recv = <<>> \/ CheckSeq(p))
      <3>1. cb'.pkt[1] = p /\ p \in Message
        BY <2>2, <2>4, PacketKind
      <3>2. LinkInv'
        BY <2>2, <2>4, <3>1 DEF LinkInv, NextFollows
      <3>3. recv # <<>> => Continues(inflight[1])
        BY <2>2, <2>4, <3>1 DEF CheckSeq, Continues
      <3>4. pc \in Cleared /\ ~torn /\ recv # <<>> /\ recv[1].k = 0
              => Contiguous(recv) /\ Follows(recv[Len(recv)], p)
        BY <2>1, <2>2, <2>4, <3>3 DEF StreamInv, NextFollows
      <3>5. /\ pc = "reset" /\ ~torn => recv = <<>>
            /\ pc \in {"send"} \cup Awaiting => cmdHeader = "msg"
            /\ pc = "returned" /\ ~torn =>
                 reply # <<>> /\ reply[1].k = 0 /\ Len(reply) = reply[1].of /\ Contiguous(reply)
        BY DEF StreamInv
      <3>6. cb'.pkt # <<>> /\ ~hasError'
        BY <2>4
      <3>7. StreamInv'
        BY <2>1, <3>1, <3>4, <3>5, <3>6 DEF StreamInv
      <3>8. QED
        BY <3>2, <3>7
    <2>5. QED
      <3>1. \/ Dropped(p) /\ CallbackDone /\ hasError' = hasError
            \/ p.kind = "error" /\ cb' = [pc |-> "notify", pkt |-> <<>>] /\ hasError' = hasError
            \/ hasError' = TRUE /\ cb' = [pc |-> "notify", pkt |-> <<>>]
            \/ /\ ~Dropped(p) /\ p.kind = "msg" /\ (recv = <<>> \/ CheckSeq(p))
               /\ cb' = [pc |-> "merge", pkt |-> <<p>>] /\ hasError' = hasError
        BY <1>3 DEF RecvCallBack
      <3>2. Dropped(p) => hasError = TRUE \/ p.kind # "msg"
        BY <1>2 DEF Dropped
      <3>3. ~Dropped(p) => ~hasError
        BY DEF Dropped
      <3>4. CASE Dropped(p) /\ CallbackDone /\ hasError' = hasError
        <4>1. cb'.pkt = <<>>
          BY <3>4 DEF CallbackDone
        <4>2. CASE hasError = TRUE
          BY <2>3, <3>4, <4>1, <4>2
        <4>3. CASE p.kind # "msg"
          BY <2>3, <3>4, <4>1, <4>3
        <4>4. QED
          BY <3>2, <3>4, <4>2, <4>3
      <3>5. CASE /\ p.kind = "error" /\ cb' = [pc |-> "notify", pkt |-> <<>>]
                 /\ hasError' = hasError
        BY <2>3, <3>5
      <3>6. CASE hasError' = TRUE /\ cb' = [pc |-> "notify", pkt |-> <<>>]
        BY <2>3, <3>6
      <3>7. CASE /\ ~Dropped(p) /\ p.kind = "msg" /\ (recv = <<>> \/ CheckSeq(p))
                 /\ cb' = [pc |-> "merge", pkt |-> <<p>>] /\ hasError' = hasError
        BY <2>4, <3>3, <3>7
      <3>8. QED
        BY <3>1, <3>4, <3>5, <3>6, <3>7
  <1>4. CASE MergePacket
    <2> PICK p : p = cb.pkt[1]
      OBVIOUS
    <2>1. /\ cb.pc = "merge" /\ recv' = recv \o cb.pkt
          /\ cb'.pkt = <<>> /\ torn' = (torn \/ pc = "reset")
          /\ hasError' = (hasError \/ CheckResponse(recv') = "mismatch")
          /\ UNCHANGED <<pc, cmdHeader, inflight, reply>>
      BY <1>4 DEF MergePacket, CallbackDone
    <2>2. p \in Message /\ cb.pkt = <<p>> /\ cb.pkt # <<>> /\ NextFollows(p)
      BY <1>1, <2>1, TransportFacts DEF LinkInv
    <2>3. /\ recv \in Seq(Message) /\ recv' # <<>> /\ Len(recv') = Len(recv) + 1
          /\ recv'[Len(recv')] = p
          /\ recv = <<>> => recv' = <<p>>
          /\ recv # <<>> => recv'[1] = recv[1]
      BY <2>1, <2>2, ConcatLast, TransportFacts
    <2>4. LinkInv'
      BY <2>1 DEF LinkInv
    <2>5. ASSUME pc \in Cleared, ~torn', recv'[1].k = 0
          PROVE  Contiguous(recv')
      <3>1. CASE recv = <<>>
        <4>1. Len(recv') = 1 /\ recv'[1] = p /\ p.k = 0
          BY <2>3, <2>5, <3>1
        <4>2. QED
          BY <4>1 DEF Contiguous
      <3>2. CASE recv # <<>>
        <4>1. recv[1].k = 0 /\ ~torn
          BY <2>1, <2>3, <2>5, <3>2
        <4>2. ~hasError
          BY <2>2, <2>5, <3>2, <4>1 DEF StreamInv
        <4>3. Contiguous(recv) /\ Follows(recv[Len(recv)], p)
          BY <2>2, <2>5, <3>2, <4>1, <4>2 DEF StreamInv
        <4>4. QED
          BY <2>1, <2>2, <2>3, <3>2, <4>1, <4>3, ContiguousMore
      <3>3. QED
        BY <3>1, <3>2
    <2>6. NextFollows(p)'
      BY <2>1, <2>2 DEF NextFollows
    <2>7. /\ pc = "reset" /\ ~torn' => FALSE
          /\ pc = "returned" /\ ~torn' =>
               reply # <<>> /\ reply[1].k = 0 /\ Len(reply) = reply[1].of /\ Contiguous(reply)
      BY <2>1 DEF StreamInv
    <2>8. pc \in {"send"} \cup Awaiting => cmdHeader = "msg"
      BY DEF StreamInv
    <2>9. StreamInv'
      BY <2>1, <2>3, <2>5, <2>6, <2>7, <2>8 DEF StreamInv, NextFollows
    <2>10. QED
      BY <2>4, <2>9
  <1>5. CASE StopReceiving \/ DiscCallBack \/ SetConnectStatuteFalse
    <2>1. /\ UNCHANGED <<recv, cmdHeader, hasError, torn, reply, inflight>>
          /\ cb.pkt = <<>> /\ cb'.pkt = <<>>
          /\ pc' = pc \/ (pc = "waiting" /\ pc' = "woken")
      BY <1>1, <1>5 DEF StopReceiving, DiscCallBack, SetConnectStatuteFalse, CallbackDone
    <2>2. /\ pc' = "reset" => pc = "reset"
          /\ pc' \in Cleared => pc \in Cleared
          /\ pc' \in {"send"} \cup Awaiting => pc \in {"send"} \cup Awaiting
          /\ pc' = "returned" => pc = "returned"
      BY <2>1 DEF Cleared, Awaiting
    <2>3. QED
      BY <2>1, <2>2, StreamKept
  <1>6. QED
    BY <1>3, <1>4, <1>5 DEF CallbackStep

LEMMA StreamRadio ==
  ASSUME TypeInv, LinkInv, StreamInv, ConnectionStep \/ LinkLost \/ PeripheralAnswers
  PROVE  LinkInv' /\ StreamInv'
  <1> USE DEF fido, device, radio, outcome, history
  <1>1. CASE ConnectionStep \/ LinkLost
    <2>1. /\ UNCHANGED <<recv, cmdHeader, hasError, torn, reply, cb>>
          /\ inflight' = inflight \/ inflight' = <<>>
      BY <1>1 DEF ConnectionStep, Connect, ConnDev, StoreHandle, StoreStatus, CancelHandle, CancelStatus,
                  Disconnect, LinkLost
    <2>2. pc' = pc \/ pc' \in {"idle", "connecting", "connected", "status"}
      BY <1>1 DEF ConnectionStep, Connect, ConnDev, StoreHandle, StoreStatus, CancelHandle, CancelStatus,
                  Disconnect, LinkLost
    <2>3. /\ pc' = "reset" => pc = "reset"
          /\ pc' \in Cleared => pc \in Cleared
          /\ pc' \in {"send"} \cup Awaiting => pc \in {"send"} \cup Awaiting
          /\ pc' = "returned" => pc = "returned"
      BY <2>2 DEF Cleared, Awaiting
    <2>4. QED
      BY <2>1, <2>3, StreamKept
  <1>2. CASE PeripheralAnswers
    <2>1. PICK r \in Replies(Head(todo)) : inflight' = inflight \o r
      BY <1>2 DEF PeripheralAnswers
    <2>2. UNCHANGED <<pc, recv, cmdHeader, hasError, torn, reply, cb>> /\ Head(todo) \in Cmd
      BY <1>2, TransportFacts DEF PeripheralAnswers
    <2>3. r \in Seq(Packet) /\ r # <<>> /\ ~Continues(r[1]) /\ Linked(r)
      BY <2>1, <2>2, ReplyShape DEF ReplyLike
    <2>4. Linked(inflight')
      BY <2>1, <2>3, LinkedConcat, TransportFacts DEF LinkInv
    <2>5. inflight'[1] = IF inflight = <<>> THEN r[1] ELSE inflight[1]
      BY <2>1, <2>3, TransportFacts
    <2>6. \A p : NextFollows(p) => NextFollows(p)'
      BY <2>3, <2>5 DEF NextFollows
    <2>7. LinkInv'
      BY <2>2, <2>4, <2>6 DEF LinkInv
    <2>8. StreamInv'
      BY <2>2, <2>6 DEF StreamInv
    <2>9. QED
      BY <2>7, <2>8
  <1>3. QED
    BY <1>1, <1>2

LEMMA StreamNext ==
  TypeInv /\ OrderInv /\ LinkInv /\ StreamInv /\ [Next]_vars => LinkInv' /\ StreamInv'
  <1> SUFFICES ASSUME TypeInv, OrderInv, LinkInv, StreamInv, [Next]_vars
               PROVE  LinkInv' /\ StreamInv'
    OBVIOUS
  <1>1. CASE UNCHANGED vars
    BY <1>1 DEF vars, fido, radio, outcome, history, LinkInv, StreamInv, NextFollows
  <1>2. QED
    BY <1>1, StreamSendData, StreamCallback, StreamRadio DEF Next

(* What SendData hands back is the whole of one answer, packet after       *)
(* packet, for any number of packets and with an index that need not have  *)
(* room for them: hasError shuts a stream off once a packet of it is gone. *)
THEOREM RepliesWhole == Spec => []ReplyWhole
  <1>1. StreamInv => ReplyWhole
    BY DEF StreamInv, ReplyWhole, Contiguous
  <1>2. QED
    BY <1>1, TypeInit, TypeNext, OrderInit, OrderNext, StreamInit, StreamNext, PTL DEF Spec

-----------------------------------------------------------------------------
(* Until a command fails, nothing of an earlier one is left: each answer   *)
(* has been received to its last packet before the next command is sent.   *)
(* That takes answers short enough for the index of a packet, which goes   *)
(* up to MaxSeq from the second packet on.                                 *)

AnswersFit == MaxPackets <= MaxSeq + 2

Received == Len(recv) + Len(cb.pkt)

Quiet == todo = <<>> /\ inflight = <<>> /\ cb.pkt = <<>>

AnswerInv ==
  /\ cb.pkt # <<>> => cb.pkt[1].cmd = cmd /\ (recv = <<>> => cb.pkt[1].k = 0)
  /\ \A m \in Messages(inflight) : m.cmd = cmd
  /\ \A i \in 1 .. Len(inflight) : inflight[i] \notin Message => i = 1 /\ Received = 0
  /\ todo # <<>> => todo = <<cmd>> /\ inflight = <<>> /\ Received = 0
  /\ recv # <<>> => recv[1].k = 0
  /\ Received = 0 /\ inflight # <<>> => ~Continues(inflight[1])
  /\ pkgSeq = IF Received <= 2 THEN 0 ELSE Received - 2

FreshInv ==
  abandoned = {} =>
    /\ ~hasError
    /\ pc \notin Awaiting => Quiet
    /\ pc \in Working => ~torn
    /\ pc \in {"reset", "wrap", "send"} => recv = <<>>
    /\ pc \in {"wrap", "send"} => pkgSeq = 0
    /\ pc \in Awaiting \cup {"returned"} => \A i \in 1 .. Len(recv) : recv[i].cmd = cmd
    /\ pc \in Awaiting => AnswerInv

LEMMA FreshInit == Init => FreshInv
  BY DEF Init, FreshInv, Quiet, Awaiting, Working

LEMMA FreshKept ==
  ASSUME FreshInv, abandoned' = abandoned,
         UNCHANGED <<cmd, recv, hasError, torn, pkgSeq>>, cb'.pkt = cb.pkt,
         \/ UNCHANGED <<todo, inflight>>
         \/ todo' = <<>> /\ inflight' = <<>>,
         \/ pc' = pc
         \/ pc \in Awaiting /\ pc' \in Awaiting
         \/ /\ pc \in {"idle", "connecting", "connected", "status", "returned"}
            /\ pc' \in {"idle", "connecting", "connected", "status"}
  PROVE  FreshInv'
  <1> SUFFICES ASSUME abandoned = {} PROVE FreshInv'
    BY DEF FreshInv
  <1>1. /\ pc' \in Awaiting => pc \in Awaiting
        /\ pc' \notin Awaiting => pc \notin Awaiting
        /\ pc' \in Working => pc \in Working
        /\ pc' \in {"reset", "wrap", "send"} => pc' = pc
        /\ pc' \in Awaiting \cup {"returned"} => pc \in Awaiting \cup {"returned"}
    BY DEF Awaiting, Working
  <1>2. Messages(inflight') \subseteq Messages(inflight)
    BY Emptied
  <1>3. Received' = Received
    BY DEF Received
  <1>4. Quiet => Quiet'
    BY DEF Quiet
  <1>5. ASSUME AnswerInv PROVE AnswerInv'
    <2>1. CASE UNCHANGED <<todo, inflight>>
      BY <1>3, <1>5, <2>1 DEF AnswerInv
    <2>2. CASE todo' = <<>> /\ inflight' = <<>>
      BY <1>2, <1>3, <1>5, <2>2, Emptied DEF AnswerInv
    <2>3. QED
      BY <2>1, <2>2
  <1>6. /\ ~hasError
        /\ pc \notin Awaiting => Quiet
        /\ pc \in Working => ~torn
        /\ pc \in {"reset", "wrap", "send"} => recv = <<>>
        /\ pc \in {"wrap", "send"} => pkgSeq = 0
        /\ pc \in Awaiting \cup {"returned"} => \A i \in 1 .. Len(recv) : recv[i].cmd = cmd
        /\ pc \in Awaiting => AnswerInv
    BY DEF FreshInv
  <1>7. QED
    BY <1>1, <1>4, <1>5, <1>6 DEF FreshInv

(* The last packet of an answer leaves nothing of it to come.              *)
LEMMA AnswerOver ==
  ASSUME TypeInv, OrderInv, StreamInv, FreshInv, abandoned = {}, pc = "copy", Parses(recv)
  PROVE  Quiet
  <1>1. recv # <<>> /\ recv[1].k = 0 /\ recv[1] \in Message /\ Len(recv) > 0
    BY TransportFacts DEF OrderInv, LatestInv
  <1>2. ~hasError /\ ~torn /\ AnswerInv /\ recv[1].cmd = cmd
    BY <1>1 DEF FreshInv, Working, Awaiting
  <1>3. /\ Contiguous(recv)
        /\ cb.pkt # <<>> => Follows(recv[Len(recv)], cb.pkt[1])
        /\ cb.pkt = <<>> => NextFollows(recv[Len(recv)])
    BY <1>1, <1>2 DEF StreamInv, Cleared, Awaiting
  <1>4. recv[Len(recv)].k = recv[1].of - 1 /\ recv[Len(recv)].of = recv[1].of
    <2>1. Len(recv) = recv[1].of
      BY <1>1, <1>3, WholeLength, TransportFacts
    <2>2. QED
      BY <1>1, <1>3, <2>1 DEF Contiguous
  <1>5. ASSUME NEW q \in Message PROVE ~Follows(recv[Len(recv)], q)
    BY <1>1, <1>4, MessageFields DEF Follows
  <1>6. cb.pkt = <<>>
    BY <1>3, <1>5, TransportFacts
  <1>7. Received # 0
    BY <1>1, <1>6 DEF Received
  <1>8. inflight = <<>>
    <2> SUFFICES ASSUME inflight # <<>> PROVE FALSE
      OBVIOUS
    <2>1. Len(inflight) > 0 /\ 1 \in 1 .. Len(inflight)
      BY TransportFacts
    <2>2. inflight[1] \in Message
      BY <1>2, <1>7, <2>1 DEF AnswerInv
    <2>3. inflight[1] \in Messages(inflight)
      BY <2>1, <2>2 DEF Messages
    <2>4. inflight[1].cmd = cmd /\ Before(recv[1], inflight[1])
      BY <1>1, <1>2, <2>3 DEF AnswerInv, OrderInv, FirstInv
    <2>5. Continues(inflight[1])
      BY <1>1, <1>2, <2>2, <2>4, MessageFields DEF Continues, Before
    <2>6. QED
      BY <1>3, <1>5, <1>6, <2>2, <2>5 DEF NextFollows
  <1>9. todo = <<>>
    BY <1>2, <1>7 DEF AnswerInv
  <1>10. QED
    BY <1>6, <1>8, <1>9 DEF Quiet

LEMMA FreshSendData ==
  ASSUME TypeInv, OrderInv, StreamInv, FreshInv, SendData \/ SendDataStep
  PROVE  FreshInv'
  <1> USE DEF fido, radio, outcome, history
  <1>1. ASSUME Abandon PROVE FreshInv'
    BY <1>1 DEF Abandon, FreshInv
  <1>2. CASE SendData
    <2>1. UNCHANGED <<todo, inflight, cb, hasError, abandoned>> /\ pc = "idle" /\ pc' = "clear"
      BY <1>2 DEF SendData
    <2>2. abandoned = {} => Quiet /\ ~hasError
      BY <2>1 DEF FreshInv, Awaiting
    <2>3. QED
      BY <2>1, <2>2 DEF FreshInv, Quiet, Awaiting, Working
  <1>3. CASE ClearBuffer
    <2>1. UNCHANGED <<todo, inflight, cb, hasError, abandoned>> /\ recv' = <<>> /\ torn' = FALSE
          /\ pc = "clear" /\ pc' = "reset"
      BY <1>3 DEF ClearBuffer
    <2>2. abandoned = {} => Quiet /\ ~hasError
      BY <2>1 DEF FreshInv, Awaiting
    <2>3. QED
      BY <2>1, <2>2 DEF FreshInv, Quiet, Awaiting, Working
  <1>4. CASE ClearState
    <2>1. UNCHANGED <<todo, inflight, cb, recv, torn, abandoned>> /\ pkgSeq' = 0 /\ hasError' = FALSE
          /\ pc = "reset" /\ pc' = "wrap"
      BY <1>4 DEF ClearState
    <2>2. abandoned = {} => Quiet /\ ~torn /\ recv = <<>>
      BY <2>1 DEF FreshInv, Awaiting, Working
    <2>3. QED
      BY <2>1, <2>2 DEF FreshInv, Quiet, Awaiting, Working
  <1>5. CASE WrapFidoApdu
    <2>1. UNCHANGED <<todo, inflight, cb, recv, torn, pkgSeq, hasError, abandoned>>
          /\ pc = "wrap" /\ pc' = "send"
      BY <1>5 DEF WrapFidoApdu
    <2>2. abandoned = {} => Quiet /\ ~torn /\ recv = <<>> /\ pkgSeq = 0 /\ ~hasError
      BY <2>1 DEF FreshInv, Awaiting, Working
    <2>3. QED
      BY <2>1, <2>2 DEF FreshInv, Quiet, Awaiting, Working
  <1>6. CASE SendAPDU
    <2>1. CASE /\ todo' = Append(todo, cmd) /\ pc' = "enter" /\ UNCHANGED history
      <3>1. UNCHANGED <<cmd, inflight, cb, recv, torn, pkgSeq, hasError, abandoned>> /\ pc = "send"
        BY <1>6, <2>1 DEF SendAPDU
      <3> SUFFICES ASSUME abandoned = {} PROVE FreshInv'
        BY <3>1 DEF FreshInv
      <3>2. Quiet /\ ~torn /\ recv = <<>> /\ pkgSeq = 0 /\ ~hasError
        BY <3>1 DEF FreshInv, Awaiting, Working
      <3>3. todo' = <<cmd>> /\ inflight' = <<>> /\ cb'.pkt = <<>> /\ recv' = <<>>
        BY <2>1, <3>1, <3>2 DEF Quiet
      <3>4. Received' = 0
        BY <3>3 DEF Received
      <3>5. AnswerInv'
        BY <3>1, <3>2, <3>3, <3>4, Emptied DEF AnswerInv
      <3>6. QED
        BY <2>1, <3>1, <3>2, <3>3, <3>5 DEF FreshInv, Awaiting
    <2>2. QED
      BY <1>1, <1>6, <2>1 DEF SendAPDU
  <1>7. CASE WaitForReceive \/ TimeoutOrSpurious \/ CheckConnected
    <2>1. CASE UNCHANGED history
      <3>1. /\ UNCHANGED <<cmd, recv, hasError, torn, pkgSeq, cb, todo, inflight, abandoned>>
            /\ pc \in Awaiting
        BY <1>7, <2>1 DEF WaitForReceive, TimeoutOrSpurious, CheckConnected, Awaiting
      <3>2. CASE pc' \in Awaiting
        BY <3>1, <3>2, FreshKept
      <3>3. QED
        BY <1>1, <1>7, <3>2
           DEF WaitForReceive, TimeoutOrSpurious, CheckConnected, Awaiting
    <2>2. QED
      BY <1>1, <1>7, <2>1 DEF WaitForReceive, TimeoutOrSpurious, CheckConnected
  <1>8. CASE CheckStatus
    <2>1. CASE pc' = "copy" /\ UNCHANGED history /\ CheckResponse(recv) = "done"
      <3>1. /\ UNCHANGED <<cmd, recv, torn, pkgSeq, cb, todo, inflight, abandoned>>
            /\ pc \in Awaiting /\ pc' \in Awaiting
            /\ hasError' = (hasError \/ CheckResponse(recv) = "mismatch")
        BY <1>8, <2>1 DEF CheckStatus, Awaiting
      <3>2. hasError' = hasError
        BY <2>1, <3>1 DEF TypeInv, TypeOK
      <3>3. QED
        BY <3>1, <3>2, FreshKept
    <2>2. QED
      BY <1>1, <1>8, <2>1 DEF CheckStatus
  <1>9. CASE CopyResponse
    <2>1. CASE pc' = "returned" /\ Parses(recv)
      <3>1. UNCHANGED <<cmd, recv, hasError, cb, todo, inflight>> /\ pc = "copy"
        BY <1>9 DEF CopyResponse
      <3>2. abandoned' = abandoned
        BY <1>9, <2>1 DEF CopyResponse
      <3>3. abandoned = {} => /\ Quiet /\ ~hasError
                              /\ \A i \in 1 .. Len(recv) : recv[i].cmd = cmd
        BY <2>1, <3>1, AnswerOver DEF FreshInv, Awaiting
      <3>4. QED
        BY <2>1, <3>1, <3>2, <3>3 DEF FreshInv, Quiet, Awaiting, Working
    <2>2. QED
      BY <1>1, <1>9, <2>1 DEF CopyResponse
  <1>10. CASE ReturnReply
    <2>1. /\ UNCHANGED <<cmd, recv, hasError, torn, pkgSeq, cb, todo, inflight, abandoned>>
          /\ pc = "returned" /\ pc' = "idle"
      BY <1>10 DEF ReturnReply
    <2>2. QED
      BY <2>1, FreshKept
  <1>11. QED
    BY <1>2, <1>3, <1>4, <1>5, <1>6, <1>7, <1>8, <1>9, <1>10 DEF SendDataStep

(* The packet that comes next has the index that is due.                   *)
LEMMA NextInSequence ==
  ASSUME AnswersFit, TypeInv, OrderInv, StreamInv, FreshInv, abandoned = {}, pc \in Awaiting,
         cb.pkt = <<>>, recv # <<>>, inflight # <<>>,
         NEW p, p = inflight[1], p \in Message
  PROVE  CheckSeq(p) /\ p.k = Len(recv)
  <1>1. recv[1] \in Message /\ Len(recv) > 0 /\ recv \in Seq(Message) /\ Len(recv) \in Nat
    BY TransportFacts
  <1>2. ~hasError /\ ~torn /\ AnswerInv /\ recv[1].k = 0 /\ recv[1].cmd = cmd
    BY <1>1 DEF FreshInv, AnswerInv, Working
  <1>3. 1 \in 1 .. Len(inflight) /\ p \in Messages(inflight)
    BY TransportFacts DEF Messages
  <1>4. p.cmd = cmd /\ Before(recv[1], p)
    BY <1>2, <1>3 DEF AnswerInv, OrderInv, FirstInv
  <1>5. p.k > 0 /\ Continues(p)
    BY <1>1, <1>2, <1>4, MessageFields DEF Continues, Before
  <1>6. Contiguous(recv) /\ Follows(recv[Len(recv)], p)
    BY <1>2, <1>5 DEF StreamInv, NextFollows, Cleared
  <1>7. p.k = Len(recv)
    BY <1>1, <1>6 DEF Contiguous, Follows
  <1>8. Received = Len(recv)
    BY <1>1 DEF Received
  <1>9. pkgSeq = IF Len(recv) <= 2 THEN 0 ELSE Len(recv) - 2
    BY <1>2, <1>8 DEF AnswerInv
  <1>10. p.k <= MaxPackets - 1 /\ p.k - 1 <= MaxSeq /\ p.k \in Nat
    <2>1. MaxPackets \in Nat /\ MaxSeq \in Nat
      BY TransportAssumption DEF TransportAssumption
    <2>2. p.k \in Nat /\ p.of \in Nat /\ p.k < p.of /\ p.of <= MaxPackets
      BY MessageFields
    <2>3. QED
      BY <2>1, <2>2 DEF AnswersFit
  <1>11. CheckSeq(p)
    <2>1. PICK n \in Nat : n = Len(recv)
      BY <1>1
    <2>2. n > 0 /\ p.k = n /\ pkgSeq = IF n <= 2 THEN 0 ELSE n - 2
      BY <1>1, <1>7, <1>9, <2>1
    <2>3. p.k - 1 = n - 1 /\ n - 1 <= MaxSeq
      BY <1>10, <2>2
    <2>4. (n - 1 = 0 /\ pkgSeq = 0) \/ n - 1 = pkgSeq + 1
      BY <2>2
    <2>5. QED
      BY <1>5, <2>3, <2>4 DEF CheckSeq
  <1>12. QED
    BY <1>7, <1>11

LEMMA FreshRecv ==
  ASSUME AnswersFit, TypeInv, OrderInv, LinkInv, StreamInv, FreshInv, RecvCallBack
  PROVE  FreshInv'
  <1> PICK p : p = Head(inflight)
    OBVIOUS
  <1>1. /\ cb.pc = "idle" /\ cb.pkt = <<>> /\ inflight # <<>> /\ inflight' = Tail(inflight)
        /\ UNCHANGED <<pc, cmd, recv, torn, todo, abandoned>>
    BY DEF RecvCallBack, history, outcome, OrderInv, PacketInv
  <1> SUFFICES ASSUME abandoned = {} PROVE FreshInv'
    BY <1>1 DEF FreshInv
  <1>2. pc \in Awaiting /\ ~hasError /\ ~torn /\ AnswerInv
        /\ \A i \in 1 .. Len(recv) : recv[i].cmd = cmd
    BY <1>1 DEF FreshInv, Quiet, Working
  <1>3. /\ p = inflight[1] /\ p \in Packet /\ Len(inflight) > 0 /\ Len(inflight) \in Nat
        /\ Len(inflight') = Len(inflight) - 1
        /\ \A i \in 1 .. Len(inflight) - 1 : inflight'[i] = inflight[i + 1]
        /\ Messages(inflight') \subseteq Messages(inflight)
        /\ inflight' # <<>> /\ Continues(inflight'[1]) => p \in Message
    <2>1. /\ Len(inflight) > 0 /\ Len(inflight) \in Nat /\ Head(inflight) = inflight[1]
          /\ Head(inflight) \in Packet
          /\ Len(inflight') = Len(inflight) - 1
          /\ \A i \in 1 .. Len(inflight) - 1 : inflight'[i] = inflight[i + 1]
      BY <1>1, TailIndex, TransportFacts
    <2>2. Messages(inflight') \subseteq Messages(inflight)
      BY <1>1, MessagesTail, TransportFacts
    <2>3. inflight' # <<>> /\ Continues(inflight'[1]) => p \in Message
      BY <1>1, LinkedTail, TransportFacts DEF LinkInv
    <2>4. QED
      BY <2>1, <2>2, <2>3
  <1>4. \A i \in 1 .. Len(inflight') : inflight'[i] \in Message
    <2> TAKE i \in 1 .. Len(inflight')
    <2>1. i + 1 \in 1 .. Len(inflight) /\ i + 1 # 1 /\ inflight'[i] = inflight[i + 1]
      BY <1>3
    <2>2. QED
      BY <1>2, <2>1 DEF AnswerInv
  <1>5. Received = Len(recv) /\ Len(recv) \in Nat /\ (recv # <<>> => Len(recv) > 0)
        /\ (recv = <<>> => Received = 0)
    BY <1>1, TransportFacts DEF Received
  <1>6. todo = <<>>
    BY <1>1, <1>2 DEF AnswerInv
  <1>7. p.kind = "msg" <=> p \in Message
    BY <1>3, PacketKind
  <1>8. ASSUME p \notin Message
        PROVE  cb'.pkt = <<>> /\ pkgSeq' = pkgSeq /\ hasError' = hasError /\ Received = 0
    <2>1. Received = 0
      BY <1>2, <1>3, <1>8 DEF AnswerInv
    <2>2. QED
      BY <1>7, <1>8, <2>1 DEF RecvCallBack, CallbackDone
  <1>9. CASE p \notin Message
    <2>1. Received' = Received
      BY <1>1, <1>8, <1>9 DEF Received
    <2>2. AnswerInv'
      BY <1>1, <1>2, <1>3, <1>4, <1>6, <1>8, <1>9, <2>1 DEF AnswerInv
    <2>3. QED
      BY <1>1, <1>2, <1>8, <1>9, <2>2 DEF FreshInv, Awaiting
  <1>10. CASE p \in Message
    <2>1. recv # <<>> => CheckSeq(p) /\ p.k = Len(recv)
      BY <1>1, <1>2, <1>3, <1>10, NextInSequence
    <2>2. ~Dropped(p)
      BY <1>2, <1>7, <1>10 DEF Dropped
    <2>3. /\ cb' = [pc |-> "merge", pkt |-> <<p>>] /\ hasError' = hasError
          /\ pkgSeq' = IF recv = <<>> THEN pkgSeq ELSE p.k - 1
      BY <1>7, <1>10, <2>1, <2>2 DEF RecvCallBack
    <2>4. Received' = Len(recv) + 1
      BY <1>1, <2>3 DEF Received
    <2>5. p.cmd = cmd
      <3>1. p \in Messages(inflight)
        BY <1>1, <1>10, MessagesTail, TransportFacts
      <3>2. QED
        BY <1>2, <3>1 DEF AnswerInv
    <2>6. recv = <<>> => p.k = 0
      BY <1>1, <1>2, <1>3, <1>5, <1>10, MessageFields DEF AnswerInv, Continues
    <2>7. pkgSeq' = IF Received' <= 2 THEN 0 ELSE Received' - 2
      <3>1. CASE recv = <<>>
        <4>1. pkgSeq = 0 /\ Len(recv) = 0
          BY <1>2, <1>5, <3>1 DEF AnswerInv
        <4>2. QED
          BY <2>3, <2>4, <3>1, <4>1
      <3>2. CASE recv # <<>>
        BY <1>5, <2>1, <2>3, <2>4, <3>2
      <3>3. QED
        BY <3>1, <3>2
    <2>8. AnswerInv'
      <3>1. cb'.pkt # <<>> /\ cb'.pkt[1] = p
        BY <2>3
      <3>2. Received' # 0
        BY <1>5, <2>4
      <3>3. /\ \A m \in Messages(inflight') : m.cmd = cmd
            /\ recv # <<>> => recv[1].k = 0
        BY <1>2, <1>3 DEF AnswerInv
      <3>4. QED
        BY <1>1, <1>4, <1>6, <2>5, <2>6, <2>7, <3>1, <3>2, <3>3 DEF AnswerInv
    <2>9. QED
      BY <1>1, <1>2, <2>3, <2>8 DEF FreshInv, Awaiting
  <1>11. QED
    BY <1>9, <1>10

LEMMA FreshMerge ==
  ASSUME TypeInv, OrderInv, StreamInv, FreshInv, MergePacket
  PROVE  FreshInv'
  <1> PICK p : p = cb.pkt[1]
    OBVIOUS
  <1>1. /\ cb.pc = "merge" /\ recv' = recv \o cb.pkt
        /\ cb'.pkt = <<>> /\ torn' = (torn \/ pc = "reset")
        /\ hasError' = (hasError \/ CheckResponse(recv') = "mismatch")
        /\ UNCHANGED <<pc, cmd, cmdHeader, pkgSeq, inflight, todo, abandoned>>
    BY DEF MergePacket, CallbackDone, radio, outcome
  <1> SUFFICES ASSUME abandoned = {} PROVE FreshInv'
    BY <1>1 DEF FreshInv
  <1>2. p \in Message /\ cb.pkt = <<p>> /\ cb.pkt # <<>> /\ Len(cb.pkt) = 1
    BY <1>1, TransportFacts DEF OrderInv, PacketInv
  <1>3. pc \in Awaiting /\ ~hasError /\ ~torn /\ AnswerInv
        /\ \A i \in 1 .. Len(recv) : recv[i].cmd = cmd
    BY <1>2 DEF FreshInv, Quiet, Working
  <1>4. /\ recv \in Seq(Message) /\ Len(recv) \in Nat
        /\ recv' # <<>> /\ Len(recv') = Len(recv) + 1
        /\ recv = <<>> => recv'[1] = p
        /\ recv # <<>> => recv'[1] = recv[1]
        /\ \A i \in 1 .. Len(recv) : recv'[i] = recv[i]
        /\ recv'[Len(recv) + 1] = p
    BY <1>1, <1>2, ConcatLast, TransportFacts
  <1>5. recv'[1].k = 0
    BY <1>2, <1>3, <1>4 DEF AnswerInv
  <1>6. cmdHeader = "msg"
    BY <1>3 DEF StreamInv
  <1>7. CheckResponse(recv') # "mismatch"
    BY <1>1, <1>4, <1>5, <1>6 DEF CheckResponse
  <1>8. ~hasError' /\ ~torn'
    BY <1>1, <1>3, <1>7 DEF Awaiting
  <1>9. Received' = Received
    BY <1>1, <1>2, <1>4 DEF Received
  <1>10. \A i \in 1 .. Len(recv') : recv'[i].cmd = cmd
    <2>1. \A i \in 1 .. Len(recv') : i \in 1 .. Len(recv) \/ i = Len(recv) + 1
      BY <1>4
    <2>2. p.cmd = cmd
      BY <1>2, <1>3 DEF AnswerInv
    <2>3. QED
      BY <1>3, <1>4, <2>1, <2>2
  <1>11. AnswerInv'
    BY <1>1, <1>3, <1>5, <1>9 DEF AnswerInv
  <1>12. QED
    BY <1>1, <1>3, <1>8, <1>10, <1>11 DEF FreshInv, Awaiting

LEMMA FreshNext ==
  ASSUME AnswersFit, TypeInv, OrderInv, LinkInv, StreamInv, FreshInv, [Next]_vars
  PROVE  FreshInv'
  <1> USE DEF fido, device, radio, outcome, history
  <1>1. CASE StopReceiving \/ DiscCallBack \/ SetConnectStatuteFalse
    <2>1. /\ UNCHANGED <<cmd, recv, hasError, torn, pkgSeq, todo, inflight, abandoned>>
          /\ cb.pc # "merge" /\ cb'.pkt = <<>>
      <3>1. CASE StopReceiving
        BY <3>1 DEF StopReceiving, CallbackDone
      <3>2. CASE DiscCallBack
        BY <3>2 DEF DiscCallBack
      <3>3. CASE SetConnectStatuteFalse
        BY <3>3 DEF SetConnectStatuteFalse
      <3>4. QED
        BY <1>1, <3>1, <3>2, <3>3
    <2>2. pc' = pc \/ (pc \in Awaiting /\ pc' \in Awaiting)
      BY <1>1 DEF StopReceiving, DiscCallBack, SetConnectStatuteFalse, Awaiting
    <2>3. cb.pkt = <<>>
      BY <2>1 DEF OrderInv, PacketInv
    <2>4. QED
      BY <2>1, <2>2, <2>3, FreshKept
  <1>2. CASE ConnectionStep \/ LinkLost
    <2>1. /\ UNCHANGED <<cmd, recv, hasError, torn, pkgSeq, cb, abandoned>>
          /\ \/ UNCHANGED <<todo, inflight>>
             \/ todo' = <<>> /\ inflight' = <<>>
      BY <1>2 DEF ConnectionStep, Connect, ConnDev, StoreHandle, StoreStatus, CancelHandle, CancelStatus,
                  Disconnect, LinkLost
    <2>2. \/ pc' = pc
          \/ /\ pc \in {"idle", "connecting", "connected", "status", "returned"}
             /\ pc' \in {"idle", "connecting", "connected", "status"}
      BY <1>2 DEF ConnectionStep, Connect, ConnDev, StoreHandle, StoreStatus, CancelHandle, CancelStatus,
                  Disconnect, LinkLost
    <2>3. QED
      BY <2>1, <2>2, FreshKept
  <1>3. CASE PeripheralAnswers
    <2>1. /\ UNCHANGED <<pc, cmd, recv, hasError, torn, pkgSeq, cb, abandoned>>
          /\ todo # <<>> /\ todo' = Tail(todo)
      BY <1>3 DEF PeripheralAnswers
    <2>2. PICK r \in Replies(Head(todo)) : inflight' = inflight \o r
      BY <1>3 DEF PeripheralAnswers
    <2> SUFFICES ASSUME abandoned = {} PROVE FreshInv'
      BY <2>1 DEF FreshInv
    <2>3. pc \in Awaiting /\ ~hasError /\ ~torn /\ AnswerInv
          /\ \A i \in 1 .. Len(recv) : recv[i].cmd = cmd
      BY <2>1 DEF FreshInv, Quiet, Working
    <2>4. todo = <<cmd>> /\ inflight = <<>> /\ Received = 0
      BY <2>1, <2>3 DEF AnswerInv
    <2>5. cmd \in Cmd /\ Head(todo) = cmd /\ todo' = <<>>
      BY <2>1, <2>3, <2>4 DEF TypeInv, SendDataShape, SendPC, Awaiting
    <2>6. r \in Seq(Packet) /\ ReplyLike(r, cmd)
      BY <2>2, <2>5, ReplyShape
    <2>7. inflight' = r
      BY <2>2, <2>4, <2>6
    <2>8. Received' = 0
      BY <2>1, <2>4 DEF Received
    <2>9. \A i \in 1 .. Len(r) : r[i] \notin Message => i = 1
      <3>1. Len(r) \in Nat /\ \A i \in 1 .. Len(r) : i = 1 \/ i \in 2 .. Len(r)
        BY <2>6
      <3>2. QED
        BY <2>6, <3>1 DEF ReplyLike
    <2>10. AnswerInv'
      BY <2>1, <2>3, <2>4, <2>5, <2>6, <2>7, <2>8, <2>9 DEF AnswerInv, ReplyLike
    <2>11. QED
      BY <2>1, <2>3, <2>10 DEF FreshInv, Awaiting
  <1>4. CASE UNCHANGED vars
    <2>1. /\ UNCHANGED <<pc, cmd, recv, hasError, torn, pkgSeq, cb, abandoned>>
          /\ UNCHANGED <<todo, inflight>>
      BY <1>4 DEF vars
    <2>2. QED
      BY <2>1, FreshKept
  <1>5. QED
    BY <1>1, <1>2, <1>3, <1>4, FreshSendData, FreshRecv, FreshMerge DEF Next, CallbackStep

(* A caller none of whose commands failed finds the receiver clear of      *)
(* earlier answers at every step of the next one, so its reply is to the   *)
(* command it sent.  Only answers that the packet index has room for are   *)
(* received whole, and only they can leave nothing behind.                 *)
THEOREM FreshReceiver ==
  ASSUME AnswersFit
  PROVE  Spec => []FreshUntilAbandoned
  <1>1. ASSUME TypeInv, FreshInv, abandoned = {}, pc \in SendPC
        PROVE  /\ ~hasError
               /\ pc \notin {"clear"} => \A i \in DOMAIN recv : recv[i].cmd = cmd
               /\ \A i \in DOMAIN cb.pkt : cb.pkt[i].cmd = cmd
               /\ \A i \in DOMAIN inflight : inflight[i].kind = "msg" => inflight[i].cmd = cmd
    <2>1. ~hasError
      BY <1>1 DEF FreshInv
    <2>2. ASSUME pc # "clear" PROVE \A i \in DOMAIN recv : recv[i].cmd = cmd
      <3>1. DOMAIN recv = 1 .. Len(recv)
        BY <1>1, TransportFacts
      <3>2. CASE pc \in {"reset", "wrap", "send"}
        BY <1>1, <3>2 DEF FreshInv
      <3>3. CASE pc \in Awaiting \cup {"returned"}
        BY <1>1, <3>1, <3>3 DEF FreshInv
      <3>4. QED
        BY <1>1, <2>2, <3>2, <3>3 DEF SendPC, Awaiting
    <2>3. CASE pc \notin Awaiting
      BY <1>1, <2>1, <2>2, <2>3 DEF FreshInv, Quiet
    <2>4. CASE pc \in Awaiting
      <3>1. AnswerInv
        BY <1>1, <2>4 DEF FreshInv
      <3>2. \A i \in DOMAIN cb.pkt : cb.pkt[i].cmd = cmd
        <4>1. CASE cb.pkt = <<>>
          BY <4>1
        <4>2. CASE cb.pkt # <<>>
          BY <1>1, <3>1, <4>2, TransportFacts DEF AnswerInv
        <4>3. QED
          BY <4>1, <4>2
      <3>3. ASSUME NEW i \in DOMAIN inflight, inflight[i].kind = "msg"
            PROVE  inflight[i].cmd = cmd
        <4>1. i \in 1 .. Len(inflight) /\ inflight[i] \in Packet
          BY <1>1, <3>3, TransportFacts
        <4>2. inflight[i] \in Messages(inflight)
          BY <3>3, <4>1, PacketKind DEF Messages
        <4>3. QED
          BY <3>1, <4>2 DEF AnswerInv
      <3>4. QED
        BY <2>1, <2>2, <3>2, <3>3
    <2>5. QED
      BY <2>3, <2>4
  <1>2. TypeInv /\ FreshInv => FreshUntilAbandoned
    BY <1>1 DEF FreshUntilAbandoned
  <1>3. TypeInv /\ OrderInv /\ LinkInv /\ StreamInv /\ FreshInv /\ [Next]_vars => FreshInv'
    BY FreshNext
  <1>4. QED
    BY <1>2, <1>3, TypeInit, TypeNext, OrderInit, OrderNext, StreamInit, StreamNext, FreshInit,
       PTL DEF Spec
=============================================================================
