----------------------- MODULE DeviceRegistry_proofs ------------------------
(* Theorems about DeviceRegistry: for any number of IDs, links and devices.*)
EXTENDS DeviceRegistry, XManager_proofs

-----------------------------------------------------------------------------
(* Until an ID comes round, IDs are counted by the connections, and those  *)
(* that were not issued have no handle.                                    *)
Counted ==
  conns <= MaxID => handles.id = conns /\ \A i \in Handles : i > conns => handles.map[i] = NULL

(* The handle the device has is that of the device connected last.         *)
HandleIsLatest == _handle # 0 /\ links[_handle] # NULL => links[_handle] = latest

RegistryInv ==
  TypeOK /\ DeadHandleNoticed /\ HandleIsLatest /\ Counted /\ EveryLinkHasID

LEMMA RegistryInit == Init => RegistryInv
<1> SUFFICES ASSUME Init PROVE RegistryInv
  OBVIOUS
<1> USE RegistryAssumption, MaxIDAssumption DEF RegistryAssumption, MaxIDAssumption, Init
<1>1. handles \in Table(Links)
  BY DEF EmptyTable, Table
<1>b. _bConnected \in BOOLEAN
  OBVIOUS
<1>2. TypeOK
  BY <1>1, <1>b DEF TypeOK, NotSent, Links
<1>3. Counted
  BY DEF Counted, EmptyTable
<1> QED
  BY <1>2, <1>3 DEF RegistryInv, DeadHandleNoticed, HandleIsLatest, EveryLinkHasID

LEMMA TypeStep == TypeOK /\ [Next]_vars => TypeOK'
<1> SUFFICES ASSUME TypeOK, [Next]_vars PROVE TypeOK'
  OBVIOUS
<1> USE RegistryAssumption DEF RegistryAssumption, TypeOK
<1>c. _bConnected' \in BOOLEAN
  BY Zenon DEF Next, ConnectDevice, Record, CancelConnect, DisconnectDevice, Command, DeviceDrops,
     DiscCallBack, vars
<1>1. ASSUME NEW u \in Devs, NEW h \in Links, ConnectDevice(u, h) PROVE TypeOK'
  <2>1. handles' \in Table(Links) /\ tokens' \subseteq Handles
    BY <1>1, AddOneType, NextHandleInRange DEF ConnectDevice
  <2> QED
    BY <1>1, <2>1, <1>c DEF ConnectDevice, Record, Links
<1>2. CASE CancelConnect
  BY <1>2, <1>c DEF CancelConnect, registry, history
<1>3. ASSUME NEW i \in Handles, DisconnectDevice(i) PROVE TypeOK'
  <2>1. links' \in [Links -> Devs \cup {NULL}]
    BY <1>3 DEF DisconnectDevice
  <2> QED
    BY <1>3, <1>c, <2>1 DEF DisconnectDevice, registry, history
<1>4. ASSUME NEW i \in Handles, Command(i) PROVE TypeOK'
  BY <1>4 DEF Command, registry, history, NotSent, Links
<1>5. ASSUME NEW h \in Links, DeviceDrops(h) PROVE TypeOK'
  BY <1>5 DEF DeviceDrops, registry, history
<1>6. CASE DiscCallBack
  BY <1>6, <1>c DEF DiscCallBack, registry, history
<1>7. CASE UNCHANGED vars
  BY <1>7 DEF vars
<1> QED
  BY <1>1, <1>2, <1>3, <1>4, <1>5, <1>6, <1>7 DEF Next

LEMMA RegistryStep == RegistryInv /\ [Next]_vars => RegistryInv'
<1> SUFFICES ASSUME RegistryInv, [Next]_vars PROVE RegistryInv'
  OBVIOUS
<1>t. TypeOK /\ TypeOK'
  BY TypeStep DEF RegistryInv
<1> USE RegistryAssumption, MaxIDAssumption, <1>t
    DEF RegistryAssumption, MaxIDAssumption, RegistryInv, DeadHandleNoticed, HandleIsLatest, Counted,
        EveryLinkHasID, IsDeviceConnect
<1>1. ASSUME NEW u \in Devs, NEW h \in Links, ConnectDevice(u, h) PROVE RegistryInv'
  <2>1. /\ links' = [links EXCEPT ![h] = u] /\ _handle' = h /\ _bConnected' = TRUE
        /\ latest' = u /\ conns' = conns + 1 /\ handles' = AddOne(handles, h)
        /\ tokens' = tokens \cup {NextHandle(handles)} /\ u # NULL /\ links[h] = NULL
    BY <1>1 DEF ConnectDevice, Record
  <2>2. DeadHandleNoticed' /\ HandleIsLatest'
    BY <2>1 DEF TypeOK, Links
  <2>3. ASSUME conns' <= MaxID
        PROVE  NextHandle(handles) = conns + 1 /\ conns + 1 \in Handles
    BY <2>1, <2>3 DEF NextHandle, TypeOK, Handles
  <2>m. /\ handles'.id = NextHandle(handles)
        /\ handles'.map[NextHandle(handles)] =
             IF handles.map[NextHandle(handles)] = NULL THEN h ELSE handles.map[NextHandle(handles)]
        /\ \A i \in Handles : i # NextHandle(handles) => handles'.map[i] = handles.map[i]
    BY <2>1, AddOneMap DEF TypeOK
  <2>n. conns \in Nat /\ (conns' <= MaxID => conns <= MaxID)
    BY <2>1 DEF TypeOK
  <2>4. Counted'
    BY <2>1, <2>3, <2>m, <2>n DEF Handles
  <2>o. NULL \notin Links
    BY DEF Links
  <2>5. EveryLinkHasID'
    <3> SUFFICES ASSUME conns' <= MaxID, NEW g \in Links, links'[g] # NULL
                 PROVE  \E i \in tokens' : handles'.map[i] = g /\ IsDeviceConnect(i)'
      OBVIOUS
    <3>1. CASE g = h
      <4>1. handles.map[conns + 1] = NULL /\ conns + 1 \in Handles /\ NextHandle(handles) = conns + 1
        BY <2>3, <2>n
      <4>2. conns + 1 \in tokens' /\ handles'.map[conns + 1] = g
        BY <4>1, <2>1, <2>m, <3>1
      <4> QED
        BY <4>2, <2>o
    <3>2. CASE g # h
      <4>1. links[g] # NULL /\ conns <= MaxID
        BY <2>1, <2>n, <3>2 DEF TypeOK
      <4>2. PICK i \in tokens : handles.map[i] = g
        BY <4>1
      <4>3. i \in Handles /\ handles'.map[i] = g
        BY <4>1, <4>2, <2>3, <2>m, <2>n, <2>o DEF TypeOK
      <4> QED
        BY <4>2, <4>3, <2>1, <2>o
    <3> QED
      BY <3>1, <3>2
  <2> QED
    BY <2>2, <2>4, <2>5
<1>2. CASE CancelConnect
  BY <1>2 DEF CancelConnect, registry, history
<1>3. ASSUME NEW i \in Handles, DisconnectDevice(i) PROVE RegistryInv'
  BY <1>3 DEF DisconnectDevice, registry, history, TypeOK, Table
<1>4. ASSUME NEW i \in Handles, Command(i) PROVE RegistryInv'
  BY <1>4 DEF Command, registry, history
<1>5. ASSUME NEW h \in Links, DeviceDrops(h) PROVE RegistryInv'
  BY <1>5 DEF DeviceDrops, registry, history, TypeOK
<1>6. CASE DiscCallBack
  BY <1>6 DEF DiscCallBack, registry, history
<1>7. CASE UNCHANGED vars
  BY <1>7 DEF vars
<1> QED
  BY <1>1, <1>2, <1>3, <1>4, <1>5, <1>6, <1>7 DEF Next

LEMMA RegistryInvariant == Spec => []RegistryInv
  BY RegistryInit, RegistryStep, PTL DEF Spec

(* Type correctness.                                                       *)
THEOREM RegistryTypeCorrect == Spec => []TypeOK
<1>1. RegistryInv => TypeOK
  BY DEF RegistryInv
<1> QED
  BY <1>1, RegistryInvariant, PTL

(* No dead handle stays, but for a callback that is still to come.         *)
THEOREM DeadHandleIsNoticed == Spec => []DeadHandleNoticed
<1>1. RegistryInv => DeadHandleNoticed
  BY DEF RegistryInv
<1> QED
  BY <1>1, RegistryInvariant, PTL

(* Until an ID comes round, every link that is up can be closed.           *)
THEOREM LinksHaveIDs == Spec => []EveryLinkHasID
<1>1. RegistryInv => EveryLinkHasID
  BY DEF RegistryInv
<1> QED
  BY <1>1, RegistryInvariant, PTL

(* A command reaches the device that was connected last or none.           *)
THEOREM LatestIsReached == Spec => LatestReached
<1>1. RegistryInv /\ [Next]_vars => [sent' # sent /\ sent'.dev # NULL => sent'.dev = latest]_vars
  <2> SUFFICES ASSUME RegistryInv, Next, sent' # sent, sent'.dev # NULL PROVE sent'.dev = latest
    OBVIOUS
  <2>1. PICK i \in Handles : Command(i)
    BY DEF Next, ConnectDevice, CancelConnect, DisconnectDevice, DeviceDrops, DiscCallBack
  <2> QED
    BY <2>1 DEF RegistryInv, HandleIsLatest, Command, NotSent
<1> QED
  BY <1>1, RegistryInvariant, PTL DEF Spec, LatestReached
=============================================================================
