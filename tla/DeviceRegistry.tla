--------------------------- MODULE DeviceRegistry ---------------------------
(***************************************************************************)
(* Device IDs over Bluetooth (JUB_SDK_DEV_BLE.cpp): a map from IDs to the  *)
(* library's handles, a token for each ID, and one JubiterBLEDevice behind *)
(* all of them that keeps a single handle.  Calls are steps: what happens  *)
(* within one is in BLETransport.                                          *)
(*                                                                         *)
(* A pdevHandle, which is written once and never freed, is its content.    *)
(*                                                                         *)
(* External: the BLE library, which may give a link the number of one that *)
(* is gone and makes its callbacks in order, and the devices.              *)
(***************************************************************************)
EXTENDS XManager, Sequences

CONSTANTS
  Devs,       \* devices in reach, by UUID
  MaxLinks,   \* handles are 1 .. MaxLinks, 0 is none
  MaxConn     \* bound: successful connections

ASSUME RegistryAssumption ==
  MaxLinks \in Nat \ {0} /\ MaxConn \in Nat /\ NULL \notin Devs /\ NULL \notin 0 .. MaxLinks

Links == 1 .. MaxLinks

VARIABLES
  handles,     \* BLE_device_map
  tokens,      \* the IDs with a token in TokenManager
  _handle,     \* JubiterBLEDevice: 0 or a handle
  _bConnected,
  links,       \* external: the device behind each handle
  drops,       \* external: the devices whose loss is yet to be called back
  sent,        \* the last command: its ID, and the device it reached
  latest,      \* history: the device connected last
  conns        \* history: successful connections

vars == <<handles, tokens, _handle, _bConnected, links, drops, sent, latest, conns>>
registry == <<handles, tokens>>
history == <<latest, conns>>

NotSent == [id |-> 0, dev |-> NULL]
Linked(u) == \E h \in Links : links[h] = u

Init ==
  /\ handles = EmptyTable /\ tokens = {}
  /\ _handle = 0 /\ _bConnected = FALSE
  /\ links = [h \in Links |-> NULL] /\ drops = <<>>
  /\ sent = NotSent
  /\ latest = NULL /\ conns = 0

(* Mutant: the device keeps the link it has.                               *)
Record_first(h) ==
  IF _handle = 0 THEN _handle' = h /\ _bConnected' = TRUE ELSE UNCHANGED <<_handle, _bConnected>>

(* What JubiterBLEDevice::Connect records of a link.                       *)
Record(h) == _handle' = h /\ _bConnected' = TRUE

(* JUB_connectDevice.  The token is inserted, too, which keeps the one of  *)
(* an ID that comes round again.                                           *)
ConnectDevice(u, h) ==
  /\ conns < MaxConn /\ ~Linked(u) /\ links[h] = NULL
  /\ links' = [links EXCEPT ![h] = u]
  /\ Record(h)
  /\ handles' = AddOne(handles, h)
  /\ tokens' = tokens \cup {NextHandle(handles)}
  /\ latest' = u /\ conns' = conns + 1
  /\ UNCHANGED <<drops, sent>>

(* A connection that fails changes nothing: pdevHandle leaks.  One that is *)
(* cancelled, or that was not under way, costs the device its handle.      *)
CancelConnect ==
  /\ _handle' = 0 /\ _bConnected' = FALSE
  /\ UNCHANGED <<registry, links, drops, sent, history>>

(* Mutant: the ID is forgotten, the link not closed.                       *)
DisconnectDevice_forgets(i) ==
  /\ handles.map[i] # NULL
  /\ handles' = ClearOne(handles, i)
  /\ _handle' = 0 /\ _bConnected' = FALSE
  /\ UNCHANGED <<tokens, links, drops, sent, history>>

(* JUB_disconnectDevice: an ID keeps its handle and its token.  Closing a  *)
(* link that is gone may succeed.  On failure nothing changes.             *)
DisconnectDevice(i) ==
  /\ handles.map[i] # NULL
  /\ links' = [links EXCEPT ![handles.map[i]] = NULL]
  /\ _handle' = 0 /\ _bConnected' = FALSE
  /\ UNCHANGED <<registry, drops, sent, history>>

(* JUB_isDeviceConnect.                                                    *)
IsDeviceConnect(i) == handles.map[i] # NULL /\ links[handles.map[i]] # NULL

(* Any call that sends an APDU for ID i, JUB_QueryBattery for one: the     *)
(* device sends it over the handle it has, and reports what it got only    *)
(* if _bConnected.                                                         *)
Command(i) ==
  /\ i \in tokens
  /\ sent' = IF _handle # 0 /\ links[_handle] # NULL THEN [id |-> i, dev |-> links[_handle]] ELSE NotSent
  /\ UNCHANGED <<registry, _handle, _bConnected, links, drops, history>>

(* External.                                                               *)
DeviceDrops(h) ==
  /\ links[h] # NULL
  /\ links' = [links EXCEPT ![h] = NULL] /\ drops' = Append(drops, links[h])
  /\ UNCHANGED <<registry, _handle, _bConnected, sent, history>>

(* Mutant: a loss resets the status and not the handle.                    *)
DiscCallBack_status ==
  /\ drops # <<>> /\ drops' = Tail(drops)
  /\ _bConnected' = FALSE
  /\ UNCHANGED <<registry, _handle, links, sent, history>>

(* The device whose loss it is does not matter.                            *)
DiscCallBack ==
  /\ drops # <<>> /\ drops' = Tail(drops)
  /\ _handle' = 0 /\ _bConnected' = FALSE
  /\ UNCHANGED <<registry, links, sent, history>>

Next ==
  \/ \E u \in Devs, h \in Links : ConnectDevice(u, h)
  \/ CancelConnect
  \/ \E i \in Handles : DisconnectDevice(i) \/ Command(i)
  \/ \E h \in Links : DeviceDrops(h)
  \/ DiscCallBack

Spec == Init /\ [][Next]_vars

-----------------------------------------------------------------------------
(* Type correctness; IDs stay within the range of the counter that wraps.  *)
TypeOK ==
  /\ handles \in Table(Links) /\ tokens \subseteq Handles
  /\ _handle \in 0 .. MaxLinks /\ _bConnected \in BOOLEAN
  /\ links \in [Links -> Devs \cup {NULL}] /\ drops \in Seq(Devs)
  /\ sent \in [id : Handles \cup {0}, dev : Devs \cup {NULL}]
  /\ latest \in Devs \cup {NULL} /\ conns \in 0 .. MaxConn

(* A command that reaches a device reaches the one connected last, however *)
(* many are, whatever number the library gave its link and whatever ID the *)
(* caller named: with two devices connected, the second answers for both.  *)
LatestReached ==
  [][sent' # sent /\ sent'.dev # NULL => sent'.dev = latest]_vars

(* As long as no ID came round again, a link that is up has an ID that     *)
(* JUB_isDeviceConnect confirms and JUB_disconnectDevice can close it by.  *)
EveryLinkHasID ==
  conns <= MaxID => \A h \in Links : links[h] # NULL =>
                      \E i \in tokens : handles.map[i] = h /\ IsDeviceConnect(i)

(* The device's handle is that of a link, unless the callback about its    *)
(* loss is still to come; and the handle and the status agree.             *)
DeadHandleNoticed ==
  /\ _handle # 0 /\ links[_handle] = NULL => drops # <<>>
  /\ _bConnected <=> _handle # 0
=============================================================================
