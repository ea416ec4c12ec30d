# Verification of the JuBiter SDK

TLA+ models of JUB_SDK_CXX, the TLC configurations that check them on small
instances, and theorems about them that TLAPS checks for every value of the
constants. Paths below are relative to the repository.

## The system

The SDK is a C library (`include/JUB_SDK*.h`) that drives JuBiter hardware
wallets over USB HID or Bluetooth LE. A call of the API goes through four
layers:

    JUB_* functions          src/JUB_SDK_*.cpp
      contexts               src/context/        a coin on a device, with settings
        token                src/token/          the wallet as functions, each some APDUs
          device             src/device/         APDUs over HID reports or BLE packets

| Component | State it keeps | Operations | What makes it correct |
|---|---|---|---|
| Handle tables, `include/utility/xManager.hpp` | map from 16-bit handles to objects, `_last`, the counter `_ID` | AddOne, ClearOne, ClearLast, GetOne, GetHandleList | a handle denotes one live object and never comes to denote another |
| Context manager, `include/context/Context.h` | `_last` as a cache of the context the device is configured for | GetOne with activation | the cache is right whenever a command relies on it |
| Contexts, `src/context` | device ID, timeout, unit, coin type | create, clear, ActiveSelf, settings, commands | commands go to their own applet and settings, on the device of the context |
| Device list, `src/JUB_SDK_DEV_HID.cpp` | one token per HID path | JUB_ListDeviceHid | a context reaches its own device or none |
| Token, `src/token` | none of its own; the device has a selected applet and settings | select, settings, queries, signing in chunks | each function leaves the device as its callers assume |
| HID device, `src/device/JubiterHidDevice.cpp` | hidapi handle, path, `_bFirstCmd` | connect, disconnect, SendData with framing | the answer is that of the command; a frame can be read back |
| BLE transport, `src/device/JubiterBLEDevice.cpp`, `Fido.cpp` | `_handle`, `_bConnected`; receive buffer, index, error flag, condition variable | SendData, read and disconnect callbacks, connect, cancel, disconnect | a reply is one whole answer, in order; SendData returns; handle and link agree |
| BLE API, `src/JUB_SDK_DEV_BLE.cpp` | map from device ID to BLE handle | connect, cancel, disconnect, is-connected | an ID denotes its own link |
| Result memory, `src/JUB_SDK_COMM.cpp` | the set of buffers handed out | allocate, JUB_FreeMemory | every buffer is freed once |
| Android natives, `JubSDKDemo_Android/.../implJni.cpp` | one error code for all threads | a native per call of the SDK | results are used before they are freed, and freed |
| APDU and TLV coding, `src/utility/util.cpp`, `src/device/ApduBuilder.cpp` | none | pure functions | decoding inverts encoding |
| Transactions, `src/libBTC`, `src/libBCH`, `src/libETH` | none | pure functions over vendored libraries | the device reads what the caller gave |

Interactions: contexts find their token by device ID in the token manager at
every call; tokens own a device object, except that all BLE tokens share one
singleton. The BLE library (closed, under `deps/bleTransmit`) calls back on a
thread of its own. Nothing in the SDK takes a lock, apart from the mutex that
the condition variable of `Fido` needs, which protects no data.

What is hard here:

* the context manager skips the activation when it thinks the device is
  already configured, drops the activation's result when it is not, and nothing
  tells it of a reset, of an enumeration that moved the device to another
  applet, or of an object allocated where a deleted one was;
* an activation is a sequence of exchanges any of which can fail, or succeed
  with the answer lost;
* handles are 16 bits and wrap;
* over BLE, packets carry nothing that ties them to a command, commands that
  are given up on are answered late, the buffer is cleared by one thread while
  the other one fills it, and wakeups can be lost;
* connecting and losing the link write the same two fields on two threads, and
  all BLE devices share them;
* over USB, a read that times out closes the device, the next command opens it
  again, and what the device was still sending is there to be read;
* a signature is dozens of exchanges, and the device holds half a transaction
  after any that fails;
* every format has lengths, counts or numbers in one or two bytes.

## The modules

`XManager` — the handle table as a record and operators that return the table
after the call. `MaxID` stands for 65535.

`AppletSession` — the session layer. `tokens` and `contexts` are the two
managers, `heap` the context objects by address (addresses are freed and
reused), `device` the applet and settings each device has. `call` is the API
call in progress, with a program counter. A step is one APDU exchange, one
piece of host code between two exchanges, or a reset of a device.

| Code | Actions |
|---|---|
| JUB_ListDeviceHid | `ListDeviceHid`, `InsertToken`, `ListDone` |
| JUB_CreateContextBTC/ETH, JUB_ClearContext | `CreateContext*`, `ClearContext` |
| AutoContextManager::GetOne | `ContextCall` and the activation steps, `ActivationEnds` |
| ActiveSelf | `SelectApplet`, `ActivateTimeout`, `ActivateUnit`, `ActivateCoinType`, `CoinTypeUnknown` |
| JUB_SetUnitBTC, JUB_SetTimeOut | `CallSet*`, `StoreUnit`, `StoreTimeout`, `SendSetting` |
| addresses, keys, signatures, PIN, virtual keypad | `CallCommand`, `StartCommand`, `SendCommand`, `ReturnAtOnce` |
| JUB_IsBootLoader, GetDeviceInfo, GetDeviceCert | `CallMainDomain`, `SelectMain` |
| JUB_EnumApplets, Jub_EnumSupportCoins, JUB_GetAppletVersion | `CallEnum`, `CallGetAppletVersion`, `SelectMain`, `SelectForVersion`, `VersionsDone` |
| JUB_SendOneApdu | `SendOneApdu`, with an APDU that selects an applet |

An exchange ends in one of three ways: done; refused by the device or never
delivered; done with an error seen by the host. Every other query of the SDK
(serial number, label, battery, JUB_IsInitialize) leaves both sides as they
were and is left out.

`clean` is a history variable: the devices that nothing has disturbed since an
activation began. What disturbs a device is listed at `LastIsConfigured`. The
list is a part of what the property says: it names the ways the code
has of making its cache wrong, and the checks show that there is no other. One
exception is in `Configured` itself: a BTC applet that answers 0x6d00 to the
coin type APDU stays on its own coin, SetCoinTypeBTC takes that for success
(`CoinTypeUnknown`), and the coin type is claimed only of the other devices
(`CoinTyped`).

`BLETransport` — SendData and the connection calls on the caller's thread, the
callbacks on the library's, CancelConnect on any, and the link and the
peripheral as external actions. A step is one access of a thread to what both share, so `Fido::clear`
is two steps, the read callback is the sequence check, then the merge, then the
notification, the disconnect callback is its two stores and the
notification, and CancelConnect is its two stores (`CancelHandle`,
`CancelStatus`), between which a Connect that blocks on another thread may
succeed. A packet is a record of the command it answers (a number that
only the properties look at), its place and the number of packets. Waiting is
`WaitForReceive`, and from there a notification, a spurious wakeup or a timeout.
`torn` is a history variable: a packet was merged between the two steps of the
last clear; `raced`: a disconnect callback or a CancelConnect came across the last
Connect.

The buffer itself is written by one thread while the other clears it, which in
C++ is a data race; the model takes the clear and the insertion each as one
step, and says nothing of what a torn vector would do.

`ReplyOrder` — the abstract specification of the channel: replies come from
ever later commands, none twice. It is what a caller can rely on without
correlation identifiers, and it is weaker than "the reply is that of the last
command", which does not hold after a timeout.

`DeviceRegistry` — device IDs of `JUB_SDK_DEV_BLE.cpp` with several devices
behind the one JubiterBLEDevice. It EXTENDS `XManager`, whose table is the map
from IDs to BLE handles, and takes the steps of Connect and of the callback as
one, which `BLETransport` takes apart. Link numbers are used again by the
library; a link, its loss and the callback about it are external.

`HidDevice` — the life of a JubiterHidDevice. The caller's thread goes through
"init", "greeting", "write" and "read" of SendData, a step per report written
or read; `firstCmd` is `_bFirstCmd`. hidapi is external: a handle sees the
reports that arrive while it is open. So is the device, which loses power, gets
it back, answers INIT and commands in order, sends keep-alives, and goes on
with an answer nobody waits for: what a handle that is opened in the middle
reads is the rest of it. A write that reports an error may have reached the
device. Any first report may announce more than the caller's buffer holds: SendData
then fails and, unlike with every other error, keeps the handle (`ReadFirst`).

`HidFraming` — the bytes of one exchange over USB, as places in the message: the
writing loop and the reading loop of SendData, one report a step. The device
puts the reports together by the announced length.

`FidoFraming` — the bytes of one exchange over BLE: wrapFidoApdu, checkResponse
on every prefix of an answer, and parseFidoApdu with removePkgIndex.
`BLETransport` has packets as units and relies on this.

`SignProtocol` — SignTXBTC with `_TranPack` and the reading loop, and SignTXETH.
Data is a sequence of spans (of which request, which part, from where to
where), so that a lost, doubled or foreign chunk shows. Sending an APDU, its
execution by the device and the arrival of the answer are steps of their own.
The host may give up an APDU it waits for and go on to the next request, and what it
gave up may still be carried out and answered: the user who presses the button
late signs the old request while the new one is under way, and an answer can be
taken for that of a later APDU, as both transports allow. `crossed` is a history
variable: during this request an APDU was sent before an earlier one was
carried out and answered. The device is external. It is assumed to carry out
APDUs one after the other in the order they were sent, to take packs only after
a first one and to start anew with each, to drop the packs when it refuses an
APDU, and to lose everything with its power, which it may at any moment; what
other commands a session sends between two requests is left out.

`Signing` — the abstract specification: requests are asked for one after the
other, each is signed at most once and in that order, perhaps after its
call failed, and the caller is told done only if it was signed and cancelled only if it was not,
unless his call was crossed by one given up before it. `ImplementsSigning` maps the
protocol to it, with the sequence of all signatures the device made as what was signed.

`TxSerialize` — ContextBTC::SignTX up to the token: the list of change
outputs, one output a step, and the serialisation for BTC and for BCH as a sequence of named
fields. The properties are about a reader of the format, who finds fields by
the counts read before.

`Encoding`, `TlvParse`, `EthRequest` — the conversions of `util.cpp` and
`ERC20Abi.cpp` on bytes and hexadecimal digits; ParseTlv over an answer that
the device, which is external, writes TLV by TLV and that may be cut off, where a read beyond its end is the outcome "undefined"; and
JUB_BuildERC20AbiETH followed by JUB_SignTransactionETH, with the device
reading the APDU.

`Natives` — `_allocMem` and JUB_FreeMemory, and the Android natives that take
results from them, on several threads. A step is one call of the SDK, or the
making of a Java string, or a release: the calls are taken as atomic although
nothing in the SDK makes them so. The error code is not modelled (see below). Blocks are addresses that are used
again.

| Code | Actions |
|---|---|
| JubiterHidDevice::Connect, Disconnect, automatic connection | `HidDevice`: `Connect`, `HidInitFails`, `Disconnect`, `SendDataConnects` |
| JubiterHidDevice::SendData | `HidDevice`: `SendData`, `WriteInit` .. `ReturnReply`; `HidFraming`: `WritePacket` .. `ReadFails` |
| JubiterBLEDevice::Connect, CancelConnect | `BLETransport`: `Connect`, `ConnDev`, `StoreHandle`, `StoreStatus`, `CancelHandle`, `CancelStatus` |
| Fido::wrapFidoApdu | `FidoFraming`: `WrapHead`, `WrapNext` |
| Fido::RecvCallBack, checkResponse, parseFidoApdu | `FidoFraming`: `MergePacket`, `RemovePkgIndex`, `RemoveNext`, `RemoveCmdHead` |
| SignTXBTC, `_TranPack` | `SignProtocol`: `FirstPack`, `_TranPack`, `SignTransactions`, `ReadPiece`, `ReadRest`, `NothingLeft` |
| `_SendApdu`, an error of SendData while it waits | `SignProtocol`: `_SendApdu`, `Refused`, `Copy`; `GivesUp` |
| SignTXETH | `SignProtocol`: `SignETH`; `EthRequest`: `SignTransaction` |
| serializeUnsignedTx | `TxSerialize`: `Version`, `AddInput`, `InputsDone`, `AddOutput`, `OutputsDone` |
| EnumApplet, ParseTlv, Split | `TlvParse`: `ParseOne`, `ParseDone`, `Split` |
| JUB_connectDevice, JUB_cancelConnect, JUB_disconnectDevice | `DeviceRegistry`: `ConnectDevice`, `CancelConnect`, `DisconnectDevice` |
| natives of implJni.cpp | `Natives`: `Begin`, `SetUnit`, `SdkFails`, `_allocMem`, `Read`, `FreeResult`, `FreeAbi` |

`MCAppletSession`, `MCSignProtocol`, `MCNatives` — model values, lengths, and
symmetry sets. `Formats` — one specification for the five modules that are about
a format and have no state between two messages: a behaviour is one of
`HidFraming`, `FidoFraming`, `TlvParse`, `TxSerialize` and `EthRequest`, with
the variables of the others at rest. It EXTENDS the first and instantiates the
others; `MCFormats` gives it its values.

`X_proofs` — the theorems about `X`, for eight modules: `XManager`,
`AppletSession`, `BLETransport`, `DeviceRegistry`, `HidDevice`, `Formats`
(`HidFraming`, `FidoFraming`, `TxSerialize` and `TlvParse` in it), `SignProtocol` and `Natives`. The first holds the lemmas about handle tables that
the second and the fourth use.

Definitions named `Something_change`, marked "Mutant", are variants of the
definition that follows with a plausible mistake in them. They are not used by
any specification: each is there to show that some property notices it.

## The runs

| Run | Bounds | What it shows |
|---|---|---|
| `Session_cache` | 1 device with an old applet that resets, 2 addresses, 2 units, 2 timeouts, handles up to 2 | the cache and the handle tables are right under reset, address reuse, collisions and wraps, and when 0x6d00 is taken for success |
| `Session_devices` | 2 devices that come and go, 2 coin types, a refused timeout, 1 address, handles up to 2 | contexts keep their device; one cache for two devices, coin types included |
| `Session_pin` | 1 device, 1 address | a violation: see Findings |
| `BLE_stream` | 3 commands, 2 connections, answers of up to 3 packets | replies are whole but for a torn clear, bounded in their lag, and fresh until an error |
| `BLE_order` | 2 commands, 2 connections, answers of up to 4 packets with an index up to 1 | handle, status and link agree; the channel implements `ReplyOrder` |
| `BLE_return` | 2 commands, 2 connections, 2 packets, with fairness | SendData returns; a dead handle is dropped |
| `BLE_ids` | 2 devices, 3 IDs, 3 link numbers, 4 connections | every link keeps an ID; commands reach the device connected last; dead handles are noticed |
| `HID_life` | 3 commands, 3 handles, answers of up to 3 reports, with fairness | replies are the command's own unless the handle was opened mid-answer or an answer was too long; power loss is noticed; SendData ends |
| `Formats` | see below | what was written is what is read, at every limit |
| `Eth_input` | the request of `test/json/testETH.json` | a violation: see Findings |
| `Sign_protocol` | 2 requests, chunks of 230 and pieces of 256 bytes | what the device signs is what was asked, once, also when it signs late; the caller gets all of it; implements `Signing` |
| `Jni_memory` | 2 threads, 3 blocks, lists of 2 paths | results are own and allocated; who leaks |

Why the bounds are enough for what can go wrong. With two addresses and two
handles the counter wraps with one handle in use and the other free, an address
is reused while `_last` still points at it, and two contexts compete for a
device. 601 is a refused argument of JUB_SetTimeOut, 60 an accepted one. `Called` bounds
the calls that take a handle only: of those that do the same to the session, each of
the two runs makes one (`MCAppletSession`). The old
applet of `Session_cache` and the two coins of `Session_devices` are the two outcomes of
the coin type APDU. One
link to lose and another to find are two connections; three commands are a
completed one (which leaves a packet index behind), one that is given up on and
one that meets its late answer. Packets and the index bound are small, but four
packets with `MaxSeq = 1` reach the refusal that the code has at 0x7F.

Three connections use up the three IDs of `BLE_ids` and the fourth meets one
that is in use, and with three link numbers a number comes back while an old ID
still names it. In `HID_life` a command that times out, one that meets its late
answer and a third need three handles; an answer of three reports has a first one,
one that a new handle can begin with and one that is left after it. In `Sign_protocol` the lengths 229 to
231, 460 and 255 to 257, 600 are below, at and above one and two chunks or
pieces, and 2049 bytes exceed the buffer of an ETH signature; a second request
is what a failed first one could spoil, or a late signature of the first come across. In `Jni_memory` two natives hold three
results at most, and a native is run of each kind by what it does with them.

`Formats`: commands of 0 to 255 bytes and answers around 57 + 59k bytes for k
up to 4, around 256, around the buffer of 4102 bytes and around the report 187
whose mark is that of a keep-alive; BLE commands and answers of 0 to 130, 250 to
275 and up to the largest that fit (1943, 509); up to two TLVs with lengths
around 128, 256 and at 65535, cut by up to 5 bytes; transactions of up to two
inputs and three outputs of every type, and counts of 254 to 256; ETH numbers
around 16, 256 and 4096, and receivers and inputs with and without 0x, of even and of
odd length, in capitals and not, with a receiver of more than a word among them.

Deadlock is checked in every run but `Sign_protocol`, where the caller stops
after its two requests.

Symmetry: addresses are interchangeable in `Session_cache`, the paths in
`Session_devices`, where both devices are of one kind, and threads and blocks
in `Jni_memory`. Nothing compares or orders them, and none of these
runs has a liveness property.

Fairness: in `BLE_return`, `WF(SendDataStep)` is the caller's thread making
progress, with a `wait_for` that ends by itself; `WF(CallbackStep)` is the
library's thread making the callbacks it owes. Nothing is assumed of the
peripheral, the link, or the user. In `HID_life`, `WF(SendDataStep)` says that
hid_write ends and that hid_read_timeout ends, with a report or without; it says
nothing of the read of the answer to INIT, which has no timeout, and
`SendDataEnds` leaves that wait out. `WF(DeviceAnswers)` is a device that does not
work on one command for ever: every keep-alive starts the timeout again, so
that without it SendData need not end.

## Findings

`JubiterBLDImpl::VerifyPIN` says "select app first"
(`src/token/JubiterBLDImpl.cpp:275`), but the selection on the next line is
commented out. `Session_pin` shows a PIN sent while the main security domain is
selected: GetOne drops the failure of the activation. An enumeration of the
applets after the context was last used has the same effect without any error.

`ETHHexStr2CharPtr` makes no bytes, and no error, of a string without 0x
(`src/utility/util.cpp:169`). The repository's test passes such an input to
JUB_SignTransactionETH (`test/json/testETH.json:10`,
`test/JUB_SDK_test/JUB_SDK_test.cpp:796`) and prints what it gets as the signed
transaction. `Eth_input` is this request: what the device is given to sign has no
input at all. `DeviceReadsRequest` claims nothing of such strings.

The models also hold behaviour that a reader of the code may not expect, and
that no run states as a violation: a property names it as an exception or a
condition, or a definition has it as the code does:

* `src/device/Fido.cpp:57`: `clear` empties the buffer and then resets the index
  and `hasError`, and the read callback can run in between. A reply can then be
  put together from two answers. A late answer of three packets leaves the index
  at 1; the next command has emptied the buffer when the first packet of
  its predecessor's answer is merged; the second one is out of sequence, so
  `hasError` is set and what follows is dropped, up to the first packet of the new
  answer; then `hasError` is reset and the rest of the new answer fits behind the packet of
  the old one. It takes four commands (the first behaviour TLC found has 47
  steps) or two connections, a preempted callback and three commands. `ReplyWhole`
  excludes, by `torn`, exactly the commands whose clear was cut in two in this way,
  and is proved for all others. So is `FreshUntilAbandoned` only until the first command
  given up: an error that a late answer leaves behind may drop packets of the next one. The BLE library is closed, so whether its callbacks
  are ever that late is not known here.
* `src/device/JubiterHidDevice.cpp:132`: the high byte of the announced length is
  masked and not shifted, so it is always zero. A command of 256 bytes or more
  announces its length modulo 256. `CommandWhole` is checked and proved for up to
  255 bytes. With chunks of 230 bytes (`_TranPack`) a command stays below; the first
  pack of a BTC transaction with more than about thirty inputs, and an ETH
  request with a long input, do not.
* `src/device/JubiterHidDevice.cpp:187`: an answer longer than the caller's buffer is an
  error that keeps the handle open, and the commands that follow read the rest of that
  answer. `ReplyIsOwn` ends there.
* `src/device/JubiterHidDevice.cpp:61`: Disconnect clears `_bFirstCmd`, so that INIT is
  not sent again after a reconnection of the same object. `InitComesFirst` ends at the first close.
* `src/device/JubiterBLEDevice.cpp:191`: CancelConnect resets handle and status in two
  stores, on another thread than the one that blocks in Connect. If the connection succeeds
  between them, the device has a live handle and a status that says there is
  none, and every SendData fails. The same two stores of the disconnect callback can leave a
  handle of a link that is gone. Both are the exception `raced` of `HandleIsLive` and `StatusAgrees`.
* `src/token/JubiterBLDImplBTC.cpp:259`: an applet without the coin type APDU goes on
  with its own coin, whatever the context's is, and no caller is told. The exception in `Configured`.
* `src/token/JubiterBLDImplBTC.cpp:187`: nothing ties an answer to its APDU, so that a
  signing call that comes after one that was given up can return data of that one, and
  report success. `RawIsWhole` and `Signing` claim nothing of such a call (`crossed`);
  that every request is signed at most once and whole holds nevertheless.
* `src/token/JubiterBLDImplBTC.cpp:215`: the length of a piece is not compared with what
  was asked. A short one leaves zeros in the signed transaction; `RawIsWhole` leaves
  such calls out (`short`).
* `src/JUB_SDK_DEV_BLE.cpp:24` and `:96`: every BLE token is made for the same
  JubiterBLEDevice, so commands by any device ID reach the device connected last
  (`LatestReached` says so).
* `include/context/Context.h:46`: the result of the activation is dropped, and
  what moves the device elsewhere does not always clear the cache. These are the
  exceptions of `LastIsConfigured`.
* `src/libBTC/libBTC.cpp:68`: for a bech32 address the branches that make the
  script run on into `return JUBR_ERROR`, so such an output is never serialised.
* `src/libBTC/libBTC.cpp:103`: a BTC input that is not P2PKH is counted and left
  out, as is a BCH output that is neither P2PKH nor RETURN0; and counts are cut to a byte (`:85`).
  Conditions of `ReadsAsGiven`. BCH inputs take a fixed sequence number, not their own.
* `src/context/ContextETH.cpp:108`: what makes the device show a token transfer is
  that the text of the input begins with the method's. If the input has an odd number of digits,
  `HexStr2CharPtr` puts a zero before all of them, so that the bytes signed
  do not begin with the method: what is shown and what is signed differ.
  A condition of `TransferPays`, which is violated without it. `memcmp` also reads beyond the
  end of an input shorter than the ten characters of the method; the model compares what is there.
* `src/context/ContextETH.cpp:105`: the chain ID is cut to a byte.
* `JubSDKDemo_Android/.../implJni.cpp:606`: native_SetMyAddressETH has one
  parameter fewer than its declaration in Java
  (`NativeApi.java:77`: `change`, `index`), so what it takes for the index is `change`.
  Not modelled.
* `JubSDKDemo_Android/.../implJni.cpp:14`: `errorCode` is one variable for all threads, and
  Java reads it in a call of its own after a native failed (`JubiterImpl.java:120`). Natives
  that do not set it, or another thread in between, leave the error of another call
  there. Not modelled: no property about it holds of the code.

## The theorems

For every set of devices, addresses, units, coins and timeouts, and every
`MaxID` (`XManager!MaxIDAssumption`, `SessionAssumption`, `NullAssumption`):

* `TypeCorrect`, `NoDanglingHandle`, `HandleStable`, `NoLeak`, `DeviceKept`,
  `CacheNeverStale`, `CommandsConfigured`: all the properties of the runs
  `Session_*` that hold.

The argument has three layers. `Base` joins the type invariant, the shape of a
call in progress (a call past its first step has a context that is allocated
and a path) and `HandlesOwnContexts`; it is inductive because objects are
only freed with their handle, and an occupied handle keeps its object. `CacheByPC`
says for each program counter how much of the activation the device has already
accepted, if it is clean: nothing at "select", the applet at "timeout", and so on up to
everything at "check" and "send". It is needed because `LastIsConfigured` alone
says nothing about a call in progress, and `Base` is needed because two handles
of one object would let a call free the context another part relies on.
`DeviceInv` adds that a token handle that is unused and not yet issued has no
context made for it.

For every number of commands, connections and packets (`TransportAssumption`):

* `TransportTypeCorrect`: the type invariant, with the bound on the packet
  index and on the callbacks owed;
* `HandleLive` and `StatusAgreement`: `HandleIsLive` and `StatusAgrees`, from
  `HandleInv`. Its part `StoreInv` says what holds between FT_BLE_ConnDev and the
  two stores of Connect, and between the two stores of the disconnect callback and
  of CancelConnect;
* `RepliesOrdered`: the refinement of `ReplyOrder`. `OrderInv` lines up what is on
  its way: the buffer, the packet in a callback, the packets in flight, and the
  commands the peripheral has still to answer. `QueueInv`, `PacketInv` and
  `FirstInv` say that each of them comes before the next, command by command and
  within an answer packet by packet; `LatestInv` that whatever can start a reply
  belongs to a command later than the last one replied to. Handing a reply over is then a
  `HandOver`, sending a command a `Send`, and the other steps stutter;
* `LagBounded`: `LagInv` counts: each command SendData is done with was either
  replied to or given up on, and the replies are to different commands;
* `RepliesWhole`: `LinkInv` says that a continuation packet on the link follows the
  packet before it, `StreamInv` that what is in the buffer after an untorn clear is the
  beginning of one answer, and that the packet merged next goes on with it
  unless packets were dropped, which `hasError` then remembers;
* `FreshReceiver`, for answers of at most `MaxSeq + 2` packets (`AnswersFit`),
  which is as far as the index goes, 0x7F in the code: `FreshInv` says that until a
  command is given up on, the link is quiet between commands, and during one holds
  nothing but its answer.

For every number of device IDs, link numbers and devices (`RegistryAssumption`):

* `DeadHandleIsNoticed`, `LinksHaveIDs`, `LatestIsReached`: all that
  `BLE_ids` checks, and `RegistryTypeCorrect`. `RegistryInv` adds two facts.
  `Counted`: until an ID comes round, IDs are counted by the connections and
  those not yet issued have no handle, so a new link gets an ID of its own.
  `HandleIsLatest`: a handle whose link is up is that of the device connected
  last; with it `LatestReached`, about a step, follows from the state before it.

For every number of commands, handles and reports of an answer
(`HidAssumption`):

* `LossIsNoticed` and `InitIsFirst`, and `HandleKnown` (no handle of hidapi is
  left open that the object has forgotten, unless it is connected twice), from
  `LifeInv`: how the handle, the thread and the power go together (`Life`,
  `Known`), what a loss of power can be while the caller has not seen it
  (`Unheard`), and that INIT is sent or still to come (`Greeting`).
* `ReplyStaysOwn`. `Own` says that on a handle opened on a quiet device, and until an
  answer is refused as too long, the
  reports read, those that wait and those yet to be sent are one
  answer in order, to the command sent last, with at most one keep-alive before
  it. `ReplyIsOwn` alone speaks of the reports that were read and is not inductive.
* `HidTypeCorrect`.

For commands and answers of any length (`FramingAssumption`):

* `CommandIsWhole`, for commands of at most 255 bytes: a byte the device has put
  together is the byte of the command at that place, and what it has is what the
  loop has written.
* `AnswerIsWhole`, for a buffer of at most 57 + 59 * 187 bytes, which keeps the
  index of a report away from the mark of a keep-alive (`_SendApdu` gives 4102):
  the reading loop is as far as the reports it has taken.
* `FramingTypeCorrect`, in which nothing is copied beyond the end of the vector.

For commands and answers over BLE of every length that `sendMsg` and `tempMsg`
hold (`FormatAssumption`):

* `WrapsRight` and `ParsesRight`: wrapFidoApdu makes the frame of the command, and
  checkResponse and parseFidoApdu make the payload of the frame. `FidoInv` is
  what the three loops keep. `WrapInv`: what is wrapped so far is the frame up to
  the end of packet `fIndex`. `ReceiveInv`: what is merged is the frame up to the
  end of a packet; what removePkgIndex has is header and payload up to there,
  and the next byte it looks at is an index. Lemmas say what a part of
  a frame is byte by byte, and that two parts that meet make one.

For transactions of any number of inputs and outputs (`FormatAssumption`, which
says what a transaction is):

* `TxReadsRight`: `ReadsAsGiven`, with the conditions it names itself. It speaks of
  the finished transaction; `TxInv` says where its fields are after every turn of
  every loop (`InputsInv`, `OutputsInv`: so many fields before the inputs, four for
  an input, a count, two for an output), and `Told` that the list of change has
  exactly the change among the outputs looked at so far.

For answers of any number of values of up to 65535 bytes, cut off anywhere
(`FormatAssumption`: longer values do not fit the two bytes of a length):

* `TlvFindsWhole`: `FindsWholeValues`. `TlvLayout` says where each TLV of the answer
  begins, and that the bytes of its length are there as far as the answer goes;
  `ParseInv` that ParseTlv stands where a TLV begins and has the values
  before it. `LengthRead` is the lemma that the length read is the one written, for the
  three ways of writing it.

For every ETH request and token transfer whose numbers and strings have at most
65535 bytes (`FormatAssumption`, for the same reason):

* `EthReadsRight` and `TransferPaysRight`: `DeviceReadsRequest`, which is about strings
  with 0x, and `TransferPays`.
  `numberToHexString` is a recursive function, so these need induction over
  data. The library's induction theorems take an operator as parameter; here
  `StrongInduction` takes a set instead, and follows from the least element of a set
  that is not empty (`WFMin`, a library theorem without such a parameter).
  With it `HexExists` shows that a function with the recursion's equation exists, `HexIs`
  that `numberToHexString` satisfies it, and `NumberIs` the same of `NumberOf`. `NumberWrites`: the bytes
  made of a number write that number, and begin with no zero but for 0
  itself. `NumberAfterZeros`: zeros before them, as in a word of the ABI, change nothing.
  `RequestLaid`: the request is eight TLVs, and where each begins (`Layout`); with
  `TakenApart`, that a TLV is read as it was written, `EthInv` says that the
  device is where one of them begins and has the values before it. Where the properties
  speak of strings, they say what each digit of the bytes is
  (`Spells`, `EndsIn`), which keeps odd lengths and zeros apart.

For every number of threads, blocks and rounds (`NativesAssumption`):

* `ResultsStayOwn` and `NativesTypeCorrect`, from `MemoryInv`, which adds that a
  thread's two results are two blocks: freeing one would otherwise free the other;
* `OthersAlwaysFree`, from `NativeInv`: which results a thread
  holds at each of its steps (`StageInv`), and that an allocated block that is not
  tracked holds an empty string (`Tracked`).

For every length of chunk, piece, TLV and signed transaction (`SignAssumption`):

* `SignTypeCorrect`, `RawWhole`, and `SigningImplemented`, the refinement of
  `Signing`, for any number of requests and of APDUs given up. All rest on `SignInv`.
  `WaitInv`: a request is busy exactly while the thread is in it. `LineInv`: the APDUs on
  their way are in order, the device is ready for the first (it holds the
  chunks before it, or starts anew with it), and the one to be sent next may
  stand behind the last. `SignedInv`: only whole requests are signed. `OrderInv`: later
  ones than those signed before and than those on their way, which makes it once.
  `QuietInv`: in a call that nothing came across, what is on its way is at most its own
  APDU or the answer to it. `ReadInv`: the pieces read are a beginning of this
  request's signed transaction. `RawIsWhole` speaks of the end only, and is not inductive.

### Only model-checked

* `SendDataReturns`, `DeadHandleDropped`, `SendDataEnds`: liveness under fairness
  and with it ENABLED, out of the prover's reach.

## Not modelled

* Two callers at once. `AppletSession` takes one at a time; the Android demo
  starts threads of its own, and nothing in the code says what a caller may then
  rely on. `Natives` has threads, but no device.
* The data of the commands that only ask (addresses, keys, labels, versions).
* The conversion from JSON in the natives, the natives that return a number, and
  `errorCode`.
* `ApduBuilder`: a concatenation, its own specification.
* Scanning, initialisation and the iOS-only `ExtraSetting` of BLE; they pass on
  to the closed library.
* `ClearAll` and what else happens when the process exits, and hid_exit, which
  `Disconnect` calls for all HID devices at once.
* What happens beyond the sizes of `sendMsg` and `tempMsg`, which is undefined in
  C++. Answers and chunked commands stay below them; an ETH request is as long as
  its input.
* Hashes, address checks and big numbers, which vendored libraries do.
* Logging, the USB monitor, the iOS bindings, the demos.

`PROJECT.json` has the reason for each part, and the hazards no property covers, most of
them because what goes wrong is what the code does: Findings lists these.

## Plan

Done: the session, both transports and their framing, the BLE IDs, the signing
protocol, the conversions and serialisers, result memory and the natives, with
proofs in eight modules. What is left, most important first:

1. `ConcurrentCalls`: two callers of the session without a lock; which
   properties of `AppletSession` survive.
2. An abstract session, in which every command is executed under its own
   context, and `AppletSession` as an implementation of it while its devices
   are undisturbed.
