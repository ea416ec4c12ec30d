--------------------------- MODULE AppletSession ----------------------------
(***************************************************************************)
(* The session layer of the SDK: contexts (a coin, a device and settings), *)
(* the manager that hands them out, and the one applet a JuBiter device    *)
(* has selected.  A context call is a sequence of APDUs; before its own    *)
(* APDUs it has to bring the device to the context's applet and settings   *)
(* (ActiveSelf).  AutoContextManager::GetOne skips that when the context   *)
(* is the one it handed out last, so _last is a cache of what the device   *)
(* is configured for, and this module is about when that cache is right.   *)
(*                                                                         *)
(* The SDK has one caller at a time (nothing in it locks), and every step  *)
(* here is one APDU exchange of that caller, one piece of host code        *)
(* between two exchanges, or a reset of a device at any moment.            *)
(***************************************************************************)
EXTENDS XManager

CONSTANTS
  Path,         \* HID paths, one per physical device
  CoinTyped,    \* the devices whose BTC applet knows the set-coin-type APDU
  Resettable,   \* the devices that may lose power during the run
  Addr,         \* heap addresses of context objects; freed ones are reused
  Unit, mBTC,   \* JUB_BTC_UNIT_TYPE and the one a context starts with
  Coin, COINBTC,\* JUB_ENUM_COINTYPE_BTC and the one old applets imply
  TimeoutArg,   \* the arguments JUB_SetTimeOut is called with
  Called        \* bound: which of the calls that take a handle only are made

ASSUME SessionAssumption ==
  /\ CoinTyped \subseteq Path
  /\ Resettable \subseteq Path
  /\ mBTC \in Unit
  /\ COINBTC \in Coin
  /\ TimeoutArg \subseteq Nat
  /\ NULL \notin Path
  /\ NULL \notin Addr
  /\ NULL \notin Unit

VARIABLES
  tokens,    \* TokenManager: handle -> path of the token's device
  contexts,  \* ContextManager: handle -> address of the context
  heap,      \* address -> context object, NULL where nothing is allocated
  device,    \* external: what each device has selected and was last told
  call,      \* the API call in progress
  clean,     \* history: the devices nothing has disturbed since ActiveSelf
  collided,  \* history: a new context has met an occupied handle
  reissued   \* history: the token handles have wrapped round

vars == <<tokens, contexts, heap, device, call, clean, collided, reissued>>

-----------------------------------------------------------------------------
(* Contexts and devices.                                                   *)

DefaultTimeout == 120 * 2
MaxTimeoutArg == 600
Timeout == {DefaultTimeout} \cup {2 * t : t \in {n \in TimeoutArg : n <= MaxTimeoutArg}}

ContextType == {"BTC", "ETH"}
Applet == {"Main", "BTC", "ETH", "FIDO"}

(* An ETH context has no unit and no coin type: the fields keep the values *)
(* they start with.  home is history: the device the context was made for. *)
Context ==
  [type : ContextType, dev : Handles, timeout : Timeout,
   unit : Unit, coin : Coin, home : Path]

ASSUME NullAssumption == NULL \notin Context

DeviceState ==
  [applet : Applet, timeout : Timeout \cup {0}, unit : Unit \cup {NULL}, coin : Coin]

PowerOn == [applet |-> "Main", timeout |-> 0, unit |-> NULL, coin |-> COINBTC]

(* The device a context reaches: TokenManager looked up with _deviceID.    *)
PathOf(a) == tokens.map[heap[a].dev]

(* Everything ActiveSelf is there to establish for context c on device p   *)
(* in state d, with one exception: a BTC applet without the coin type APDU *)
(* stays on its own coin, whatever the context's is.                       *)
Configured(c, p, d) ==
  /\ d.applet = c.type
  /\ d.timeout = c.timeout
  /\ c.type = "BTC" => d.unit = c.unit
  /\ c.type = "BTC" /\ p \in CoinTyped => d.coin = c.coin

-----------------------------------------------------------------------------
(* The call in progress.  ctx is the context GetOne returned (or Create    *)
(* allocated), path the device the call talks to (NULL if it has none),    *)
(* arg the setting the call is given, todo what a loop of it has left.     *)

BTCOps == {"CommandBTC", "BuildUSDTOutputs", "SetUnitBTC"}
ETHOps == {"CommandETH", "BuildERC20AbiETH"}
AnyTypeOps == {"VerifyPIN", "SetTimeOut"}
ContextOps == BTCOps \cup ETHOps \cup AnyTypeOps
HostOps == {"BuildUSDTOutputs", "BuildERC20AbiETH"}
CommandOps == {"CommandBTC", "CommandETH", "VerifyPIN"}
MainDomainOps == {"IsBootLoader", "GetDeviceInfo", "GetDeviceCert"}
EnumOps == {"EnumApplets", "EnumSupportCoins"}

ActivationPC == {"select", "timeout", "unit", "coin"}
PC == ActivationPC \cup {"idle", "check", "send", "main", "versions", "insert"}

Idle ==
  [pc |-> "idle", op |-> "none", ctx |-> NULL, path |-> NULL, arg |-> NULL, todo |-> {}]

Return == call' = Idle
Goto(pc) == call' = [call EXCEPT !.pc = pc]

(* What an APDU exchange can come to: done, refused by the device (or not  *)
(* delivered), or done by the device while the host sees an error.         *)
Outcome == {"ok", "refused", "lost"}

(* Device p carries out an exchange that sets one field of its state.      *)
Exchange(p, field, value, o) ==
  device' = IF o = "refused" THEN device ELSE [device EXCEPT ![p][field] = value]

-----------------------------------------------------------------------------
Init ==
  /\ tokens = EmptyTable
  /\ contexts = EmptyTable
  /\ heap = [a \in Addr |-> NULL]
  /\ device = [p \in Path |-> PowerOn]
  /\ call = Idle
  /\ clean = {}
  /\ collided = FALSE
  /\ reissued = FALSE

-----------------------------------------------------------------------------
(* The device list.  JUB_ListDeviceHid first drops the tokens whose path   *)
(* is gone, then walks the paths present in the order hidapi lists them.   *)
(* TokenManager's _last, which every lookup of a token sets and nothing    *)
(* reads, is left out.                                                     *)

ListDeviceHid ==
  /\ call.pc = "idle"
  /\ \E present \in SUBSET Path :
       /\ tokens' = [tokens EXCEPT !.map =
            [h \in Handles |-> IF @[h] \in present THEN @[h] ELSE NULL]]
       /\ call' = [Idle EXCEPT !.pc = "insert", !.op = "ListDeviceHid", !.todo = present]
  /\ UNCHANGED <<contexts, heap, device, clean, collided, reissued>>

InsertToken ==
  /\ call.pc = "insert"
  /\ \E p \in call.todo :
       /\ call' = [call EXCEPT !.todo = @ \ {p}]
       /\ IF p \in Objects(tokens)
            THEN UNCHANGED <<tokens, clean, reissued>>
            ELSE /\ tokens' = AddOne(tokens, p)
                 /\ clean' = clean \ {p}
                 /\ reissued' = (reissued \/ tokens.id = MaxID)
  /\ UNCHANGED <<contexts, heap, device, collided>>

ListDone ==
  /\ call.pc = "insert"
  /\ call.todo = {}
  /\ Return
  /\ UNCHANGED <<tokens, contexts, heap, device, clean, collided, reissued>>

-----------------------------------------------------------------------------
(* Creating and clearing contexts.                                         *)

NewContext(type, h, coin) ==
  [type |-> type, dev |-> h, timeout |-> DefaultTimeout,
   unit |-> mBTC, coin |-> coin, home |-> tokens.map[h]]

(* A fresh object at any free address, a handle for it, and then ActiveSelf *)
(* on the object itself: _last is not touched.                              *)
CreateContext(type, h, coin) ==
  /\ call.pc = "idle"
  /\ tokens.map[h] # NULL
  /\ \E a \in {x \in Addr : heap[x] = NULL} :
       /\ heap' = [heap EXCEPT ![a] = NewContext(type, h, coin)]
       /\ contexts' = AddOne(contexts, a)
       /\ collided' = (collided \/ contexts.map[NextHandle(contexts)] # NULL)
       /\ call' = [Idle EXCEPT !.pc = "select", !.op = "Create",
                               !.ctx = a, !.path = tokens.map[h]]
       /\ clean' = IF contexts.last = a THEN clean \cup {tokens.map[h]}
                                        ELSE clean \ {tokens.map[h]}
  /\ UNCHANGED <<tokens, device, reissued>>

CreateContextBTC == \E h \in Handles, c \in Coin : CreateContext("BTC", h, c)
CreateContextETH == \E h \in Handles : CreateContext("ETH", h, COINBTC)

(* Mutant: the object is deleted and the handle kept.                      *)
ClearContext_keepsHandle ==
  /\ call.pc = "idle"
  /\ \E h \in GetHandleList(contexts) :
       heap' = [heap EXCEPT ![contexts.map[h]] = NULL]
  /\ UNCHANGED <<tokens, contexts, device, call, clean, collided, reissued>>

(* Mutant: the handle is erased and the object kept.                       *)
ClearContext_keepsObject ==
  /\ call.pc = "idle"
  /\ \E h \in GetHandleList(contexts) : contexts' = ClearOne(contexts, h)
  /\ UNCHANGED <<tokens, heap, device, call, clean, collided, reissued>>

ClearContext ==
  /\ call.pc = "idle"
  /\ \E h \in GetHandleList(contexts) :
       /\ heap' = [heap EXCEPT ![contexts.map[h]] = NULL]
       /\ contexts' = ClearOne(contexts, h)
  /\ UNCHANGED <<tokens, device, call, clean, collided, reissued>>

-----------------------------------------------------------------------------
(* A context call.  AutoContextManager::GetOne activates the context when  *)
(* it is not the last one, whatever comes of that, and makes it the last.  *)
(* The second GetOne of the call finds it there and does nothing.          *)

ContextCall(op, h, arg) ==
  /\ call.pc = "idle"
  /\ contexts.map[h] # NULL
  /\ LET a    == contexts.map[h]
         p    == PathOf(a)
         hit  == contexts.last = a
         asks == ~hit /\ p # NULL   \* ActiveSelf gets as far as an APDU
     IN  /\ call' = [Idle EXCEPT !.pc = IF asks THEN "select" ELSE "check",
                                 !.op = op, !.ctx = a, !.path = p, !.arg = arg]
         /\ contexts' = IF asks THEN contexts ELSE SetLast(contexts, a)
         /\ clean' = IF asks THEN clean \cup {p} ELSE clean
  /\ UNCHANGED <<tokens, heap, device, collided, reissued>>

CallCommand ==
  \E op \in Called \cap (CommandOps \cup HostOps), h \in Handles : ContextCall(op, h, NULL)
CallSetUnitBTC == \E h \in Handles, u \in Unit : ContextCall("SetUnitBTC", h, u)
CallSetTimeOut == \E h \in Handles, t \in TimeoutArg : ContextCall("SetTimeOut", h, t)

(* ActiveSelf: select the applet, then the timeout, and for BTC the unit   *)
(* and the coin type; the first failure ends it.  In a Create the call     *)
(* returns then, in a context call GetOne drops the result.                *)

ActivationEnds ==
  IF call.op = "Create"
    THEN Return /\ UNCHANGED contexts
    ELSE Goto("check") /\ contexts' = SetLast(contexts, call.ctx)

ActivationStep(field, value, next) ==
  /\ \E o \in Outcome :
       /\ Exchange(call.path, field, value, o)
       /\ IF o = "ok"
            THEN /\ IF next = "done" THEN ActivationEnds ELSE Goto(next) /\ UNCHANGED contexts
                 /\ UNCHANGED clean
            ELSE ActivationEnds /\ clean' = clean \ {call.path}
  /\ UNCHANGED <<tokens, heap, collided, reissued>>

SelectApplet ==
  /\ call.pc = "select"
  /\ ActivationStep("applet", heap[call.ctx].type, "timeout")

(* Mutant: the activation ends with the timeout.                           *)
ActivateTimeout_last ==
  /\ call.pc = "timeout"
  /\ ActivationStep("timeout", heap[call.ctx].timeout, "done")

ActivateTimeout ==
  /\ call.pc = "timeout"
  /\ ActivationStep("timeout", heap[call.ctx].timeout,
                    IF heap[call.ctx].type = "BTC" THEN "unit" ELSE "done")

(* Mutant: the activation ends with the unit.                              *)
ActivateUnit_last ==
  /\ call.pc = "unit"
  /\ ActivationStep("unit", heap[call.ctx].unit, "done")

ActivateUnit ==
  /\ call.pc = "unit"
  /\ ActivationStep("unit", heap[call.ctx].unit, "coin")

ActivateCoinType ==
  /\ call.pc = "coin"
  /\ call.path \in CoinTyped
  /\ ActivationStep("coin", heap[call.ctx].coin, "done")

(* An applet without the APDU answers 0x6d00, which SetCoinTypeBTC takes   *)
(* for success whatever the context's coin is: the device stays on its own. *)
CoinTypeUnknown ==
  /\ call.pc = "coin"
  /\ call.path \notin CoinTyped
  /\ ActivationEnds
  /\ \E answered \in BOOLEAN :
       clean' = IF answered THEN clean ELSE clean \ {call.path}
  /\ UNCHANGED <<tokens, heap, device, collided, reissued>>

-----------------------------------------------------------------------------
(* The body of the call, once GetOne has returned the context.  A setting  *)
(* is stored in the context before the device is looked up or asked.       *)

WrongType ==
  \/ call.op \in BTCOps /\ heap[call.ctx].type # "BTC"
  \/ call.op \in ETHOps /\ heap[call.ctx].type # "ETH"

(* JUBR_ARGUMENTS_BAD, JUBR_ERROR_ARGS, JUBR_MEMORY_NULL_PTR, or a call     *)
(* that needs no device: they leave with the activation already done.      *)
ReturnAtOnce ==
  /\ call.pc = "check"
  /\ \/ WrongType
     \/ call.op \in HostOps
     \/ call.op = "SetTimeOut" /\ call.arg > MaxTimeoutArg
     \/ call.op \in CommandOps /\ call.path = NULL
  /\ Return
  /\ UNCHANGED <<tokens, contexts, heap, device, clean, collided, reissued>>

StartCommand ==
  /\ call.pc = "check"
  /\ call.op \in CommandOps
  /\ ~WrongType
  /\ call.path # NULL
  /\ Goto("send")
  /\ UNCHANGED <<tokens, contexts, heap, device, clean, collided, reissued>>

AfterStore == IF call.path = NULL THEN Return ELSE Goto("send")

StoreUnit ==
  /\ call.pc = "check"
  /\ call.op = "SetUnitBTC"
  /\ ~WrongType
  /\ heap' = [heap EXCEPT ![call.ctx].unit = call.arg]
  /\ AfterStore
  /\ UNCHANGED <<tokens, contexts, device, clean, collided, reissued>>

(* Mutant: the argument is not checked first.                              *)
StoreTimeout_unchecked ==
  /\ call.pc = "check"
  /\ call.op = "SetTimeOut"
  /\ heap' = [heap EXCEPT ![call.ctx].timeout = call.arg * 2]
  /\ AfterStore
  /\ UNCHANGED <<tokens, contexts, device, clean, collided, reissued>>

StoreTimeout ==
  /\ call.pc = "check"
  /\ call.op = "SetTimeOut"
  /\ call.arg <= MaxTimeoutArg
  /\ heap' = [heap EXCEPT ![call.ctx].timeout = call.arg * 2]
  /\ AfterStore
  /\ UNCHANGED <<tokens, contexts, device, clean, collided, reissued>>

(* The APDUs of an address, a public key, a PIN or a signature: they do    *)
(* not move the device to another applet or change a setting.              *)
SendCommand ==
  /\ call.pc = "send"
  /\ call.op \in CommandOps
  /\ Return
  /\ UNCHANGED <<tokens, contexts, heap, device, clean, collided, reissued>>

SendSetting ==
  /\ call.pc = "send"
  /\ \E o \in Outcome :
       /\ \/ /\ call.op = "SetUnitBTC"
             /\ Exchange(call.path, "unit", heap[call.ctx].unit, o)
          \/ /\ call.op = "SetTimeOut"
             /\ Exchange(call.path, "timeout", heap[call.ctx].timeout, o)
       /\ clean' = IF o = "refused" THEN clean \ {call.path} ELSE clean
  /\ Return
  /\ UNCHANGED <<tokens, contexts, heap, collided, reissued>>

-----------------------------------------------------------------------------
(* Calls on a device handle, which go round the contexts.                  *)

DeviceCall(op, h, pc, todo) ==
  /\ call.pc = "idle"
  /\ tokens.map[h] # NULL
  /\ call' = [Idle EXCEPT !.pc = pc, !.op = op, !.path = tokens.map[h], !.todo = todo]
  /\ UNCHANGED <<tokens, heap, device, clean, collided, reissued>>

(* Mutant: the last context is not forgotten.                              *)
CallMainDomain_keepsLast ==
  /\ \E op \in Called \cap MainDomainOps, h \in Handles : DeviceCall(op, h, "main", {})
  /\ UNCHANGED contexts

(* JUB_IsBootLoader, which GetDeviceInfo and GetDeviceCert call first,     *)
(* forgets the last context before it selects the main security domain.    *)
CallMainDomain ==
  /\ \E op \in Called \cap MainDomainOps, h \in Handles : DeviceCall(op, h, "main", {})
  /\ contexts' = ClearLast(contexts)

CallEnum ==
  /\ \E op \in Called \cap EnumOps, h \in Handles : DeviceCall(op, h, "main", {})
  /\ UNCHANGED contexts

CallGetAppletVersion ==
  /\ \E h \in Handles, app \in Applet \ {"Main"} :
       DeviceCall("GetAppletVersion", h, "versions", {app})
  /\ UNCHANGED contexts

(* The main domain is selected for the call's own queries, which change    *)
(* nothing.  EnumSupportCoins goes on to the version of every applet it    *)
(* found; any set of them may be installed.                                *)
SelectMain ==
  /\ call.pc = "main"
  /\ \E o \in Outcome, found \in SUBSET (Applet \ {"Main"}) :
       /\ Exchange(call.path, "applet", "Main", o)
       /\ clean' = IF call.op \in EnumOps THEN clean \ {call.path} ELSE clean
       /\ IF call.op = "EnumSupportCoins" /\ o = "ok"
            THEN call' = [call EXCEPT !.pc = "versions", !.todo = found]
            ELSE Return
  /\ UNCHANGED <<tokens, contexts, heap, collided, reissued>>

(* GetAppletVersion selects the applet to read its version, and leaves it  *)
(* selected; an error ends the enumeration.                                *)
SelectForVersion ==
  /\ call.pc = "versions"
  /\ \E app \in call.todo, o \in Outcome :
       /\ Exchange(call.path, "applet", app, o)
       /\ IF o = "ok" THEN call' = [call EXCEPT !.todo = @ \ {app}] ELSE Return
  /\ clean' = clean \ {call.path}
  /\ UNCHANGED <<tokens, contexts, heap, collided, reissued>>

VersionsDone ==
  /\ call.pc = "versions"
  /\ call.todo = {}
  /\ Return
  /\ UNCHANGED <<tokens, contexts, heap, device, clean, collided, reissued>>

(* A raw APDU of the caller's: here, one that selects an applet.           *)
SendOneApdu ==
  /\ call.pc = "idle"
  /\ \E p \in Objects(tokens), app \in Applet, o \in Outcome :
       /\ Exchange(p, "applet", app, o)
       /\ clean' = clean \ {p}
  /\ UNCHANGED <<tokens, contexts, heap, call, collided, reissued>>

(* External: the device loses power or is plugged in again at the same     *)
(* path.  JubiterHidDevice::SendData reconnects without telling anyone.    *)
DeviceReset(p) ==
  /\ p \in Resettable
  /\ device' = [device EXCEPT ![p] = PowerOn]
  /\ clean' = clean \ {p}
  /\ UNCHANGED <<tokens, contexts, heap, call, collided, reissued>>

-----------------------------------------------------------------------------
CallerStep ==
  \/ ListDeviceHid \/ InsertToken \/ ListDone
  \/ CreateContextBTC \/ CreateContextETH \/ ClearContext
  \/ CallCommand \/ CallSetUnitBTC \/ CallSetTimeOut
  \/ SelectApplet \/ ActivateTimeout \/ ActivateUnit
  \/ ActivateCoinType \/ CoinTypeUnknown
  \/ ReturnAtOnce \/ StartCommand \/ StoreUnit \/ StoreTimeout
  \/ SendCommand \/ SendSetting
  \/ CallMainDomain \/ CallEnum \/ CallGetAppletVersion
  \/ SelectMain \/ SelectForVersion \/ VersionsDone \/ SendOneApdu

Next == CallerStep \/ \E p \in Path : DeviceReset(p)

Spec == Init /\ [][Next]_vars

-----------------------------------------------------------------------------
(* Type correctness of the session's state.                                *)
TypeOK ==
  /\ tokens \in Table(Path)
  /\ contexts \in Table(Addr)
  /\ heap \in [Addr -> Context \cup {NULL}]
  /\ device \in [Path -> DeviceState]
  /\ call \in [pc : PC,
               op : ContextOps \cup MainDomainOps \cup EnumOps \cup
                    {"none", "Create", "ListDeviceHid", "GetAppletVersion"},
               ctx : Addr \cup {NULL},
               path : Path \cup {NULL},
               arg : Unit \cup TimeoutArg \cup {NULL},
               todo : SUBSET (Path \cup Applet)]
  /\ clean \subseteq Path
  /\ collided \in BOOLEAN
  /\ reissued \in BOOLEAN

(* The cache is right: between calls, the context _last points to is the   *)
(* one its device is configured for, unless something disturbed the device *)
(* since: a reset, a token listed anew, an exchange of ActiveSelf or of a  *)
(* setting that failed, a context created while another was last, an       *)
(* applet enumeration or version query, or a raw APDU.  Nothing else may:  *)
(* not a call on the main security domain, not another context's call, not *)
(* a context freed and another allocated at the address _last still holds. *)
(* The coin type is only claimed of devices whose applet can be told it: an *)
(* older applet answers 0x6d00, the code takes that for success, and the   *)
(* device is then on its own coin whatever the context says.               *)
LastIsConfigured ==
  call.pc = "idle" =>
    \A a \in Addr :
      contexts.last = a /\ heap[a] # NULL /\ PathOf(a) \in clean
        => Configured(heap[a], PathOf(a), device[PathOf(a)])

(* What the cache is for: a command of a context (an address, a signature, *)
(* a PIN) goes to a device that has the context's applet selected and its  *)
(* timeout, unit and coin type in force, with the same exceptions, the one *)
(* for the coin type of an older applet among them.                        *)
CommandUnderOwnSettings ==
  call.pc = "send" /\ call.op \in CommandOps /\ call.path \in clean
    => Configured(heap[call.ctx], call.path, device[call.path])

(* Every handle of the context table denotes an allocated context, and no  *)
(* two handles the same one: a call never follows a dangling pointer and   *)
(* clearing a context never frees one that another handle still denotes.   *)
HandlesOwnContexts ==
  /\ \A h \in GetHandleList(contexts) : heap[contexts.map[h]] # NULL
  /\ \A g, h \in GetHandleList(contexts) :
       contexts.map[g] = contexts.map[h] => g = h

(* Contexts are only lost (allocated, and out of reach of every handle)    *)
(* once the counter has come round to a handle still in use.               *)
NoLeakBeforeCollision ==
  ~collided => \A a \in Addr : heap[a] # NULL => a \in Objects(contexts)

(* A context reaches the device it was created for or none at all, however *)
(* devices come and go, until the token handles wrap round.                *)
ContextKeepsDevice ==
  ~reissued => \A a \in Addr :
                 heap[a] # NULL => PathOf(a) \in {heap[a].home, NULL}

(* No step makes a handle that denotes a context denote another one: not a *)
(* wrap of the counter either.                                             *)
HandleKeepsContext ==
  [][\A h \in GetHandleList(contexts) :
       contexts'.map[h] \in {contexts.map[h], NULL}]_vars

(* JubiterBLDImpl::VerifyPIN says "select app first": the PIN is only sent *)
(* to a device on the context's own applet.                                *)
PINUnderSelectedApplet ==
  call.pc = "send" /\ call.op = "VerifyPIN"
    => device[call.path].applet = heap[call.ctx].type
=============================================================================
