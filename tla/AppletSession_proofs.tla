------------------------ MODULE AppletSession_proofs ------------------------
(***************************************************************************)
(* Proofs about AppletSession, for every number of devices, contexts,      *)
(* handles and settings.  Base (types, what a call in progress holds on    *)
(* to, who owns a context) is inductive by itself.  On top of it stand     *)
(* CacheByPC, which says for each point of a call how far the device has   *)
(* been brought to the call's context and what that leaves of the promise  *)
(* of _last, and DeviceInv, which says why a context keeps its device.     *)
(***************************************************************************)
EXTENDS AppletSession, XManager_proofs

(* The promise of the cache, at any moment.                                *)
CacheRight ==
  \A a \in Addr :
    contexts.last = a /\ heap[a] # NULL /\ PathOf(a) \in clean
      => Configured(heap[a], PathOf(a), device[PathOf(a)])

(* What the call in progress holds on to.                                  *)
CallShape ==
  /\ call.pc \in ActivationPC \cup {"check", "send"} =>
       call.ctx \in Addr /\ heap[call.ctx] # NULL /\ call.path = PathOf(call.ctx)
  /\ call.pc \in ActivationPC =>
       call.path \in Path /\ call.op \in ContextOps \cup {"Create"}
  /\ call.pc \in {"check", "send"} =>
       call.op \in ContextOps /\ contexts.last = call.ctx
  /\ call.pc \in {"send", "main", "versions"} => call.path \in Path
  /\ call.pc = "main" /\ call.op \in MainDomainOps => contexts.last = NULL
  /\ call.pc = "main" => call.op \in MainDomainOps \cup EnumOps
  /\ call.op = "SetUnitBTC" => call.arg \in Unit
  /\ call.op = "SetTimeOut" => call.arg \in TimeoutArg
  /\ call.pc = "insert" => call.todo \subseteq Path
  /\ call.pc = "versions" => call.todo \subseteq Applet

(* A context created while another is last leaves its device disturbed.    *)
CreatedBeside == call.op = "Create" /\ contexts.last # call.ctx

(* ActiveSelf has come as far as the pc says.                              *)
ActivationProgress ==
  LET c == heap[call.ctx]
      d == device[call.path]
  IN  call.path \in clean =>
        /\ call.pc \in {"timeout", "unit", "coin"} => d.applet = c.type
        /\ call.pc \in {"unit", "coin"} => d.timeout = c.timeout
        /\ call.pc = "coin" => d.unit = c.unit

(* A setting that is stored and not yet sent is the only difference.       *)
SettingPending ==
  LET c == heap[call.ctx]
      d == device[call.path]
  IN  call.path \in clean =>
        /\ call.op = "SetUnitBTC" => Configured(c, call.path, [d EXCEPT !.unit = c.unit])
        /\ call.op = "SetTimeOut" => Configured(c, call.path, [d EXCEPT !.timeout = c.timeout])

CacheByPC ==
  /\ call.pc \in {"idle", "check", "insert", "main", "versions"} => CacheRight
  /\ call.pc = "send" /\ call.op \in CommandOps => CacheRight
  /\ call.pc = "send" /\ call.op \notin CommandOps => SettingPending
  /\ call.pc \in ActivationPC /\ CreatedBeside => CacheRight /\ call.path \notin clean
  /\ call.pc \in ActivationPC /\ ~CreatedBeside => ActivationProgress

(* Token handles only grow until they wrap, so a handle that a context     *)
(* holds is never one that is still to be issued.                          *)
HandlesIssued ==
  ~reissued =>
    /\ \A h \in GetHandleList(tokens) : h <= tokens.id
    /\ \A a \in Addr : heap[a] # NULL => heap[a].dev <= tokens.id

Base == TypeOK /\ CallShape /\ HandlesOwnContexts

DeviceInv == HandlesIssued /\ ContextKeepsDevice

-----------------------------------------------------------------------------
(* The types of what the calls pass around.                                *)
LEMMA ContextFields ==
  ASSUME TypeOK, NEW a \in Addr, heap[a] # NULL
  PROVE  /\ heap[a] \in Context
         /\ heap[a].type \in ContextType
         /\ heap[a].dev \in Handles
         /\ heap[a].timeout \in Timeout
         /\ heap[a].unit \in Unit
         /\ heap[a].coin \in Coin
         /\ PathOf(a) \in Path \cup {NULL}
  BY DEF TypeOK, Context, PathOf, Table

LEMMA ExchangeType ==
  ASSUME TypeOK, NEW p \in Path, NEW o \in Outcome,
         NEW field, NEW value, Exchange(p, field, value, o),
         \/ field = "applet" /\ value \in Applet
         \/ field = "timeout" /\ value \in Timeout
         \/ field = "unit" /\ value \in Unit
         \/ field = "coin" /\ value \in Coin
  PROVE  /\ device' \in [Path -> DeviceState]
         /\ \A q \in Path : q # p => device'[q] = device[q]
         /\ o # "refused" => device'[p] = [device[p] EXCEPT ![field] = value]
  <1>1. /\ device \in [Path -> DeviceState]
        /\ device[p] \in DeviceState
    BY DEF TypeOK
  <1>2. CASE o = "refused"
    BY <1>1, <1>2 DEF Exchange
  <1>3. CASE o # "refused"
    <2>1. device' = [device EXCEPT ![p] = [device[p] EXCEPT ![field] = value]]
      BY <1>3 DEF Exchange
    <2>2. [device[p] EXCEPT ![field] = value] \in DeviceState
      <3>1. CASE field = "applet" /\ value \in Applet
        BY <1>1, <3>1 DEF DeviceState
      <3>2. CASE field = "timeout" /\ value \in Timeout
        BY <1>1, <3>2 DEF DeviceState
      <3>3. CASE field = "unit" /\ value \in Unit
        BY <1>1, <3>3 DEF DeviceState
      <3>4. CASE field = "coin" /\ value \in Coin
        BY <1>1, <3>4 DEF DeviceState
      <3>5. QED
        BY <3>1, <3>2, <3>3, <3>4
    <2>3. QED
      BY <1>1, <1>3, <2>1, <2>2
  <1>4. QED
    BY <1>2, <1>3

-----------------------------------------------------------------------------
(* The types, the shape of the call and the ownership of contexts.         *)

CallType ==
  [pc : PC,
   op : ContextOps \cup MainDomainOps \cup EnumOps \cup
        {"none", "Create", "ListDeviceHid", "GetAppletVersion"},
   ctx : Addr \cup {NULL},
   path : Path \cup {NULL},
   arg : Unit \cup TimeoutArg \cup {NULL},
   todo : SUBSET (Path \cup Applet)]

LEMMA IdleType == Idle \in CallType
  BY DEF Idle, CallType, PC

LEMMA BaseInit == Init => Base
  <1> SUFFICES ASSUME Init PROVE Base
    OBVIOUS
  <1>1. EmptyTable \in Table(Path) /\ EmptyTable \in Table(Addr)
    BY MaxIDAssumption DEF EmptyTable, Table, MaxIDAssumption
  <1>2. [p \in Path |-> PowerOn] \in [Path -> DeviceState]
    BY SessionAssumption DEF SessionAssumption, PowerOn, DeviceState, Applet
  <1>3. TypeOK
    BY <1>1, <1>2, IdleType DEF Init, TypeOK, CallType
  <1>4. CallShape
    BY DEF Init, CallShape, Idle, ActivationPC
  <1>5. HandlesOwnContexts
    BY DEF Init, HandlesOwnContexts, EmptyTable, GetHandleList
  <1>6. QED
    BY <1>3, <1>4, <1>5 DEF Base

LEMMA BaseListDeviceHid == Base /\ ListDeviceHid => Base'
  <1> SUFFICES ASSUME Base, ListDeviceHid PROVE Base'
    OBVIOUS
  <1> USE DEF Base
  <1>1. PICK present \in SUBSET Path :
          /\ tokens' = [tokens EXCEPT !.map =
               [h \in Handles |-> IF @[h] \in present THEN @[h] ELSE NULL]]
          /\ call' = [Idle EXCEPT !.pc = "insert", !.op = "ListDeviceHid", !.todo = present]
    BY DEF ListDeviceHid
  <1>2. tokens' \in Table(Path)
    BY <1>1 DEF TypeOK, Table
  <1>3. call' \in CallType
    BY <1>1 DEF Idle, CallType, PC
  <1>4. TypeOK'
    BY <1>2, <1>3 DEF ListDeviceHid, TypeOK, CallType
  <1>5. CallShape'
    BY <1>1 DEF CallShape, Idle, ActivationPC
  <1>6. HandlesOwnContexts'
    BY DEF ListDeviceHid, HandlesOwnContexts, GetHandleList
  <1>7. QED
    BY <1>4, <1>5, <1>6

LEMMA BaseInsertToken == Base /\ InsertToken => Base'
  <1> SUFFICES ASSUME Base, InsertToken PROVE Base'
    OBVIOUS
  <1> USE DEF Base
  <1>1. PICK p \in call.todo :
          /\ call' = [call EXCEPT !.todo = @ \ {p}]
          /\ IF p \in Objects(tokens)
               THEN UNCHANGED <<tokens, clean, reissued>>
               ELSE /\ tokens' = AddOne(tokens, p)
                    /\ clean' = clean \ {p}
                    /\ reissued' = (reissued \/ tokens.id = MaxID)
    BY DEF InsertToken
  <1>2. p \in Path
    BY DEF InsertToken, CallShape
  <1>3. tokens' \in Table(Path)
    BY <1>1, <1>2, AddOneType DEF TypeOK
  <1>4. /\ call' \in CallType /\ call'.pc = "insert" /\ call'.todo \subseteq Path
        /\ call'.op = call.op /\ call'.arg = call.arg
    BY <1>1 DEF TypeOK, CallType, CallShape, InsertToken
  <1>5. TypeOK'
    BY <1>1, <1>3, <1>4 DEF InsertToken, TypeOK, CallType
  <1>6. CallShape'
    BY <1>4 DEF CallShape, ActivationPC
  <1>7. HandlesOwnContexts'
    BY DEF InsertToken, HandlesOwnContexts, GetHandleList
  <1>8. QED
    BY <1>5, <1>6, <1>7

LEMMA BaseReturn ==
  ASSUME Base, Return, UNCHANGED <<tokens, contexts, heap, collided, reissued>>,
         device' \in [Path -> DeviceState], clean' \subseteq Path
  PROVE  Base'
  BY IdleType DEF Base, Return, TypeOK, CallType, CallShape, Idle, ActivationPC,
                  HandlesOwnContexts, GetHandleList

LEMMA BaseCreateContext ==
  ASSUME Base, NEW type \in ContextType, NEW h \in Handles, NEW coin \in Coin,
         CreateContext(type, h, coin)
  PROVE  Base'
  <1> USE DEF Base
  <1>1. PICK a \in Addr :
          /\ heap[a] = NULL
          /\ heap' = [heap EXCEPT ![a] = NewContext(type, h, coin)]
          /\ contexts' = AddOne(contexts, a)
          /\ collided' = (collided \/ contexts.map[NextHandle(contexts)] # NULL)
          /\ call' = [Idle EXCEPT !.pc = "select", !.op = "Create",
                                  !.ctx = a, !.path = tokens.map[h]]
          /\ clean' = IF contexts.last = a THEN clean \cup {tokens.map[h]}
                                           ELSE clean \ {tokens.map[h]}
    BY DEF CreateContext
  <1>2. tokens.map[h] \in Path /\ UNCHANGED <<tokens, device, reissued>>
    BY DEF CreateContext, TypeOK, Table
  <1>3. NewContext(type, h, coin) \in Context /\ NewContext(type, h, coin) # NULL
    <2>1. NewContext(type, h, coin) \in Context
      BY <1>2, SessionAssumption DEF Context, NewContext, Timeout, SessionAssumption
    <2>2. QED
      BY <2>1, NullAssumption DEF NullAssumption
  <1>4. contexts' \in Table(Addr)
    BY <1>1, AddOneType DEF TypeOK
  <1>5. call' \in CallType
    BY <1>1, <1>2 DEF Idle, CallType, PC, ActivationPC
  <1>6. TypeOK'
    BY <1>1, <1>2, <1>3, <1>4, <1>5 DEF TypeOK, CallType
  <1>7. CallShape'
    BY <1>1, <1>2, <1>3 DEF CallShape, Idle, ActivationPC, PathOf, NewContext, TypeOK
  <1>8. HandlesOwnContexts'
    BY <1>1, <1>3, NextHandleInRange DEF HandlesOwnContexts, GetHandleList, AddOne, TypeOK, Table
  <1>9. QED
    BY <1>6, <1>7, <1>8

LEMMA BaseClearContext == Base /\ ClearContext => Base'
  <1> SUFFICES ASSUME Base, ClearContext PROVE Base'
    OBVIOUS
  <1> USE DEF Base
  <1>1. PICK h \in GetHandleList(contexts) :
          /\ heap' = [heap EXCEPT ![contexts.map[h]] = NULL]
          /\ contexts' = ClearOne(contexts, h)
    BY DEF ClearContext
  <1>2. h \in Handles /\ contexts.map[h] \in Addr
    BY DEF GetHandleList, TypeOK, Table
  <1>3. contexts' \in Table(Addr)
    BY <1>1, <1>2, TableOpsType DEF TypeOK
  <1>4. TypeOK'
    BY <1>1, <1>3 DEF ClearContext, TypeOK
  <1>5. CallShape'
    BY DEF ClearContext, CallShape, ActivationPC
  <1>6. HandlesOwnContexts'
    BY <1>1, <1>2 DEF HandlesOwnContexts, GetHandleList, ClearOne, TypeOK, Table
  <1>7. QED
    BY <1>4, <1>5, <1>6

(* A step of a context call that leaves the contexts where they are.       *)
LEMMA BaseInCall ==
  ASSUME Base, call' \in CallType,
         UNCHANGED <<tokens, collided, reissued>>,
         device' \in [Path -> DeviceState], clean' \subseteq Path,
         heap' \in [Addr -> Context \cup {NULL}],
         \A a \in Addr : /\ heap[a] = NULL <=> heap'[a] = NULL
                         /\ heap[a] # NULL => heap'[a].dev = heap[a].dev,
         contexts' \in Table(Addr), contexts'.map = contexts.map,
         call'.ctx = call.ctx, call'.path = call.path, call'.op = call.op,
         call'.arg = call.arg, call'.ctx \in Addr, heap[call.ctx] # NULL, call.path = PathOf(call.ctx),
         \/ /\ call'.pc \in ActivationPC
            /\ call.path \in Path /\ call.op \in ContextOps \cup {"Create"}
         \/ /\ call'.pc \in {"check", "send"}
            /\ call.op \in ContextOps /\ contexts'.last = call.ctx
            /\ call'.pc = "send" => call.path \in Path
  PROVE  Base'
  <1> USE DEF Base
  <1>1. TypeOK'
    BY DEF TypeOK, CallType
  <1>2. CallShape'
    BY DEF CallShape, ActivationPC, PathOf
  <1>3. HandlesOwnContexts'
    BY DEF HandlesOwnContexts, GetHandleList, TypeOK, Table
  <1>4. QED
    BY <1>1, <1>2, <1>3

LEMMA BaseContextCall ==
  ASSUME Base, NEW op \in ContextOps, NEW h \in Handles,
         NEW arg \in Unit \cup TimeoutArg \cup {NULL}, ContextCall(op, h, arg),
         op = "SetUnitBTC" => arg \in Unit, op = "SetTimeOut" => arg \in TimeoutArg
  PROVE  Base'
  <1> USE DEF Base
  <1> DEFINE a    == contexts.map[h]
             p    == PathOf(a)
             asks == ~(contexts.last = a) /\ p # NULL
  <1>1. /\ call' = [Idle EXCEPT !.pc = IF asks THEN "select" ELSE "check",
                                !.op = op, !.ctx = a, !.path = p, !.arg = arg]
        /\ contexts' = IF asks THEN contexts ELSE SetLast(contexts, a)
        /\ clean' = IF asks THEN clean \cup {p} ELSE clean
        /\ UNCHANGED <<tokens, heap, device, collided, reissued>>
    BY DEF ContextCall
  <1>2. a \in Addr /\ heap[a] # NULL
    BY DEF ContextCall, TypeOK, Table, HandlesOwnContexts, GetHandleList
  <1>3. p \in Path \cup {NULL}
    BY <1>2, ContextFields
  <1>4. /\ contexts' \in Table(Addr)
        /\ contexts'.map = contexts.map
        /\ ~asks => contexts'.last = a
    BY <1>1, <1>2, TableOpsType DEF TypeOK, SetLast, Table
  <1>5. call' \in CallType
    BY <1>1, <1>2, <1>3 DEF Idle, CallType, PC, ActivationPC
  <1>6. TypeOK'
    BY <1>1, <1>3, <1>4, <1>5 DEF TypeOK, CallType
  <1>7. CallShape'
    BY <1>1, <1>2, <1>3, <1>4 DEF CallShape, Idle, ActivationPC, PathOf
  <1>8. HandlesOwnContexts'
    BY <1>1, <1>4 DEF HandlesOwnContexts, GetHandleList
  <1>9. QED
    BY <1>6, <1>7, <1>8

(* What ActiveSelf sends is well typed, and where it goes on.              *)
LEMMA BaseActivationStep ==
  ASSUME Base, call.pc \in ActivationPC, NEW field, NEW value, NEW next,
         ActivationStep(field, value, next),
         next \in {"timeout", "unit", "coin", "done"},
         \/ field = "applet" /\ value \in Applet
         \/ field = "timeout" /\ value \in Timeout
         \/ field = "unit" /\ value \in Unit
         \/ field = "coin" /\ value \in Coin
  PROVE  Base'
  <1> USE DEF Base
  <1>1. PICK o \in Outcome :
          /\ Exchange(call.path, field, value, o)
          /\ IF o = "ok"
               THEN /\ IF next = "done" THEN ActivationEnds ELSE Goto(next) /\ UNCHANGED contexts
                    /\ UNCHANGED clean
               ELSE ActivationEnds /\ clean' = clean \ {call.path}
    BY DEF ActivationStep
  <1>2. /\ call.ctx \in Addr /\ heap[call.ctx] # NULL /\ call.path = PathOf(call.ctx)
        /\ call.path \in Path /\ call.op \in ContextOps \cup {"Create"}
    BY DEF CallShape
  <1>3. device' \in [Path -> DeviceState] /\ clean' \subseteq Path
    BY <1>1, <1>2, ExchangeType DEF TypeOK
  <1>4. CASE ActivationEnds /\ call.op = "Create"
    BY <1>3, <1>4, BaseReturn DEF ActivationEnds, ActivationStep
  <1>5. CASE ActivationEnds /\ call.op # "Create"
    <2>1. call' = [call EXCEPT !.pc = "check"] /\ contexts' = SetLast(contexts, call.ctx)
      BY <1>5 DEF ActivationEnds, Goto
    <2>2. /\ contexts' \in Table(Addr)
          /\ contexts'.map = contexts.map /\ contexts'.last = call.ctx
      BY <1>2, <2>1, TableOpsType DEF TypeOK, SetLast, Table
    <2>3. /\ call' \in CallType /\ call'.pc = "check"
          /\ call'.ctx = call.ctx /\ call'.path = call.path
          /\ call'.op = call.op /\ call'.arg = call.arg
      BY <2>1 DEF TypeOK, CallType, PC
    <2>4. QED
      BY <1>2, <1>3, <1>5, <2>2, <2>3, BaseInCall DEF ActivationStep, TypeOK
  <1>6. CASE Goto(next) /\ UNCHANGED contexts /\ next # "done"
    <2>1. /\ call' \in CallType /\ call'.pc \in ActivationPC
          /\ call'.ctx = call.ctx /\ call'.path = call.path
          /\ call'.op = call.op /\ call'.arg = call.arg
      BY <1>6 DEF Goto, TypeOK, CallType, PC, ActivationPC
    <2>2. QED
      BY <1>2, <1>3, <1>6, <2>1, BaseInCall DEF ActivationStep, TypeOK
  <1>7. QED
    BY <1>1, <1>4, <1>5, <1>6

LEMMA BaseActivation ==
  Base /\ (SelectApplet \/ ActivateTimeout \/ ActivateUnit \/ ActivateCoinType
           \/ CoinTypeUnknown) => Base'
  <1> SUFFICES ASSUME Base, SelectApplet \/ ActivateTimeout \/ ActivateUnit
                            \/ ActivateCoinType \/ CoinTypeUnknown
               PROVE  Base'
    OBVIOUS
  <1> USE DEF Base
  <1>1. call.pc \in ActivationPC
    BY DEF SelectApplet, ActivateTimeout, ActivateUnit, ActivateCoinType,
           CoinTypeUnknown, ActivationPC
  <1>2. /\ call.ctx \in Addr /\ heap[call.ctx] # NULL
        /\ call.path = PathOf(call.ctx) /\ call.path \in Path
        /\ call.op \in ContextOps \cup {"Create"}
    BY <1>1 DEF CallShape
  <1>3. /\ heap[call.ctx].type \in Applet
        /\ heap[call.ctx].timeout \in Timeout
        /\ heap[call.ctx].unit \in Unit
        /\ heap[call.ctx].coin \in Coin
    BY <1>2, ContextFields DEF ContextType, Applet
  <1>4. CASE SelectApplet
    BY <1>1, <1>3, <1>4, BaseActivationStep DEF SelectApplet
  <1>5. CASE ActivateTimeout
    BY <1>1, <1>3, <1>5, BaseActivationStep DEF ActivateTimeout
  <1>6. CASE ActivateUnit
    BY <1>1, <1>3, <1>6, BaseActivationStep DEF ActivateUnit
  <1>7. CASE ActivateCoinType
    BY <1>1, <1>3, <1>7, BaseActivationStep DEF ActivateCoinType
  <1>8. CASE CoinTypeUnknown
    <2>1. clean' \subseteq Path /\ device' \in [Path -> DeviceState]
      BY <1>8 DEF CoinTypeUnknown, TypeOK
    <2>2. CASE call.op = "Create"
      BY <1>8, <2>1, <2>2, BaseReturn DEF CoinTypeUnknown, ActivationEnds
    <2>3. CASE call.op # "Create"
      <3>1. /\ call' = [call EXCEPT !.pc = "check"]
            /\ contexts' = SetLast(contexts, call.ctx)
        BY <1>8, <2>3 DEF CoinTypeUnknown, ActivationEnds, Goto
      <3>2. /\ contexts' \in Table(Addr)
            /\ contexts'.map = contexts.map /\ contexts'.last = call.ctx
        BY <1>2, <3>1, TableOpsType DEF TypeOK, SetLast, Table
      <3>3. /\ call' \in CallType /\ call'.pc = "check"
            /\ call'.ctx = call.ctx /\ call'.path = call.path
            /\ call'.op = call.op /\ call'.arg = call.arg
        BY <3>1 DEF TypeOK, CallType, PC
      <3>4. QED
        BY <1>2, <1>8, <2>1, <2>3, <3>2, <3>3, BaseInCall DEF CoinTypeUnknown, TypeOK
    <2>4. QED
      BY <2>2, <2>3
  <1>9. QED
    BY <1>4, <1>5, <1>6, <1>7, <1>8

(* A setting is stored in the context of the call and nowhere else.        *)
LEMMA StoredContext ==
  ASSUME Base, StoreUnit \/ StoreTimeout
  PROVE  \E c \in Context : /\ heap' = [heap EXCEPT ![call.ctx] = c]
                            /\ c.dev = heap[call.ctx].dev
                            /\ c.home = heap[call.ctx].home
  <1> USE DEF Base
  <1>1. heap[call.ctx] \in Context
    BY ContextFields DEF CallShape, StoreUnit, StoreTimeout
  <1>2. CASE StoreUnit
    <2>1. [heap[call.ctx] EXCEPT !.unit = call.arg] \in Context
      BY <1>1, <1>2 DEF StoreUnit, CallShape, Context
    <2>2. QED
      BY <1>1, <1>2, <2>1 DEF StoreUnit, Context
  <1>3. CASE StoreTimeout
    <2>1. call.arg * 2 \in Timeout
      BY <1>3, SessionAssumption DEF StoreTimeout, CallShape, Timeout, SessionAssumption
    <2>2. [heap[call.ctx] EXCEPT !.timeout = call.arg * 2] \in Context
      BY <1>1, <2>1 DEF Context
    <2>3. QED
      BY <1>1, <1>3, <2>2 DEF StoreTimeout, Context
  <1>4. QED
    BY <1>2, <1>3

LEMMA BaseStore == Base /\ (StoreUnit \/ StoreTimeout) => Base'
  <1> SUFFICES ASSUME Base, StoreUnit \/ StoreTimeout PROVE Base'
    OBVIOUS
  <1> USE DEF Base
  <1>1. /\ call.ctx \in Addr /\ heap[call.ctx] # NULL
        /\ call.path = PathOf(call.ctx) /\ call.path \in Path \cup {NULL}
        /\ call.op \in ContextOps /\ contexts.last = call.ctx /\ call.pc = "check"
    BY ContextFields DEF CallShape, StoreUnit, StoreTimeout
  <1>2. PICK c \in Context :
          heap' = [heap EXCEPT ![call.ctx] = c] /\ c.dev = heap[call.ctx].dev
    BY StoredContext
  <1>3. /\ heap' \in [Addr -> Context \cup {NULL}]
        /\ \A a \in Addr : /\ heap[a] = NULL <=> heap'[a] = NULL
                           /\ heap[a] # NULL => heap'[a].dev = heap[a].dev
    BY <1>1, <1>2, NullAssumption DEF TypeOK, NullAssumption
  <1>4. UNCHANGED <<tokens, contexts, device, clean, collided, reissued>> /\ AfterStore
    BY DEF StoreUnit, StoreTimeout
  <1>5. CASE call.path = NULL
    <2>1. Return
      BY <1>4, <1>5 DEF AfterStore
    <2>2. TypeOK'
      BY <1>3, <1>4, <2>1, IdleType DEF Return, TypeOK, CallType
    <2>3. CallShape' /\ HandlesOwnContexts'
      BY <1>3, <1>4, <2>1 DEF Return, Idle, CallShape, ActivationPC,
         HandlesOwnContexts, GetHandleList, TypeOK, Table
    <2>4. QED
      BY <2>2, <2>3
  <1>6. CASE call.path # NULL
    <2>1. /\ call' \in CallType /\ call'.pc = "send"
          /\ call'.ctx = call.ctx /\ call'.path = call.path
          /\ call'.op = call.op /\ call'.arg = call.arg
      BY <1>4, <1>6 DEF AfterStore, Goto, TypeOK, CallType, PC
    <2>2. QED
      BY <1>1, <1>3, <1>4, <1>6, <2>1, BaseInCall DEF TypeOK
  <1>7. QED
    BY <1>5, <1>6

LEMMA BaseSendSetting == Base /\ SendSetting => Base'
  <1> SUFFICES ASSUME Base, SendSetting PROVE Base'
    OBVIOUS
  <1> USE DEF Base
  <1>1. /\ call.ctx \in Addr /\ heap[call.ctx] # NULL /\ call.path \in Path
    BY DEF SendSetting, CallShape
  <1>2. PICK o \in Outcome :
          /\ \/ Exchange(call.path, "unit", heap[call.ctx].unit, o)
             \/ Exchange(call.path, "timeout", heap[call.ctx].timeout, o)
          /\ clean' = IF o = "refused" THEN clean \ {call.path} ELSE clean
    BY DEF SendSetting
  <1>3. device' \in [Path -> DeviceState]
    BY <1>1, <1>2, ContextFields, ExchangeType
  <1>4. clean' \subseteq Path
    BY <1>2 DEF TypeOK
  <1>5. QED
    BY <1>3, <1>4, BaseReturn DEF SendSetting

LEMMA BaseDeviceCall ==
  ASSUME Base, NEW op, NEW h \in Handles, NEW pc, NEW todo,
         DeviceCall(op, h, pc, todo),
         \/ /\ op \in MainDomainOps /\ pc = "main" /\ todo = {}
            /\ contexts' = ClearLast(contexts)
         \/ op \in EnumOps /\ pc = "main" /\ todo = {} /\ contexts' = contexts
         \/ /\ op = "GetAppletVersion" /\ pc = "versions"
            /\ todo \subseteq Applet /\ contexts' = contexts
  PROVE  Base'
  <1> USE DEF Base
  <1>1. /\ call' = [Idle EXCEPT !.pc = pc, !.op = op, !.path = tokens.map[h], !.todo = todo]
        /\ UNCHANGED <<tokens, heap, device, clean, collided, reissued>>
        /\ tokens.map[h] \in Path
    BY DEF DeviceCall, TypeOK, Table
  <1>2. /\ contexts' \in Table(Addr) /\ contexts'.map = contexts.map
        /\ op \in MainDomainOps => contexts'.last = NULL
    BY TableOpsType DEF TypeOK, ClearLast, Table, MainDomainOps, EnumOps
  <1>3. call' \in CallType
    BY <1>1 DEF Idle, CallType, PC
  <1>4. TypeOK'
    BY <1>1, <1>2, <1>3 DEF TypeOK, CallType
  <1>5. CallShape'
    BY <1>1, <1>2 DEF CallShape, Idle, ActivationPC, MainDomainOps, EnumOps
  <1>6. HandlesOwnContexts'
    BY <1>1, <1>2 DEF HandlesOwnContexts, GetHandleList
  <1>7. QED
    BY <1>4, <1>5, <1>6

LEMMA BaseSelectMain == Base /\ SelectMain => Base'
  <1> SUFFICES ASSUME Base, SelectMain PROVE Base'
    OBVIOUS
  <1> USE DEF Base
  <1>1. PICK o \in Outcome, found \in SUBSET (Applet \ {"Main"}) :
          /\ Exchange(call.path, "applet", "Main", o)
          /\ clean' = IF call.op \in EnumOps THEN clean \ {call.path} ELSE clean
          /\ IF call.op = "EnumSupportCoins" /\ o = "ok"
               THEN call' = [call EXCEPT !.pc = "versions", !.todo = found]
               ELSE Return
    BY DEF SelectMain
  <1>2. call.path \in Path /\ UNCHANGED <<tokens, contexts, heap, collided, reissued>>
    BY DEF SelectMain, CallShape
  <1>3. device' \in [Path -> DeviceState] /\ clean' \subseteq Path
    BY <1>1, <1>2, ExchangeType DEF TypeOK, Applet
  <1>4. CASE Return
    BY <1>2, <1>3, <1>4, BaseReturn
  <1>5. CASE call.op = "EnumSupportCoins" /\ call' = [call EXCEPT !.pc = "versions", !.todo = found]
    <2>1. call' \in CallType
      BY <1>5 DEF TypeOK, CallType, PC
    <2>2. TypeOK'
      BY <1>2, <1>3, <2>1 DEF TypeOK, CallType
    <2>3. CallShape' /\ HandlesOwnContexts'
      BY <1>2, <1>5 DEF CallShape, ActivationPC, HandlesOwnContexts, GetHandleList,
         TypeOK, CallType
    <2>4. QED
      BY <2>2, <2>3
  <1>6. QED
    BY <1>1, <1>4, <1>5

LEMMA BaseSelectForVersion == Base /\ SelectForVersion => Base'
  <1> SUFFICES ASSUME Base, SelectForVersion PROVE Base'
    OBVIOUS
  <1> USE DEF Base
  <1>1. PICK app \in call.todo, o \in Outcome :
          /\ Exchange(call.path, "applet", app, o)
          /\ IF o = "ok" THEN call' = [call EXCEPT !.todo = @ \ {app}] ELSE Return
    BY DEF SelectForVersion
  <1>2. /\ call.path \in Path /\ app \in Applet /\ call.pc = "versions"
        /\ clean' = clean \ {call.path}
        /\ UNCHANGED <<tokens, contexts, heap, collided, reissued>>
    BY DEF SelectForVersion, CallShape
  <1>3. device' \in [Path -> DeviceState] /\ clean' \subseteq Path
    BY <1>1, <1>2, ExchangeType DEF TypeOK
  <1>4. CASE Return
    BY <1>2, <1>3, <1>4, BaseReturn
  <1>5. CASE call' = [call EXCEPT !.todo = @ \ {app}]
    <2>1. call' \in CallType
      BY <1>5 DEF TypeOK, CallType
    <2>2. TypeOK'
      BY <1>2, <1>3, <2>1 DEF TypeOK, CallType
    <2>3. CallShape' /\ HandlesOwnContexts'
      BY <1>2, <1>5 DEF CallShape, ActivationPC, HandlesOwnContexts, GetHandleList,
         TypeOK, CallType
    <2>4. QED
      BY <2>2, <2>3
  <1>6. QED
    BY <1>1, <1>4, <1>5

LEMMA BaseBetweenCalls == Base /\ (SendOneApdu \/ \E p \in Path : DeviceReset(p)) => Base'
  <1> SUFFICES ASSUME Base, SendOneApdu \/ \E p \in Path : DeviceReset(p) PROVE Base'
    OBVIOUS
  <1> USE DEF Base
  <1>1. device' \in [Path -> DeviceState] /\ clean' \subseteq Path
    <2>1. CASE SendOneApdu
      <3>1. PICK p \in Objects(tokens), app \in Applet, o \in Outcome :
              Exchange(p, "applet", app, o) /\ clean' = clean \ {p}
        BY <2>1 DEF SendOneApdu
      <3>2. p \in Path
        BY DEF Objects, GetHandleList, TypeOK, Table
      <3>3. QED
        BY <3>1, <3>2, ExchangeType DEF TypeOK
    <2>2. CASE \E p \in Path : DeviceReset(p)
      BY <2>2, SessionAssumption DEF DeviceReset, SessionAssumption, TypeOK, PowerOn,
         DeviceState, Applet
    <2>3. QED
      BY <2>1, <2>2
  <1>2. UNCHANGED <<tokens, contexts, heap, call, collided, reissued>>
    BY DEF SendOneApdu, DeviceReset
  <1>3. QED
    BY <1>1, <1>2 DEF TypeOK, CallShape, PathOf, HandlesOwnContexts, GetHandleList

LEMMA BaseNext == Base /\ [Next]_vars => Base'
  <1> SUFFICES ASSUME Base, [Next]_vars PROVE Base'
    OBVIOUS
  <1>1. CASE UNCHANGED vars
    BY <1>1 DEF vars, Base, TypeOK, CallShape, PathOf, HandlesOwnContexts, GetHandleList
  <1>2. CASE ListDeviceHid
    BY <1>2, BaseListDeviceHid
  <1>3. CASE InsertToken
    BY <1>3, BaseInsertToken
  <1>4. CASE ListDone \/ ReturnAtOnce \/ SendCommand \/ VersionsDone
    BY <1>4, BaseReturn DEF ListDone, ReturnAtOnce, SendCommand, VersionsDone, Base, TypeOK
  <1>5. CASE CreateContextBTC \/ CreateContextETH
    BY <1>5, BaseCreateContext, SessionAssumption
       DEF CreateContextBTC, CreateContextETH, ContextType, SessionAssumption
  <1>6. CASE ClearContext
    BY <1>6, BaseClearContext
  <1>7. CASE CallCommand \/ CallSetUnitBTC \/ CallSetTimeOut
    <2>1. CASE CallCommand
      BY <2>1, BaseContextCall DEF CallCommand, CommandOps, HostOps, ContextOps,
         BTCOps, ETHOps, AnyTypeOps
    <2>2. CASE CallSetUnitBTC
      BY <2>2, BaseContextCall DEF CallSetUnitBTC, ContextOps, BTCOps
    <2>3. CASE CallSetTimeOut
      BY <2>3, BaseContextCall DEF CallSetTimeOut, ContextOps, AnyTypeOps
    <2>4. QED
      BY <1>7, <2>1, <2>2, <2>3
  <1>8. CASE SelectApplet \/ ActivateTimeout \/ ActivateUnit \/ ActivateCoinType
             \/ CoinTypeUnknown
    BY <1>8, BaseActivation
  <1>9. CASE StartCommand
    <2>1. /\ call' \in CallType /\ call'.pc = "send"
          /\ call'.ctx = call.ctx /\ call'.path = call.path
          /\ call'.op = call.op /\ call'.arg = call.arg
      BY <1>9 DEF StartCommand, Goto, Base, TypeOK, CallType, PC
    <2>2. /\ call.ctx \in Addr /\ heap[call.ctx] # NULL
          /\ call.path = PathOf(call.ctx) /\ call.path \in Path
          /\ call.op \in ContextOps /\ contexts.last = call.ctx
      BY <1>9, ContextFields DEF StartCommand, Base, CallShape
    <2>3. QED
      BY <1>9, <2>1, <2>2, BaseInCall DEF StartCommand, Base, TypeOK
  <1>10. CASE StoreUnit \/ StoreTimeout
    BY <1>10, BaseStore
  <1>11. CASE SendSetting
    BY <1>11, BaseSendSetting
  <1>12. CASE CallMainDomain \/ CallEnum
    BY <1>12, BaseDeviceCall DEF CallMainDomain, CallEnum
  <1>13. CASE CallGetAppletVersion
    BY <1>13, BaseDeviceCall DEF CallGetAppletVersion
  <1>14. CASE SelectMain
    BY <1>14, BaseSelectMain
  <1>15. CASE SelectForVersion
    BY <1>15, BaseSelectForVersion
  <1>16. CASE SendOneApdu \/ \E p \in Path : DeviceReset(p)
    BY <1>16, BaseBetweenCalls
  <1>17. QED
    BY <1>1, <1>2, <1>3, <1>4, <1>5, <1>6, <1>7, <1>8, <1>9, <1>10, <1>11, <1>12,
       <1>13, <1>14, <1>15, <1>16 DEF Next, CallerStep

(* The session's state keeps its type.                                     *)
THEOREM TypeCorrect == Spec => []TypeOK
  <1>1. Base => TypeOK
    BY DEF Base
  <1>2. QED
    BY <1>1, BaseInit, BaseNext, PTL DEF Spec

(* Every handle of the context table denotes an allocated context and no   *)
(* two the same: ClearOne, which deletes before it erases, and AddOne,     *)
(* which never overwrites a key, keep it so even when handles wrap round.  *)
THEOREM NoDanglingHandle == Spec => []HandlesOwnContexts
  <1>1. Base => HandlesOwnContexts
    BY DEF Base
  <1>2. QED
    BY <1>1, BaseInit, BaseNext, PTL DEF Spec

-----------------------------------------------------------------------------
(* The two tables.  Four steps change what handles denote; all the others  *)
(* at most move _last and the settings of a context.                       *)

Quiet ==
  /\ UNCHANGED <<tokens, collided, reissued>>
  /\ contexts'.map = contexts.map
  /\ \A a \in Addr : /\ heap'[a] = NULL <=> heap[a] = NULL
                     /\ heap[a] # NULL => /\ heap'[a].dev = heap[a].dev
                                          /\ heap'[a].home = heap[a].home

LEMMA StoreIsQuiet == Base /\ (StoreUnit \/ StoreTimeout) => Quiet
  <1> SUFFICES ASSUME Base, StoreUnit \/ StoreTimeout PROVE Quiet
    OBVIOUS
  <1>1. PICK c \in Context : /\ heap' = [heap EXCEPT ![call.ctx] = c]
                             /\ c.dev = heap[call.ctx].dev
                             /\ c.home = heap[call.ctx].home
    BY StoredContext
  <1>2. call.ctx \in Addr /\ heap[call.ctx] # NULL /\ c # NULL
    BY NullAssumption DEF Base, CallShape, StoreUnit, StoreTimeout, NullAssumption
  <1>3. QED
    BY <1>1, <1>2 DEF Quiet, StoreUnit, StoreTimeout, Base, TypeOK

LEMMA TableSteps ==
  Base /\ [Next]_vars =>
    \/ Quiet
    \/ ListDeviceHid
    \/ InsertToken
    \/ \E type \in ContextType, h \in Handles, coin \in Coin : CreateContext(type, h, coin)
    \/ ClearContext
  <1> SUFFICES ASSUME Base, [Next]_vars, ~ListDeviceHid, ~InsertToken, ~ClearContext,
                      ~(CreateContextBTC \/ CreateContextETH)
               PROVE  Quiet
    BY SessionAssumption DEF CreateContextBTC, CreateContextETH, ContextType, SessionAssumption
  <1>1. CASE UNCHANGED vars
    BY <1>1 DEF vars, Quiet
  <1>2. CASE ListDone \/ ReturnAtOnce \/ StartCommand \/ SendCommand \/ SendSetting
             \/ VersionsDone \/ SelectMain \/ SelectForVersion
    BY <1>2 DEF Quiet, ListDone, ReturnAtOnce, StartCommand, SendCommand, SendSetting,
       VersionsDone, SelectMain, SelectForVersion
  <1>3. CASE CallCommand \/ CallSetUnitBTC \/ CallSetTimeOut
    BY <1>3 DEF Quiet, CallCommand, CallSetUnitBTC, CallSetTimeOut, ContextCall, SetLast,
       Base, TypeOK, Table
  <1>4. CASE SelectApplet \/ ActivateTimeout \/ ActivateUnit \/ ActivateCoinType
             \/ CoinTypeUnknown
    BY <1>4 DEF Quiet, SelectApplet, ActivateTimeout, ActivateUnit, ActivateCoinType,
       CoinTypeUnknown, ActivationStep, ActivationEnds, SetLast, Base, TypeOK, Table
  <1>5. CASE StoreUnit \/ StoreTimeout
    BY <1>5, StoreIsQuiet
  <1>6. CASE CallMainDomain \/ CallEnum \/ CallGetAppletVersion
    BY <1>6 DEF Quiet, CallMainDomain, CallEnum, CallGetAppletVersion, DeviceCall,
       ClearLast, Base, TypeOK, Table
  <1>7. CASE SendOneApdu \/ \E p \in Path : DeviceReset(p)
    BY <1>7 DEF Quiet, SendOneApdu, DeviceReset
  <1>8. QED
    BY <1>1, <1>2, <1>3, <1>4, <1>5, <1>6, <1>7 DEF Next, CallerStep

LEMMA CreateChanges ==
  ASSUME Base, NEW type \in ContextType, NEW h \in Handles, NEW coin \in Coin,
         CreateContext(type, h, coin)
  PROVE  \E a \in Addr, n \in Handles :
           /\ heap[a] = NULL
           /\ heap' = [heap EXCEPT ![a] = NewContext(type, h, coin)]
           /\ contexts'.map[n] = IF contexts.map[n] = NULL THEN a ELSE contexts.map[n]
           /\ \A g \in Handles : g # n => contexts'.map[g] = contexts.map[g]
           /\ collided' = (collided \/ contexts.map[n] # NULL)
           /\ tokens.map[h] \in Path
           /\ UNCHANGED <<tokens, device, reissued>>
  <1>1. contexts \in Table(Addr) /\ tokens.map[h] \in Path /\ NextHandle(contexts) \in Handles
    BY NextHandleInRange DEF CreateContext, Base, TypeOK, Table
  <1>2. PICK a \in Addr :
          /\ heap[a] = NULL
          /\ heap' = [heap EXCEPT ![a] = NewContext(type, h, coin)]
          /\ contexts' = AddOne(contexts, a)
          /\ collided' = (collided \/ contexts.map[NextHandle(contexts)] # NULL)
    BY DEF CreateContext
  <1>3. UNCHANGED <<tokens, device, reissued>>
    BY DEF CreateContext
  <1>4. /\ contexts'.map[NextHandle(contexts)] =
             IF contexts.map[NextHandle(contexts)] = NULL
               THEN a ELSE contexts.map[NextHandle(contexts)]
        /\ \A g \in Handles : g # NextHandle(contexts) => contexts'.map[g] = contexts.map[g]
    BY <1>1, <1>2, AddOneMap
  <1>5. QED
    BY <1>1, <1>2, <1>3, <1>4

(* No step makes a handle that denotes a context denote another one: when  *)
(* the counter comes round to a handle in use, the new context is lost and *)
(* the old one stays.                                                      *)
THEOREM HandleStable == Spec => HandleKeepsContext
  <1>1. ASSUME Base, [Next]_vars
        PROVE  \A h \in GetHandleList(contexts) : contexts'.map[h] \in {contexts.map[h], NULL}
    <2>1. CASE Quiet \/ ListDeviceHid \/ InsertToken
      BY <2>1 DEF Quiet, ListDeviceHid, InsertToken
    <2>2. CASE \E type \in ContextType, h \in Handles, coin \in Coin : CreateContext(type, h, coin)
      BY <1>1, <2>2, CreateChanges DEF GetHandleList
    <2>3. CASE ClearContext
      BY <1>1, <2>3 DEF ClearContext, ClearOne, GetHandleList, Base, TypeOK, Table
    <2>4. QED
      BY <1>1, <2>1, <2>2, <2>3, TableSteps
  <1>2. ASSUME Base, [Next]_vars
        PROVE  [\A h \in GetHandleList(contexts) :
                  contexts'.map[h] \in {contexts.map[h], NULL}]_vars
    BY <1>1, <1>2
  <1>3. QED
    BY <1>2, BaseInit, BaseNext, PTL DEF Spec, HandleKeepsContext

(* Contexts are only lost once a new one has met an occupied handle.       *)
THEOREM NoLeak == Spec => []NoLeakBeforeCollision
  <1>1. Init => NoLeakBeforeCollision
    BY DEF Init, NoLeakBeforeCollision
  <1>2. Base /\ NoLeakBeforeCollision /\ [Next]_vars => NoLeakBeforeCollision'
    <2> SUFFICES ASSUME Base, NoLeakBeforeCollision, [Next]_vars
                 PROVE  NoLeakBeforeCollision'
      OBVIOUS
    <2>1. CASE Quiet
      BY <2>1 DEF Quiet, NoLeakBeforeCollision, Objects, GetHandleList
    <2>2. CASE ListDeviceHid \/ InsertToken
      BY <2>2, ZenonT(60) DEF ListDeviceHid, InsertToken, NoLeakBeforeCollision, Objects, GetHandleList
    <2>3. CASE \E type \in ContextType, h \in Handles, coin \in Coin : CreateContext(type, h, coin)
      <3>1. PICK a \in Addr, n \in Handles :
              /\ \A x \in Addr : x # a => heap'[x] = heap[x]
              /\ contexts'.map[n] = IF contexts.map[n] = NULL THEN a ELSE contexts.map[n]
              /\ \A g \in Handles : g # n => contexts'.map[g] = contexts.map[g]
              /\ collided' = (collided \/ contexts.map[n] # NULL)
        <4>1. PICK type \in ContextType, h \in Handles, coin \in Coin : CreateContext(type, h, coin)
          BY <2>3
        <4>2. PICK a \in Addr, n \in Handles :
                /\ heap' = [heap EXCEPT ![a] = NewContext(type, h, coin)]
                /\ contexts'.map[n] = IF contexts.map[n] = NULL THEN a ELSE contexts.map[n]
                /\ \A g \in Handles : g # n => contexts'.map[g] = contexts.map[g]
                /\ collided' = (collided \/ contexts.map[n] # NULL)
          BY <4>1, CreateChanges
        <4>3. \A x \in Addr : x # a => heap'[x] = heap[x]
          BY <4>2 DEF Base, TypeOK
        <4>4. QED
          BY <4>2, <4>3
      <3>2. SUFFICES ASSUME ~collided', NEW b \in Addr, heap'[b] # NULL
                     PROVE  \E g \in Handles : contexts'.map[g] # NULL /\ contexts'.map[g] = b
        BY DEF NoLeakBeforeCollision, Objects, GetHandleList
      <3>3. ~collided /\ contexts.map[n] = NULL
        BY <3>1, <3>2 DEF Base, TypeOK
      <3>4. CASE b = a
        BY <3>1, <3>3, <3>4, SessionAssumption DEF SessionAssumption
      <3>5. CASE b # a
        <4>1. PICK g \in Handles : contexts.map[g] # NULL /\ contexts.map[g] = b
          BY <3>1, <3>2, <3>3, <3>5 DEF NoLeakBeforeCollision, Objects, GetHandleList,
             Base, TypeOK
        <4>2. QED
          BY <3>1, <3>3, <4>1
      <3>6. QED
        BY <3>4, <3>5
    <2>4. CASE ClearContext
      BY <2>4 DEF ClearContext, ClearOne, NoLeakBeforeCollision, Objects, GetHandleList,
         Base, TypeOK, Table
    <2>5. QED
      BY <2>1, <2>2, <2>3, <2>4, TableSteps
  <1>3. QED
    BY <1>1, <1>2, BaseInit, BaseNext, PTL DEF Spec

LEMMA DeviceInvInsert == Base /\ DeviceInv /\ InsertToken => DeviceInv'
  <1> SUFFICES ASSUME Base, DeviceInv, InsertToken PROVE DeviceInv'
    OBVIOUS
  <1>1. PICK p \in call.todo :
          IF p \in Objects(tokens)
            THEN UNCHANGED <<tokens, reissued>>
            ELSE /\ tokens' = AddOne(tokens, p)
                 /\ reissued' = (reissued \/ tokens.id = MaxID)
    BY DEF InsertToken
  <1>2. UNCHANGED heap
    BY DEF InsertToken
  <1>3. CASE UNCHANGED <<tokens, reissued>>
    BY <1>2, <1>3 DEF DeviceInv, HandlesIssued, ContextKeepsDevice, GetHandleList, PathOf
  <1>4. CASE /\ tokens' = AddOne(tokens, p)
             /\ reissued' = (reissued \/ tokens.id = MaxID)
    <2> SUFFICES ASSUME ~reissued' PROVE DeviceInv'
      BY DEF DeviceInv, HandlesIssued, ContextKeepsDevice
    <2>1. ~reissued /\ tokens.id # MaxID /\ tokens \in Table(Path)
      BY <1>4 DEF Base, TypeOK
    <2> DEFINE n == tokens.id + 1
    <2>2. NextHandle(tokens) = n /\ n \in Handles /\ tokens.id \in Nat
      BY <2>1, NextHandleInRange DEF Table
    <2>3. /\ tokens'.id = n
          /\ \A h \in Handles : h # n => tokens'.map[h] = tokens.map[h]
      BY <1>4, <2>1, <2>2, AddOneMap
    <2>4. \A a \in Addr : heap[a] # NULL => heap[a].dev \in Handles /\ heap[a].dev <= tokens.id
      BY <2>1, ContextFields DEF DeviceInv, HandlesIssued, Base
    <2>5. HandlesIssued'
      BY <1>2, <2>1, <2>2, <2>3, <2>4 DEF DeviceInv, HandlesIssued, GetHandleList, Handles
    <2>6. ContextKeepsDevice'
      BY <1>2, <2>1, <2>2, <2>3, <2>4 DEF DeviceInv, ContextKeepsDevice, PathOf, Handles
    <2>7. QED
      BY <2>5, <2>6 DEF DeviceInv
  <1>5. QED
    BY <1>1, <1>3, <1>4

LEMMA DeviceInvCreate ==
  ASSUME Base, DeviceInv, NEW type \in ContextType, NEW h \in Handles, NEW coin \in Coin,
         CreateContext(type, h, coin)
  PROVE  DeviceInv'
  <1>1. PICK a \in Addr : heap' = [heap EXCEPT ![a] = NewContext(type, h, coin)]
    BY CreateChanges
  <1>2. UNCHANGED <<tokens, reissued>> /\ tokens.map[h] # NULL
    BY CreateChanges, SessionAssumption DEF SessionAssumption
  <1>3. \A b \in Addr : heap'[b] # NULL =>
          \/ heap[b] # NULL /\ heap'[b] = heap[b]
          \/ heap'[b] = NewContext(type, h, coin)
    BY <1>1 DEF Base, TypeOK
  <1>4. NewContext(type, h, coin).dev = h /\ NewContext(type, h, coin).home = tokens.map[h]
    BY DEF NewContext
  <1>5. HandlesIssued'
    BY <1>2, <1>3, <1>4 DEF DeviceInv, HandlesIssued, GetHandleList
  <1>6. ContextKeepsDevice'
    BY <1>2, <1>3, <1>4 DEF DeviceInv, ContextKeepsDevice, PathOf
  <1>7. QED
    BY <1>5, <1>6 DEF DeviceInv

LEMMA DeviceInvNext == Base /\ DeviceInv /\ [Next]_vars => DeviceInv'
  <1> SUFFICES ASSUME Base, DeviceInv, [Next]_vars PROVE DeviceInv'
    OBVIOUS
  <1>1. CASE Quiet
    <2>1. \A a \in Addr : heap'[a] # NULL =>
            heap[a] # NULL /\ heap'[a].dev = heap[a].dev /\ heap'[a].home = heap[a].home
      BY <1>1 DEF Quiet
    <2>2. UNCHANGED <<tokens, reissued>>
      BY <1>1 DEF Quiet
    <2>3. HandlesIssued'
      BY <2>1, <2>2 DEF DeviceInv, HandlesIssued, GetHandleList
    <2>4. ContextKeepsDevice'
      BY <2>1, <2>2 DEF DeviceInv, ContextKeepsDevice, PathOf
    <2>5. QED
      BY <2>3, <2>4 DEF DeviceInv
  <1>2. CASE ListDeviceHid
    <2>1. /\ tokens'.id = tokens.id
          /\ \A h \in Handles : tokens'.map[h] \in {tokens.map[h], NULL}
          /\ UNCHANGED <<heap, reissued>>
      BY <1>2 DEF ListDeviceHid, Base, TypeOK, Table
    <2>2. \A a \in Addr : heap[a] # NULL => heap[a].dev \in Handles
      BY ContextFields DEF Base
    <2>3. HandlesIssued'
      BY <2>1 DEF DeviceInv, HandlesIssued, GetHandleList
    <2>4. ContextKeepsDevice'
      BY <2>1, <2>2 DEF DeviceInv, ContextKeepsDevice, PathOf
    <2>5. QED
      BY <2>3, <2>4 DEF DeviceInv
  <1>3. CASE InsertToken
    BY <1>3, DeviceInvInsert
  <1>4. CASE \E type \in ContextType, h \in Handles, coin \in Coin : CreateContext(type, h, coin)
    BY <1>4, DeviceInvCreate
  <1>5. CASE ClearContext
    <2>1. UNCHANGED <<tokens, reissued>> /\ \A a \in Addr : heap'[a] \in {heap[a], NULL}
      BY <1>5 DEF ClearContext, Base, TypeOK
    <2>2. HandlesIssued'
      BY <2>1 DEF DeviceInv, HandlesIssued, GetHandleList
    <2>3. ContextKeepsDevice'
      BY <2>1 DEF DeviceInv, ContextKeepsDevice, PathOf
    <2>4. QED
      BY <2>2, <2>3 DEF DeviceInv
  <1>6. QED
    BY <1>1, <1>2, <1>3, <1>4, <1>5, TableSteps

(* Until the token handles wrap round, a context reaches the device it was *)
(* created for or none at all: its device handle is at most the counter,   *)
(* so the next one issued is never its own.                                *)
THEOREM DeviceKept == Spec => []ContextKeepsDevice
  <1>1. Init => DeviceInv
    BY DEF Init, DeviceInv, HandlesIssued, ContextKeepsDevice, EmptyTable, GetHandleList
  <1>2. DeviceInv => ContextKeepsDevice
    BY DEF DeviceInv
  <1>3. QED
    BY <1>1, <1>2, DeviceInvNext, BaseInit, BaseNext, PTL DEF Spec

-----------------------------------------------------------------------------
(* The cache.                                                              *)

LEMMA CacheKept ==
  ASSUME Base, CacheRight,
         contexts'.last \in {contexts.last, NULL},
         \A a \in Addr : a = contexts.last /\ heap'[a] # NULL => heap'[a] = heap[a],
         \A a \in Addr : a = contexts.last /\ heap'[a] # NULL /\ PathOf(a)' \in clean' =>
           /\ PathOf(a)' = PathOf(a)
           /\ PathOf(a) \in clean
           /\ device'[PathOf(a)] = device[PathOf(a)]
  PROVE  CacheRight'
  <1> SUFFICES ASSUME NEW a \in Addr, contexts'.last = a, heap'[a] # NULL, PathOf(a)' \in clean'
               PROVE  Configured(heap'[a], PathOf(a)', device'[PathOf(a)'])
    BY DEF CacheRight
  <1>1. contexts.last = a
    BY SessionAssumption DEF SessionAssumption
  <1>2. heap'[a] = heap[a] /\ PathOf(a)' = PathOf(a) /\ PathOf(a) \in clean
        /\ device'[PathOf(a)] = device[PathOf(a)]
    BY <1>1
  <1>3. Configured(heap[a], PathOf(a), device[PathOf(a)])
    BY <1>1, <1>2 DEF CacheRight
  <1>4. QED
    BY <1>2, <1>3

(* The steps between contexts: they leave the last context as it is and    *)
(* count every device they touch as disturbed.                             *)
LEMMA CacheKeptAside ==
  ASSUME Base, CacheRight, UNCHANGED <<tokens, heap>>,
         contexts'.last \in {contexts.last, NULL},
         clean' \subseteq clean,
         \A q \in clean' : device'[q] = device[q]
  PROVE  CacheRight'
  <1>1. \A a \in Addr : PathOf(a)' = PathOf(a)
    BY DEF PathOf
  <1>2. QED
    BY <1>1, CacheKept

LEMMA CacheListDeviceHid == Base /\ CacheByPC /\ ListDeviceHid => CacheByPC'
  <1> SUFFICES ASSUME Base, CacheByPC, ListDeviceHid PROVE CacheByPC'
    OBVIOUS
  <1>1. /\ call.pc = "idle" /\ call'.pc = "insert"
        /\ UNCHANGED <<contexts, heap, device, clean>>
        /\ \A h \in Handles : tokens'.map[h] \in {tokens.map[h], NULL}
    BY DEF ListDeviceHid, Idle, Base, TypeOK, Table
  <1>2. \A a \in Addr : heap[a] # NULL /\ PathOf(a)' \in clean' => PathOf(a)' = PathOf(a)
    BY <1>1, ContextFields, SessionAssumption DEF SessionAssumption, PathOf, Base, TypeOK
  <1>3. CacheRight'
    BY <1>1, <1>2, CacheKept DEF CacheByPC
  <1>4. QED
    BY <1>1, <1>3 DEF CacheByPC, ActivationPC

LEMMA CacheInsertToken == Base /\ CacheByPC /\ InsertToken => CacheByPC'
  <1> SUFFICES ASSUME Base, CacheByPC, InsertToken PROVE CacheByPC'
    OBVIOUS
  <1>1. PICK p \in call.todo :
          IF p \in Objects(tokens)
            THEN UNCHANGED <<tokens, clean, reissued>>
            ELSE tokens' = AddOne(tokens, p) /\ clean' = clean \ {p}
    BY DEF InsertToken
  <1>2. /\ call.pc = "insert" /\ call'.pc = "insert"
        /\ UNCHANGED <<contexts, heap, device>>
        /\ tokens \in Table(Path)
    BY DEF InsertToken, Base, TypeOK
  <1>3. /\ clean' \subseteq clean
        /\ \A h \in Handles : tokens'.map[h] \in clean' => tokens'.map[h] = tokens.map[h]
    BY <1>1, <1>2, AddOneMap
  <1>4. \A a \in Addr : heap[a] # NULL /\ PathOf(a)' \in clean' => PathOf(a)' = PathOf(a)
    BY <1>2, <1>3, ContextFields DEF PathOf, Base
  <1>5. CacheRight'
    BY <1>2, <1>3, <1>4, CacheKept DEF CacheByPC
  <1>6. QED
    BY <1>2, <1>5 DEF CacheByPC, ActivationPC

LEMMA CacheCreateContext ==
  ASSUME Base, CacheByPC, NEW type \in ContextType, NEW h \in Handles, NEW coin \in Coin,
         CreateContext(type, h, coin)
  PROVE  CacheByPC'
  <1>1. PICK a \in Addr :
          /\ heap' = [heap EXCEPT ![a] = NewContext(type, h, coin)]
          /\ contexts' = AddOne(contexts, a)
          /\ call' = [Idle EXCEPT !.pc = "select", !.op = "Create",
                                  !.ctx = a, !.path = tokens.map[h]]
          /\ clean' = IF contexts.last = a THEN clean \cup {tokens.map[h]}
                                           ELSE clean \ {tokens.map[h]}
    BY DEF CreateContext
  <1>2. call.pc = "idle" /\ UNCHANGED <<tokens, device>> /\ contexts'.last = contexts.last
    BY <1>1, AddOneMap DEF CreateContext, Base, TypeOK
  <1>3. call'.pc = "select" /\ call'.op = "Create" /\ call'.ctx = a /\ call'.path = tokens.map[h]
    BY <1>1 DEF Idle
  <1>4. CASE contexts.last = a
    BY <1>2, <1>3, <1>4 DEF CacheByPC, ActivationPC, CreatedBeside, ActivationProgress
  <1>5. CASE contexts.last # a
    <2>1. call'.path \notin clean' /\ clean' \subseteq clean
      BY <1>1, <1>3, <1>5
    <2>2. \A b \in Addr : b # a => heap'[b] = heap[b] /\ PathOf(b)' = PathOf(b)
      BY <1>1, <1>2 DEF PathOf, Base, TypeOK
    <2>3. CacheRight'
      BY <1>2, <1>5, <2>1, <2>2, CacheKept DEF CacheByPC
    <2>4. QED
      BY <1>2, <1>3, <1>5, <2>1, <2>3 DEF CacheByPC, ActivationPC, CreatedBeside
  <1>6. QED
    BY <1>4, <1>5

LEMMA CacheClearContext == Base /\ CacheByPC /\ ClearContext => CacheByPC'
  <1> SUFFICES ASSUME Base, CacheByPC, ClearContext PROVE CacheByPC'
    OBVIOUS
  <1>1. /\ call.pc = "idle" /\ UNCHANGED <<tokens, device, call, clean>>
        /\ contexts'.last = contexts.last
        /\ \A a \in Addr : heap'[a] \in {heap[a], NULL}
    BY DEF ClearContext, ClearOne, Base, TypeOK, Table
  <1>2. \A a \in Addr : heap'[a] # NULL => heap'[a] = heap[a] /\ PathOf(a)' = PathOf(a)
    BY <1>1 DEF PathOf
  <1>3. CacheRight'
    BY <1>1, <1>2, CacheKept DEF CacheByPC
  <1>4. QED
    BY <1>1, <1>3 DEF CacheByPC, ActivationPC

LEMMA CacheContextCall ==
  ASSUME Base, CacheByPC, NEW op \in ContextOps, NEW h \in Handles, NEW arg,
         ContextCall(op, h, arg)
  PROVE  CacheByPC'
  <1> DEFINE a    == contexts.map[h]
             p    == PathOf(a)
             asks == ~(contexts.last = a) /\ p # NULL
  <1>1. /\ call.pc = "idle"
        /\ call' = [Idle EXCEPT !.pc = IF asks THEN "select" ELSE "check",
                                !.op = op, !.ctx = a, !.path = p, !.arg = arg]
        /\ contexts' = IF asks THEN contexts ELSE SetLast(contexts, a)
        /\ clean' = IF asks THEN clean \cup {p} ELSE clean
        /\ UNCHANGED <<tokens, heap, device>>
    BY DEF ContextCall
  <1>2. op # "Create"
    BY DEF ContextOps, BTCOps, ETHOps, AnyTypeOps
  <1>3. CASE asks
    BY <1>1, <1>2, <1>3 DEF Idle, CacheByPC, ActivationPC, CreatedBeside, ActivationProgress
  <1>4. CASE ~asks
    <2>1. call'.pc = "check" /\ contexts'.last = a /\ clean' = clean
      BY <1>1, <1>4 DEF Idle, SetLast, Base, TypeOK, Table
    <2>2. CASE contexts.last = a
      <3>1. CacheRight'
        BY <1>1, <2>1, <2>2, CacheKeptAside DEF CacheByPC
      <3>2. QED
        BY <2>1, <3>1 DEF CacheByPC, ActivationPC
    <2>3. CASE p = NULL
      <3>1. p' = NULL /\ NULL \notin clean'
        BY <1>1, <2>1, <2>3, SessionAssumption DEF SessionAssumption, PathOf, Base, TypeOK,
           SetLast, Table
      <3>2. CacheRight'
        BY <1>1, <2>1, <3>1, <2>3, SessionAssumption DEF CacheRight, PathOf, Base, TypeOK, SessionAssumption
      <3>3. QED
        BY <2>1, <3>2 DEF CacheByPC, ActivationPC
    <2>4. QED
      BY <1>4, <2>2, <2>3
  <1>5. QED
    BY <1>3, <1>4

LEMMA CacheActivationEnds ==
  ASSUME Base, CacheByPC, call.pc \in ActivationPC, ActivationEnds,
         UNCHANGED <<tokens, heap>>, clean' \subseteq clean,
         \A q \in clean' : q # call.path => device'[q] = device[q],
         ~CreatedBeside /\ call.path \in clean' =>
           Configured(heap[call.ctx], call.path, device'[call.path])
  PROVE  CacheByPC'
  <1>1. call.ctx \in Addr /\ call.path = PathOf(call.ctx)
    BY DEF Base, CallShape
  <1>2. call'.pc \in {"idle", "check"}
    BY DEF ActivationEnds, Return, Goto, Idle, Base, TypeOK
  <1>3. CacheRight'
    <2>1. CASE CreatedBeside
      <3>1. UNCHANGED contexts /\ call.path \notin clean' /\ CacheRight
        BY <2>1 DEF ActivationEnds, CreatedBeside, CacheByPC
      <3>2. QED
        BY <3>1, CacheKeptAside
    <2>2. CASE ~CreatedBeside
      <3>1. contexts'.last = call.ctx
        BY <2>2 DEF ActivationEnds, CreatedBeside, SetLast, Base, TypeOK, Table
      <3>2. \A a \in Addr : contexts'.last = a => PathOf(a)' = call.path /\ a = call.ctx
        BY <1>1, <3>1 DEF PathOf
      <3>3. QED
        BY <2>2, <3>2 DEF CacheRight
    <2>3. QED
      BY <2>1, <2>2
  <1>4. QED
    BY <1>2, <1>3 DEF CacheByPC, ActivationPC

LEMMA CacheActivationGoesOn ==
  ASSUME Base, CacheByPC, call.pc \in ActivationPC, NEW next \in ActivationPC, Goto(next),
         UNCHANGED <<tokens, heap, contexts, clean>>,
         \A q \in Path : q # call.path => device'[q] = device[q],
         LET c == heap[call.ctx]
             d == device'[call.path]
         IN  ~CreatedBeside /\ call.path \in clean =>
               /\ next \in {"timeout", "unit", "coin"} => d.applet = c.type
               /\ next \in {"unit", "coin"} => d.timeout = c.timeout
               /\ next = "coin" => d.unit = c.unit
  PROVE  CacheByPC'
  <1>1. call'.pc = next /\ call'.op = call.op /\ call'.ctx = call.ctx /\ call'.path = call.path
    BY DEF Goto, Base, TypeOK
  <1>2. CASE CreatedBeside
    <2>1. call.path \notin clean /\ CacheRight /\ CreatedBeside'
      BY <1>1, <1>2 DEF CacheByPC, CreatedBeside
    <2>2. CacheRight'
      BY <2>1, CacheKeptAside DEF Base, TypeOK
    <2>3. QED
      BY <1>1, <2>1, <2>2 DEF CacheByPC, ActivationPC
  <1>3. CASE ~CreatedBeside
    <2>1. ~CreatedBeside' /\ ActivationProgress'
      BY <1>1, <1>3 DEF CreatedBeside, ActivationProgress
    <2>2. QED
      BY <1>1, <2>1 DEF CacheByPC, ActivationPC
  <1>4. QED
    BY <1>2, <1>3

(* One exchange of ActiveSelf: if it succeeds, what the steps before it    *)
(* established still holds and its own field is now the context's.         *)
LEMMA CacheActivationStep ==
  ASSUME Base, CacheByPC, call.pc \in ActivationPC, NEW field, NEW value,
         NEW next \in {"timeout", "unit", "coin", "done"},
         ActivationStep(field, value, next),
         LET c == heap[call.ctx] IN
         \/ /\ call.pc = "select" /\ field = "applet" /\ value = c.type /\ next = "timeout"
         \/ /\ call.pc = "timeout" /\ field = "timeout" /\ value = c.timeout
            /\ next = IF c.type = "BTC" THEN "unit" ELSE "done"
         \/ /\ call.pc = "unit" /\ field = "unit" /\ value = c.unit /\ next = "coin"
         \/ /\ call.pc = "coin" /\ field = "coin" /\ value = c.coin /\ next = "done"
  PROVE  CacheByPC'
  <1> DEFINE c == heap[call.ctx]
             d == device[call.path]
  <1>1. PICK o \in Outcome :
          /\ Exchange(call.path, field, value, o)
          /\ IF o = "ok"
               THEN /\ IF next = "done" THEN ActivationEnds ELSE Goto(next) /\ UNCHANGED contexts
                    /\ UNCHANGED clean
               ELSE ActivationEnds /\ clean' = clean \ {call.path}
    BY DEF ActivationStep
  <1>2. /\ call.ctx \in Addr /\ c # NULL /\ call.path \in Path
        /\ UNCHANGED <<tokens, heap>>
        /\ d \in DeviceState
    BY DEF ActivationStep, Base, CallShape, TypeOK
  <1>3. /\ \A q \in Path : q # call.path => device'[q] = device[q]
        /\ o # "refused" => device'[call.path] = [d EXCEPT ![field] = value]
    <2>1. device \in [Path -> DeviceState] /\ call.path \in Path
      BY <1>2 DEF Base, TypeOK
    <2>2. device' = IF o = "refused" THEN device
                    ELSE [device EXCEPT ![call.path] = [device[call.path] EXCEPT ![field] = value]]
      BY <1>1 DEF Exchange
    <2>3. QED
      BY <2>1, <2>2
  <1>4. clean \subseteq Path
    BY DEF Base, TypeOK
  <1>5. CASE o # "ok"
    BY <1>1, <1>2, <1>3, <1>4, <1>5, CacheActivationEnds
  <1>6. CASE o = "ok"
    <2>1. ~CreatedBeside /\ call.path \in clean =>
            /\ call.pc \in {"timeout", "unit", "coin"} => d.applet = c.type
            /\ call.pc \in {"unit", "coin"} => d.timeout = c.timeout
            /\ call.pc = "coin" => d.unit = c.unit
      BY DEF CacheByPC, ActivationProgress
    <2>2. device'[call.path] = [d EXCEPT ![field] = value]
      BY <1>3, <1>6
    <2>3. CASE next = "done"
      <3>1. ~CreatedBeside /\ call.path \in clean => Configured(c, call.path, device'[call.path])
        BY <1>2, <2>1, <2>2, <2>3 DEF Configured, DeviceState
      <3>2. QED
        BY <1>1, <1>2, <1>3, <1>4, <1>6, <2>3, <3>1, CacheActivationEnds
    <2>4. CASE next # "done"
      BY <1>1, <1>2, <1>3, <1>6, <2>1, <2>2, <2>4, CacheActivationGoesOn
         DEF ActivationPC, DeviceState
    <2>5. QED
      BY <2>3, <2>4
  <1>7. QED
    BY <1>5, <1>6

LEMMA CacheActivation ==
  Base /\ CacheByPC /\ (SelectApplet \/ ActivateTimeout \/ ActivateUnit
                        \/ ActivateCoinType \/ CoinTypeUnknown) => CacheByPC'
  <1> SUFFICES ASSUME Base, CacheByPC, SelectApplet \/ ActivateTimeout \/ ActivateUnit
                                       \/ ActivateCoinType \/ CoinTypeUnknown
               PROVE  CacheByPC'
    OBVIOUS
  <1>1. CASE SelectApplet
    BY <1>1, CacheActivationStep DEF SelectApplet, ActivationPC
  <1>2. CASE ActivateTimeout
    BY <1>2, CacheActivationStep DEF ActivateTimeout, ActivationPC
  <1>3. CASE ActivateUnit
    BY <1>3, CacheActivationStep DEF ActivateUnit, ActivationPC
  <1>4. CASE ActivateCoinType
    BY <1>4, CacheActivationStep DEF ActivateCoinType, ActivationPC
  <1>5. CASE CoinTypeUnknown
    <2>1. /\ call.pc = "coin" /\ ActivationEnds
          /\ UNCHANGED <<tokens, heap, device>>
          /\ clean' \subseteq clean
          /\ call.path \notin CoinTyped
      BY <1>5 DEF CoinTypeUnknown
    <2>2. ~CreatedBeside /\ call.path \in clean' =>
            Configured(heap[call.ctx], call.path, device'[call.path])
      BY <2>1 DEF CacheByPC, ActivationPC, ActivationProgress, Configured
    <2>3. QED
      BY <2>1, <2>2, CacheActivationEnds DEF ActivationPC
  <1>6. QED
    BY <1>1, <1>2, <1>3, <1>4, <1>5

LEMMA CacheStore == Base /\ CacheByPC /\ (StoreUnit \/ StoreTimeout) => CacheByPC'
  <1> SUFFICES ASSUME Base, CacheByPC, StoreUnit \/ StoreTimeout PROVE CacheByPC'
    OBVIOUS
  <1> DEFINE c == heap[call.ctx]
  <1>1. /\ call.pc = "check" /\ AfterStore
        /\ UNCHANGED <<tokens, contexts, device, clean>>
        /\ call.ctx \in Addr /\ c # NULL /\ call.path = PathOf(call.ctx)
        /\ contexts.last = call.ctx /\ CacheRight
    BY DEF StoreUnit, StoreTimeout, Base, CallShape, CacheByPC
  <1>2. c \in Context
    BY <1>1, ContextFields DEF Base
  <1>3. \/ /\ call.op = "SetUnitBTC" /\ heap'[call.ctx] = [c EXCEPT !.unit = call.arg]
        \/ /\ call.op = "SetTimeOut" /\ heap'[call.ctx] = [c EXCEPT !.timeout = call.arg * 2]
    BY <1>1 DEF StoreUnit, StoreTimeout, Base, TypeOK
  <1>4. heap'[call.ctx].dev = c.dev
    BY <1>2, <1>3 DEF Context
  <1>5. CASE call.path = NULL
    <2>1. call'.pc = "idle"
      BY <1>1, <1>5 DEF AfterStore, Return, Idle
    <2>2. \A a \in Addr : contexts'.last = a => PathOf(a)' \notin clean'
      BY <1>1, <1>4, <1>5, SessionAssumption DEF SessionAssumption, PathOf, Base, TypeOK
    <2>3. QED
      BY <2>1, <2>2 DEF CacheByPC, CacheRight, ActivationPC
  <1>6. CASE call.path # NULL
    <2>1. call'.pc = "send" /\ call'.op = call.op /\ call'.path = call.path /\ call'.ctx = call.ctx
      BY <1>1, <1>6 DEF AfterStore, Goto, Base, TypeOK
    <2>2. call.path \in clean => Configured(c, call.path, device[call.path])
      BY <1>1 DEF CacheRight
    <2>3. call.path \in clean => call.path \in Path /\ device[call.path] \in DeviceState
      BY DEF Base, TypeOK
    <2>4. SettingPending'
      <3> SUFFICES ASSUME call.path \in clean
                   PROVE  LET n == heap'[call.ctx]
                              d == device[call.path]
                          IN  /\ call.op = "SetUnitBTC" => Configured(n, call.path, [d EXCEPT !.unit = n.unit])
                              /\ call.op = "SetTimeOut" => Configured(n, call.path, [d EXCEPT !.timeout = n.timeout])
        BY <1>1, <2>1 DEF SettingPending
      <3>1. QED
        BY <1>2, <1>3, <2>2, <2>3 DEF Configured, Context, DeviceState
    <2>5. call'.op \notin CommandOps
      BY <1>3, <2>1 DEF CommandOps
    <2>6. QED
      BY <2>1, <2>4, <2>5 DEF CacheByPC, ActivationPC
  <1>7. QED
    BY <1>5, <1>6

LEMMA CacheSendSetting == Base /\ CacheByPC /\ SendSetting => CacheByPC'
  <1> SUFFICES ASSUME Base, CacheByPC, SendSetting PROVE CacheByPC'
    OBVIOUS
  <1> DEFINE c == heap[call.ctx]
             d == device[call.path]
  <1>1. PICK o \in Outcome :
          /\ \/ /\ call.op = "SetUnitBTC"
                /\ Exchange(call.path, "unit", c.unit, o)
             \/ /\ call.op = "SetTimeOut"
                /\ Exchange(call.path, "timeout", c.timeout, o)
          /\ clean' = IF o = "refused" THEN clean \ {call.path} ELSE clean
    BY DEF SendSetting
  <1>2. /\ call.pc = "send" /\ call'.pc = "idle"
        /\ UNCHANGED <<tokens, contexts, heap>>
        /\ call.ctx \in Addr /\ call.path = PathOf(call.ctx) /\ call.path \in Path
        /\ contexts.last = call.ctx
    BY DEF SendSetting, Return, Idle, Base, CallShape
  <1>3. call.path \in clean' => Configured(c, call.path, device'[call.path])
    <2> SUFFICES ASSUME call.path \in clean' PROVE Configured(c, call.path, device'[call.path])
      OBVIOUS
    <2>1. o # "refused" /\ call.path \in clean
      BY <1>1
    <2>2. SettingPending
      BY <1>1, <1>2 DEF CacheByPC, CommandOps
    <2>3. device \in [Path -> DeviceState]
      BY DEF Base, TypeOK
    <2>4. CASE call.op = "SetUnitBTC"
      BY <1>1, <1>2, <2>1, <2>2, <2>3, <2>4 DEF SettingPending, Exchange, DeviceState
    <2>5. CASE call.op = "SetTimeOut"
      BY <1>1, <1>2, <2>1, <2>2, <2>3, <2>5 DEF SettingPending, Exchange, DeviceState
    <2>6. QED
      BY <1>1, <2>4, <2>5
  <1>4. \A a \in Addr : contexts'.last = a => a = call.ctx /\ PathOf(a)' = call.path
    BY <1>2 DEF PathOf
  <1>5. CacheRight'
    BY <1>2, <1>3, <1>4 DEF CacheRight
  <1>6. QED
    BY <1>2, <1>5 DEF CacheByPC, ActivationPC

(* The steps of a device call, and a raw APDU.                             *)
LEMMA CacheDeviceSteps ==
  Base /\ CacheByPC /\ (CallMainDomain \/ CallEnum \/ CallGetAppletVersion \/ SelectMain
                        \/ SelectForVersion \/ VersionsDone \/ SendOneApdu) => CacheByPC'
  <1> SUFFICES ASSUME Base, CacheByPC, CallMainDomain \/ CallEnum \/ CallGetAppletVersion
                      \/ SelectMain \/ SelectForVersion \/ VersionsDone \/ SendOneApdu
               PROVE  CacheByPC'
    OBVIOUS
  <1>1. SUFFICES CacheRight' /\ call'.pc \in {"idle", "main", "versions"}
    BY DEF CacheByPC, ActivationPC
  <1>2. CASE CallMainDomain \/ CallEnum \/ CallGetAppletVersion
    <2>1. /\ call.pc = "idle" /\ call'.pc \in {"main", "versions"}
          /\ UNCHANGED <<tokens, heap, device, clean>>
          /\ contexts'.last \in {contexts.last, NULL}
      BY <1>2, ZenonT(60) DEF CallMainDomain, CallEnum, CallGetAppletVersion, DeviceCall, Idle, ClearLast,
         Base, TypeOK, Table
    <2>2. QED
      BY <2>1, CacheKeptAside DEF CacheByPC
  <1>3. CASE SelectMain
    <2>1. PICK o \in Outcome : Exchange(call.path, "applet", "Main", o)
      BY <1>3 DEF SelectMain
    <2>2. /\ call.pc = "main"
          /\ UNCHANGED <<tokens, contexts, heap>>
          /\ clean' = IF call.op \in EnumOps THEN clean \ {call.path} ELSE clean
      BY <1>3 DEF SelectMain
    <2>3. call'.pc \in {"idle", "versions"} /\ CacheRight
      <3>1. PICK found : call' = [call EXCEPT !.pc = "versions", !.todo = found] \/ Return
        BY <1>3 DEF SelectMain
      <3>2. CASE call' = [call EXCEPT !.pc = "versions", !.todo = found]
        BY <2>2, <3>2 DEF Base, TypeOK, CacheByPC
      <3>3. CASE Return
        BY <2>2, <3>3 DEF Return, Idle, CacheByPC
      <3>4. QED
        BY <3>1, <3>2, <3>3
    <2>4. CASE call.op \in MainDomainOps
      BY <2>2, <2>3, <2>4, SessionAssumption DEF Base, CallShape, CacheRight, SessionAssumption
    <2>5. CASE call.op \in EnumOps
      <3>1. \A q \in clean' : device'[q] = device[q]
        BY <2>1, <2>2, <2>5 DEF Exchange, Base, TypeOK
      <3>2. QED
        BY <2>2, <2>3, <2>5, <3>1, CacheKeptAside
    <2>6. QED
      BY <2>2, <2>4, <2>5 DEF Base, CallShape
  <1>4. CASE SelectForVersion
    <2>1. PICK app \in call.todo, o \in Outcome : Exchange(call.path, "applet", app, o)
      BY <1>4 DEF SelectForVersion
    <2>2. /\ call.pc = "versions" /\ call'.pc \in {"idle", "versions"}
          /\ UNCHANGED <<tokens, contexts, heap>>
          /\ clean' = clean \ {call.path}
          /\ CacheRight
      BY <1>4 DEF SelectForVersion, Return, Idle, Base, TypeOK, CacheByPC
    <2>3. \A q \in clean' : device'[q] = device[q]
      BY <2>1, <2>2 DEF Exchange, Base, TypeOK
    <2>4. QED
      BY <2>2, <2>3, CacheKeptAside
  <1>5. CASE VersionsDone
    BY <1>5, CacheKeptAside DEF VersionsDone, Return, Idle, CacheByPC
  <1>6. CASE SendOneApdu
    <2>1. PICK p \in Objects(tokens), app \in Applet, o \in Outcome :
            Exchange(p, "applet", app, o) /\ clean' = clean \ {p}
      BY <1>6 DEF SendOneApdu
    <2>2. call.pc = "idle" /\ UNCHANGED <<tokens, contexts, heap, call>> /\ CacheRight
      BY <1>6 DEF SendOneApdu, CacheByPC
    <2>3. \A q \in clean' : device'[q] = device[q]
      BY <2>1 DEF Exchange, Base, TypeOK
    <2>4. QED
      BY <2>1, <2>2, <2>3, CacheKeptAside
  <1>7. QED
    BY <1>2, <1>3, <1>4, <1>5, <1>6

(* A reset only takes a device off the clean ones.                         *)
LEMMA CacheDeviceReset ==
  ASSUME Base, CacheByPC, NEW p \in Path, DeviceReset(p)
  PROVE  CacheByPC'
  <1>1. /\ UNCHANGED <<tokens, contexts, heap, call>>
        /\ clean' = clean \ {p}
        /\ \A q \in clean' : device'[q] = device[q]
    BY DEF DeviceReset, Base, TypeOK
  <1>2. CacheRight => CacheRight'
    BY <1>1, CacheKeptAside
  <1>3. SettingPending => SettingPending'
    BY <1>1 DEF SettingPending
  <1>4. ActivationProgress => ActivationProgress'
    BY <1>1 DEF ActivationProgress
  <1>5. CreatedBeside' = CreatedBeside
    BY <1>1 DEF CreatedBeside
  <1>6. QED
    BY <1>1, <1>2, <1>3, <1>4, <1>5 DEF CacheByPC

LEMMA CacheNext == Base /\ CacheByPC /\ [Next]_vars => CacheByPC'
  <1> SUFFICES ASSUME Base, CacheByPC, [Next]_vars PROVE CacheByPC'
    OBVIOUS
  <1>1. CASE UNCHANGED vars
    BY <1>1 DEF vars, CacheByPC, CacheRight, SettingPending, ActivationProgress,
       CreatedBeside, PathOf
  <1>2. CASE ListDeviceHid
    BY <1>2, CacheListDeviceHid
  <1>3. CASE InsertToken
    BY <1>3, CacheInsertToken
  <1>4. CASE ListDone \/ ReturnAtOnce \/ SendCommand
    BY <1>4, CacheKeptAside DEF ListDone, ReturnAtOnce, SendCommand, Return, Idle, CacheByPC,
       ActivationPC
  <1>5. CASE CreateContextBTC \/ CreateContextETH
    BY <1>5, CacheCreateContext, SessionAssumption
       DEF CreateContextBTC, CreateContextETH, ContextType, SessionAssumption
  <1>6. CASE ClearContext
    BY <1>6, CacheClearContext
  <1>7. CASE CallCommand \/ CallSetUnitBTC \/ CallSetTimeOut
    BY <1>7, CacheContextCall DEF CallCommand, CallSetUnitBTC, CallSetTimeOut, CommandOps,
       HostOps, ContextOps, BTCOps, ETHOps, AnyTypeOps
  <1>8. CASE SelectApplet \/ ActivateTimeout \/ ActivateUnit \/ ActivateCoinType
             \/ CoinTypeUnknown
    BY <1>8, CacheActivation
  <1>9. CASE StartCommand
    BY <1>9, CacheKeptAside DEF StartCommand, Goto, Base, TypeOK, CacheByPC, ActivationPC
  <1>10. CASE StoreUnit \/ StoreTimeout
    BY <1>10, CacheStore
  <1>11. CASE SendSetting
    BY <1>11, CacheSendSetting
  <1>12. CASE CallMainDomain \/ CallEnum \/ CallGetAppletVersion \/ SelectMain
              \/ SelectForVersion \/ VersionsDone \/ SendOneApdu
    BY <1>12, CacheDeviceSteps
  <1>13. CASE \E p \in Path : DeviceReset(p)
    BY <1>13, CacheDeviceReset
  <1>14. QED
    BY <1>1, <1>2, <1>3, <1>4, <1>5, <1>6, <1>7, <1>8, <1>9, <1>10, <1>11, <1>12,
       <1>13 DEF Next, CallerStep

LEMMA CacheInit == Init => CacheByPC
  BY SessionAssumption DEF Init, Idle, EmptyTable, CacheByPC, CacheRight, ActivationPC,
     SessionAssumption

(* The promise of the cache holds between calls: whatever sequence of      *)
(* calls came before, a device that nothing disturbed is configured for    *)
(* the context _last points to.                                            *)
THEOREM CacheNeverStale == Spec => []LastIsConfigured
  <1>1. CacheByPC => LastIsConfigured
    BY DEF CacheByPC, CacheRight, LastIsConfigured
  <1>2. QED
    BY <1>1, CacheInit, CacheNext, BaseInit, BaseNext, PTL DEF Spec

(* So a command that skips ActiveSelf is as safe as one that performs it.  *)
THEOREM CommandsConfigured == Spec => []CommandUnderOwnSettings
  <1>1. Base /\ CacheByPC => CommandUnderOwnSettings
    <2> SUFFICES ASSUME Base, CacheByPC, call.pc = "send", call.op \in CommandOps,
                        call.path \in clean
                 PROVE  Configured(heap[call.ctx], call.path, device[call.path])
      BY DEF CommandUnderOwnSettings
    <2>1. /\ call.ctx \in Addr /\ heap[call.ctx] # NULL
          /\ call.path = PathOf(call.ctx) /\ contexts.last = call.ctx
      BY DEF Base, CallShape
    <2>2. CacheRight
      BY DEF CacheByPC
    <2>3. QED
      BY <2>1, <2>2 DEF CacheRight
  <1>2. QED
    BY <1>1, CacheInit, CacheNext, BaseInit, BaseNext, PTL DEF Spec
=============================================================================
