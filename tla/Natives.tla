------------------------------- MODULE Natives -------------------------------
(***************************************************************************)
(* The memory of the SDK's results, _allocMem and JUB_FreeMemory, and the  *)
(* Android natives (implJni.cpp) that take results from it: each calls the *)
(* SDK, makes a Java string of what it returned and frees it, or does not. *)
(* Natives run on several threads, one SDK call at a time.                 *)
(*                                                                         *)
(* Blocks are addresses: the allocator hands out any that is free.         *)
(***************************************************************************)
EXTENDS Integers

CONSTANTS
  Threads,
  Blocks,       \* addresses: bounds what may be allocated, or leaked, at once
  Errors,       \* error codes of the SDK, JUBR_OK is not one
  JUBR_OK,
  JUBR_REPEAT_MEMORY_PTR,
  NULL,
  MaxRounds,    \* bound: paths in the list of a native that loops
  Called        \* bound: the natives that threads run

ASSUME NativesAssumption ==
  JUBR_OK \notin Errors /\ NULL \notin Blocks \cup Threads /\ MaxRounds \in Nat \ {0}

VARIABLES
  live,        \* blocks allocated
  memPtrs,     \* blocks the SDK tracks
  empties,     \* live blocks that hold an empty string
  owner,       \* history: the native a block was last allocated for
  at           \* where each thread is

heap == <<live, memPtrs, empties, owner>>
vars == <<heap, at>>

(* Natives by what they do.                                                *)
DeviceNatives == {"GetDeviceCert", "EnumApplets", "GetAppletVersion", "EnumSupportCoins", "sendAPDU"}
AddressNatives == {"BTC_ShowAddress", "BTC_SetMyAddress", "ETHShowAddress", "SetMyAddressETH"}
LoopNatives == {"BTCGetAddress", "ETHGetAddress"}
SignNatives == {"BTCTransaction", "ETH_Transaction", "ETH_ERC20_Transaction"}
All == DeviceNatives \cup AddressNatives \cup LoopNatives \cup SignNatives

NeverFrees == LoopNatives \cup {"sendAPDU"}
MayBeEmpty == DeviceNatives

Steps == {"idle", "call", "unit", "node", "address", "abi", "sign", "readNode", "read", "free",
          "freeAbi"}

First(n) ==
  CASE n = "ETH_ERC20_Transaction" -> "abi"
    [] n = "BTCTransaction"        -> "unit"
    [] n \in LoopNatives           -> "node"
    [] OTHER                       -> "call"

ASSUME CallsAssumption == Called \subseteq All

Start(n) == [native |-> n, step |-> First(n), round |-> 1, ptr |-> NULL, abi |-> NULL, rv |-> JUBR_OK]

Init ==
  /\ live = {} /\ memPtrs = {} /\ empties = {} /\ owner = [a \in Blocks |-> "none"]
  /\ at = [t \in Threads |-> [Start("sendAPDU") EXCEPT !.step = "idle"]]

Goto(t, s) == at' = [at EXCEPT ![t].step = s]

Begin(t, n) ==
  /\ at[t].step = "idle"
  /\ at' = [at EXCEPT ![t] = Start(n)]
  /\ UNCHANGED heap

(* The round of a loop is over.                                            *)
EndRound(r) == IF r.round = MaxRounds THEN [r EXCEPT !.step = "idle"]
               ELSE [r EXCEPT !.step = "node", !.round = r.round + 1]

(* What JUB_SetUnitBTC returns is not looked at.                           *)
SetUnit(t) ==
  /\ at[t].step = "unit" /\ Goto(t, "call")
  /\ UNCHANGED heap

(* Mutant: a failed signature leaves without freeing the abi.              *)
Failed_keepsAbi(r, e) ==
  CASE r.step \in {"node", "address"}   -> [EndRound(r) EXCEPT !.rv = e]
    [] r.step = "call" /\ r.native = "EnumSupportCoins" -> [r EXCEPT !.step = "read", !.rv = e]
    [] OTHER                            -> [r EXCEPT !.step = "idle", !.rv = e]

(* Where a thread is after an SDK call returned e: the loops go on, the    *)
(* list of coins is used whatever came, and a transfer that was not signed *)
(* still frees its abi.                                                    *)
Failed(r, e) ==
  CASE r.step \in {"node", "address"}   -> [EndRound(r) EXCEPT !.rv = e]
    [] r.step = "call" /\ r.native = "EnumSupportCoins" -> [r EXCEPT !.step = "read", !.rv = e]
    [] r.step = "sign"                  -> [r EXCEPT !.step = "freeAbi", !.rv = e]
    [] OTHER                            -> [r EXCEPT !.step = "idle", !.rv = e]

InSdk(t) == at[t].step \in {"call", "node", "address", "abi", "sign"}

(* The SDK returns an error and leaves the result alone.                   *)
SdkFails(t, e) ==
  /\ InSdk(t)
  /\ at' = [at EXCEPT ![t] = Failed(at[t], e)]
  /\ UNCHANGED heap

Returned(r, a) ==
  CASE r.step = "abi"  -> [r EXCEPT !.abi = a, !.step = "sign"]
    [] r.step = "sign" -> [r EXCEPT !.ptr = a, !.step = "freeAbi"]
    [] r.step = "node" -> [r EXCEPT !.ptr = a, !.step = "readNode"]
    [] OTHER           -> [r EXCEPT !.ptr = a, !.step = "read"]

(* _allocMem: the block of an empty string is not tracked, and one that is *)
(* tracked already is an error.                                            *)
_allocMem(t, a, empty) ==
  /\ InSdk(t) /\ a \in Blocks \ live /\ (empty => at[t].native \in MayBeEmpty)
  /\ live' = live \cup {a} /\ owner' = [owner EXCEPT ![a] = at[t].native]
  /\ empties' = IF empty THEN empties \cup {a} ELSE empties \ {a}
  /\ memPtrs' = IF empty THEN memPtrs ELSE memPtrs \cup {a}
  /\ at' = [at EXCEPT ![t] = IF ~empty /\ a \in memPtrs
                             THEN Failed(at[t], JUBR_REPEAT_MEMORY_PTR)
                             ELSE Returned(at[t], a)]

(* NewStringUTF of the result.                                             *)
Read(t) ==
  /\ at[t].step \in {"read", "readNode"}
  /\ at' = [at EXCEPT ![t] =
       CASE at[t].step = "readNode"       -> [at[t] EXCEPT !.step = "address", !.ptr = NULL]
         [] at[t].step = "read" /\ at[t].native \in LoopNatives -> [EndRound(at[t]) EXCEPT !.ptr = NULL]
         [] at[t].step = "read" /\ at[t].native = "sendAPDU" -> [at[t] EXCEPT !.step = "idle", !.ptr = NULL]
         [] OTHER                         -> [at[t] EXCEPT !.step = "free"]]
  /\ UNCHANGED heap

(* A null pointer, or a block that is not tracked, is an error that no     *)
(* native looks at.                                                        *)
JUB_FreeMemory(p) ==
  IF p \in memPtrs THEN live' = live \ {p} /\ memPtrs' = memPtrs \ {p} /\ UNCHANGED <<empties, owner>>
  ELSE UNCHANGED heap

FreeResult(t) ==
  /\ at[t].step = "free"
  /\ JUB_FreeMemory(at[t].ptr)
  /\ at' = [at EXCEPT ![t].step = "idle", ![t].ptr = NULL]

(* Mutant: the abi is freed before it is signed.                           *)
FreeAbi_early(t) ==
  /\ at[t].step \in {"sign", "freeAbi"}
  /\ JUB_FreeMemory(at[t].abi)
  /\ at' = [at EXCEPT ![t].step = IF at[t].rv = JUBR_OK THEN "read" ELSE "idle"]

FreeAbi(t) ==
  /\ at[t].step = "freeAbi"
  /\ JUB_FreeMemory(at[t].abi)
  /\ at' = [at EXCEPT ![t].step = IF at[t].rv = JUBR_OK THEN "read" ELSE "idle", ![t].abi = NULL]

Next ==
  \E t \in Threads :
    \/ \E n \in Called : Begin(t, n)
    \/ SetUnit(t)
    \/ \E e \in Errors : SdkFails(t, e)
    \/ \E a \in Blocks, empty \in BOOLEAN : _allocMem(t, a, empty)
    \/ Read(t) \/ FreeResult(t) \/ FreeAbi(t)

Spec == Init /\ [][Next]_vars

-----------------------------------------------------------------------------
NextRecord == [native : All, step : Steps, round : 1 .. MaxRounds, ptr : Blocks \cup {NULL},
               abi : Blocks \cup {NULL}, rv : Errors \cup {JUBR_OK}]

Uses(t) == {at[t].ptr, at[t].abi} \ {NULL}

(* Type correctness; JUBR_REPEAT_MEMORY_PTR, which is not in Errors, is     *)
(* never met.                                                              *)
TypeOK ==
  /\ live \subseteq Blocks /\ memPtrs \subseteq Blocks /\ empties \subseteq Blocks
  /\ owner \in [Blocks -> All \cup {"none"}]
  /\ at \in [Threads -> NextRecord]

(* What a native makes a Java string of, or signs, is allocated, is its    *)
(* own result, and no other thread's.  What the SDK tracks is allocated:   *)
(* JUB_FreeMemory never frees a block a second time.                       *)
ResultsAreOwn ==
  /\ memPtrs \subseteq live
  /\ \A t \in Threads : \A a \in Uses(t) : a \in live /\ owner[a] = at[t].native
  /\ \A t, u \in Threads : t # u => Uses(t) \cap Uses(u) = {}

(* Memory is lost by three natives only, which never free, and for empty   *)
(* results, which JUB_FreeMemory refuses.                                  *)
OthersFree ==
  \A a \in live :
    \/ \E t \in Threads : a \in Uses(t)
    \/ a \in empties \/ owner[a] \in NeverFrees
=============================================================================
