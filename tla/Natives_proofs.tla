--------------------------- MODULE Natives_proofs ---------------------------
(* Theorems about Natives: for any number of threads, blocks and rounds.   *)
EXTENDS Natives, TLAPS

-----------------------------------------------------------------------------
(* A thread's two results are two blocks.                                  *)
TwoBlocks == \A t \in Threads : at[t].ptr # NULL => at[t].ptr # at[t].abi

MemoryInv == TypeOK /\ ResultsAreOwn /\ TwoBlocks

LEMMA EndRoundType ==
  ASSUME NEW r \in NextRecord
  PROVE  /\ EndRound(r) \in NextRecord
         /\ EndRound(r).ptr = r.ptr /\ EndRound(r).abi = r.abi /\ EndRound(r).native = r.native
<1>1. CASE r.round = MaxRounds
  BY <1>1 DEF EndRound, NextRecord, Steps
<1>2. CASE r.round # MaxRounds
  <2>1. r.round + 1 \in 1 .. MaxRounds
    BY <1>2, NativesAssumption DEF NativesAssumption, NextRecord
  <2> QED
    BY <1>2, <2>1 DEF EndRound, NextRecord, Steps
<1> QED
  BY <1>1, <1>2

(* A call that failed changes where its thread is, and no result.          *)
LEMMA FailedType ==
  ASSUME NEW r \in NextRecord, NEW e \in Errors
  PROVE  /\ Failed(r, e) \in NextRecord
         /\ Failed(r, e).ptr = r.ptr /\ Failed(r, e).abi = r.abi /\ Failed(r, e).native = r.native
<1>1. CASE r.step \in {"node", "address"}
  <2>1. Failed(r, e) = [EndRound(r) EXCEPT !.rv = e]
    BY <1>1 DEF Failed
  <2> QED
    BY <2>1, EndRoundType DEF NextRecord
<1>2. CASE r.step \notin {"node", "address"}
  BY <1>2 DEF Failed, NextRecord, Steps
<1> QED
  BY <1>1, <1>2

(* One that returned gives its thread one more result.                     *)
LEMMA ReturnedType ==
  ASSUME NEW r \in NextRecord, NEW a \in Blocks
  PROVE  /\ Returned(r, a) \in NextRecord
         /\ Returned(r, a).native = r.native
         /\ \/ Returned(r, a).ptr = a /\ Returned(r, a).abi = r.abi
            \/ Returned(r, a).abi = a /\ Returned(r, a).ptr = r.ptr
  BY DEF Returned, NextRecord, Steps

LEMMA MemoryInit == Init => MemoryInv
  BY NativesAssumption
  DEF Init, MemoryInv, TypeOK, ResultsAreOwn, TwoBlocks, Uses, Start, First, NextRecord, Steps, All,
      DeviceNatives, AddressNatives, LoopNatives, SignNatives

(* What a step does to one thread's record and to the heap that keeps the  *)
(* results as they should be.                                              *)
LEMMA SameHeap ==
  ASSUME MemoryInv, NEW t \in Threads, NEW r \in NextRecord,
         at' = [at EXCEPT ![t] = r], UNCHANGED heap,
         {r.ptr, r.abi} \ {NULL} \subseteq Uses(t),
         r.native = at[t].native \/ (r.ptr = NULL /\ r.abi = NULL),
         r.ptr # NULL => r.ptr # r.abi
  PROVE  MemoryInv'
<1>1. TypeOK'
  BY DEF MemoryInv, TypeOK, heap
<1>2. /\ \A u \in Threads \ {t} : at'[u] = at[u] /\ Uses(u)' = Uses(u)
      /\ at'[t] = r /\ Uses(t)' \subseteq Uses(t)
  BY DEF MemoryInv, TypeOK, Uses
<1>3. Uses(t)' # {} => r.native = at[t].native
  BY <1>2 DEF Uses
<1>4. ResultsAreOwn'
  BY <1>2, <1>3 DEF MemoryInv, ResultsAreOwn, heap
<1>5. TwoBlocks'
  BY <1>2 DEF MemoryInv, TwoBlocks
<1> QED
  BY <1>1, <1>4, <1>5 DEF MemoryInv

LEMMA Frees ==
  ASSUME MemoryInv, NEW t \in Threads, NEW r \in NextRecord, NEW p \in Uses(t) \cup {NULL},
         at' = [at EXCEPT ![t] = r], JUB_FreeMemory(p),
         {r.ptr, r.abi} \ {NULL} \subseteq Uses(t) \ {p}, r.native = at[t].native,
         r.ptr # NULL => r.ptr # r.abi
  PROVE  MemoryInv'
<1>1. CASE p \notin memPtrs
  <2>1. UNCHANGED heap /\ {r.ptr, r.abi} \ {NULL} \subseteq Uses(t)
    BY <1>1 DEF JUB_FreeMemory
  <2> QED
    BY <2>1, SameHeap
<1>2. CASE p \in memPtrs
  <2>1. live' = live \ {p} /\ memPtrs' = memPtrs \ {p} /\ UNCHANGED <<empties, owner>>
    BY <1>2 DEF JUB_FreeMemory
  <2>2. TypeOK'
    BY <2>1 DEF MemoryInv, TypeOK
  <2>3. \A u \in Threads : u # t => p \notin Uses(u)
    BY <1>2, NativesAssumption DEF MemoryInv, TypeOK, ResultsAreOwn
  <2>4. /\ \A u \in Threads \ {t} : at'[u] = at[u] /\ Uses(u)' = Uses(u)
        /\ at'[t] = r /\ Uses(t)' \subseteq Uses(t) \ {p}
    BY DEF MemoryInv, TypeOK, Uses
  <2> QED
    BY <2>1, <2>2, <2>3, <2>4 DEF MemoryInv, ResultsAreOwn, TwoBlocks
<1> QED
  BY <1>1, <1>2

LEMMA MemoryStep == MemoryInv /\ [Next]_vars => MemoryInv'
<1> SUFFICES ASSUME MemoryInv, [Next]_vars PROVE MemoryInv'
  OBVIOUS
<1>t. /\ at \in [Threads -> NextRecord] /\ \A t \in Threads : at[t] \in NextRecord
      /\ \A t \in Threads : at[t].ptr # NULL => at[t].ptr # at[t].abi
  BY DEF MemoryInv, TypeOK, TwoBlocks
<1>1. ASSUME NEW t \in Threads, NEW n \in Called, Begin(t, n) PROVE MemoryInv'
  <2>1. Start(n) \in NextRecord
    BY CallsAssumption, NativesAssumption
    DEF Start, First, NextRecord, Steps, All, DeviceNatives, AddressNatives, LoopNatives, SignNatives
  <2>2. Start(n).ptr = NULL /\ Start(n).abi = NULL
    BY DEF Start
  <2> QED
    BY <1>1, <1>t, <2>1, <2>2, SameHeap DEF Begin
<1>2. ASSUME NEW t \in Threads, SetUnit(t) PROVE MemoryInv'
  <2> DEFINE r == [at[t] EXCEPT !.step = "call"]
  <2>1. r \in NextRecord /\ r.ptr = at[t].ptr /\ r.abi = at[t].abi /\ r.native = at[t].native
    BY <1>t DEF NextRecord, Steps
  <2>2. at' = [at EXCEPT ![t] = r] /\ UNCHANGED heap
    BY <1>2, <1>t DEF SetUnit, Goto
  <2>3. {r.ptr, r.abi} \ {NULL} \subseteq Uses(t)
    BY <2>1 DEF Uses
  <2> HIDE DEF r
  <2> QED
    BY <1>t, <2>1, <2>2, <2>3, SameHeap
<1>3. ASSUME NEW t \in Threads, NEW e \in Errors, SdkFails(t, e) PROVE MemoryInv'
  <2> DEFINE r == Failed(at[t], e)
  <2>1. r \in NextRecord /\ r.ptr = at[t].ptr /\ r.abi = at[t].abi /\ r.native = at[t].native
    BY <1>t, FailedType
  <2>2. at' = [at EXCEPT ![t] = r] /\ UNCHANGED heap
    BY <1>3 DEF SdkFails
  <2> HIDE DEF r
  <2>3. {r.ptr, r.abi} \ {NULL} \subseteq Uses(t)
    BY <2>1 DEF Uses
  <2> QED
    BY <1>t, <2>1, <2>2, <2>3, SameHeap
<1>4. ASSUME NEW t \in Threads, NEW a \in Blocks, NEW empty \in BOOLEAN, _allocMem(t, a, empty)
      PROVE  MemoryInv'
  <2> DEFINE r == Returned(at[t], a)
  <2>1. a \notin live /\ a \notin memPtrs /\ a # NULL
    BY <1>4, NativesAssumption DEF _allocMem, MemoryInv, ResultsAreOwn
  <2>2. /\ live' = live \cup {a} /\ owner' = [owner EXCEPT ![a] = at[t].native]
        /\ memPtrs' = memPtrs \/ memPtrs' = memPtrs \cup {a}
        /\ at' = [at EXCEPT ![t] = r]
        /\ empties' \subseteq empties \cup {a}
    BY <1>4, <2>1 DEF _allocMem
  <2>3. /\ r \in NextRecord /\ r.native = at[t].native
        /\ \/ r.ptr = a /\ r.abi = at[t].abi
           \/ r.abi = a /\ r.ptr = at[t].ptr
    BY <1>t, ReturnedType
  <2> HIDE DEF r
  <2>4. TypeOK'
    BY <2>2, <2>3, <1>t DEF MemoryInv, TypeOK, NextRecord
  <2>5. /\ \A u \in Threads \ {t} : at'[u] = at[u] /\ Uses(u)' = Uses(u)
        /\ at'[t] = r /\ Uses(t)' \subseteq Uses(t) \cup {a}
    BY <2>2, <2>3, <1>t DEF Uses
  <2>6. \A u \in Threads : a \notin Uses(u)
    BY <2>1 DEF MemoryInv, ResultsAreOwn
  <2>7. owner'[a] = at[t].native /\ \A b \in live : owner'[b] = owner[b]
    BY <2>1, <2>2 DEF MemoryInv, TypeOK
  <2>8. ResultsAreOwn'
    BY <2>2, <2>3, <2>5, <2>6, <2>7 DEF MemoryInv, ResultsAreOwn
  <2>9. TwoBlocks'
    BY <2>1, <2>3, <2>5, <2>6, <1>t DEF TwoBlocks, Uses
  <2> QED
    BY <2>4, <2>8, <2>9 DEF MemoryInv
<1>5. ASSUME NEW t \in Threads, Read(t) PROVE MemoryInv'
  <2> DEFINE r == CASE at[t].step = "readNode"       -> [at[t] EXCEPT !.step = "address", !.ptr = NULL]
                    [] at[t].step = "read" /\ at[t].native \in LoopNatives -> [EndRound(at[t]) EXCEPT !.ptr = NULL]
                    [] at[t].step = "read" /\ at[t].native = "sendAPDU" -> [at[t] EXCEPT !.step = "idle", !.ptr = NULL]
                    [] OTHER                         -> [at[t] EXCEPT !.step = "free"]
  <2>1. EndRound(at[t]) \in NextRecord /\ EndRound(at[t]).abi = at[t].abi
        /\ EndRound(at[t]).native = at[t].native
    BY <1>t, EndRoundType
  <2>2. /\ r \in NextRecord /\ r.native = at[t].native /\ r.abi = at[t].abi
        /\ r.ptr \in {NULL, at[t].ptr}
    BY <1>t, <2>1 DEF NextRecord, Steps
  <2>3. at' = [at EXCEPT ![t] = r] /\ UNCHANGED heap
    BY <1>5 DEF Read
  <2> HIDE DEF r
  <2>4. {r.ptr, r.abi} \ {NULL} \subseteq Uses(t)
    BY <2>2 DEF Uses
  <2> QED
    BY <1>t, <2>2, <2>3, <2>4, SameHeap
<1>6. ASSUME NEW t \in Threads, FreeResult(t) PROVE MemoryInv'
  <2> DEFINE r == [at[t] EXCEPT !.step = "idle", !.ptr = NULL]
  <2>1. r \in NextRecord /\ r.ptr = NULL /\ r.abi = at[t].abi /\ r.native = at[t].native
    BY <1>t DEF NextRecord, Steps
  <2>2. at' = [at EXCEPT ![t] = r] /\ JUB_FreeMemory(at[t].ptr)
    BY <1>6, <1>t DEF FreeResult
  <2> HIDE DEF r
  <2>3. /\ at[t].ptr \in Uses(t) \cup {NULL}
        /\ {r.ptr, r.abi} \ {NULL} \subseteq Uses(t) \ {at[t].ptr}
    BY <1>t, <2>1 DEF Uses
  <2> QED
    BY <1>t, <2>1, <2>2, <2>3, Frees
<1>7. ASSUME NEW t \in Threads, FreeAbi(t) PROVE MemoryInv'
  <2> DEFINE r == [at[t] EXCEPT !.step = IF at[t].rv = JUBR_OK THEN "read" ELSE "idle", !.abi = NULL]
  <2>1. r \in NextRecord /\ r.ptr = at[t].ptr /\ r.abi = NULL /\ r.native = at[t].native
    BY <1>t DEF NextRecord, Steps
  <2>2. at' = [at EXCEPT ![t] = r]
    BY <1>7, <1>t DEF FreeAbi
  <2> HIDE DEF r
  <2>3. /\ at[t].abi \in Uses(t) \cup {NULL} /\ JUB_FreeMemory(at[t].abi)
        /\ {r.ptr, r.abi} \ {NULL} \subseteq Uses(t) \ {at[t].abi}
    BY <1>7, <1>t, <2>1 DEF FreeAbi, Uses
  <2> QED
    BY <1>t, <2>1, <2>2, <2>3, Frees
<1>8. CASE UNCHANGED vars
  BY <1>8 DEF vars, heap, MemoryInv, TypeOK, ResultsAreOwn, TwoBlocks, Uses
<1> QED
  BY <1>1, <1>2, <1>3, <1>4, <1>5, <1>6, <1>7, <1>8 DEF Next

LEMMA MemoryInvariant == Spec => []MemoryInv
  BY MemoryInit, MemoryStep, PTL DEF Spec

(* Type correctness; JUBR_REPEAT_MEMORY_PTR is never met.                  *)
THEOREM NativesTypeCorrect == Spec => []TypeOK
<1>1. MemoryInv => TypeOK
  BY DEF MemoryInv
<1> QED
  BY <1>1, MemoryInvariant, PTL

(* No native uses a result that was freed, or another's.                   *)
THEOREM ResultsStayOwn == Spec => []ResultsAreOwn
<1>1. MemoryInv => ResultsAreOwn
  BY DEF MemoryInv
<1> QED
  BY <1>1, MemoryInvariant, PTL

-----------------------------------------------------------------------------
(* Which results a thread holds at each of its steps, and of which native  *)
(* the step can be.                                                        *)
Stage(r) ==
  /\ r.step \in {"idle", "call", "unit", "node", "address", "abi"} => r.ptr = NULL /\ r.abi = NULL
  /\ r.step = "sign" => r.ptr = NULL
  /\ r.step = "freeAbi" /\ r.rv # JUBR_OK => r.ptr = NULL
  /\ r.step \in {"read", "free", "readNode"} => r.abi = NULL
  /\ r.step \in {"node", "readNode", "address"} => r.native \in LoopNatives
  /\ r.step \in {"abi", "sign", "freeAbi"} => r.native = "ETH_ERC20_Transaction"
  /\ r.step \in {"call", "unit", "abi", "sign"} => r.rv = JUBR_OK

StageInv == \A t \in Threads : Stage(at[t])

(* What is allocated and not tracked holds an empty string.                *)
Tracked == live \ memPtrs \subseteq empties

NativeInv == StageInv /\ Tracked /\ OthersFree

LEMMA NativeInit == Init => NativeInv
  BY DEF Init, NativeInv, StageInv, Stage, Tracked, OthersFree, Start

LEMMA StageStart ==
  ASSUME NEW n \in All
  PROVE  Stage(Start(n))
<1>1. Start(n).step = First(n) /\ Start(n).native = n /\ Start(n).ptr = NULL /\ Start(n).abi = NULL
      /\ Start(n).rv = JUBR_OK
  BY DEF Start
<1>2. /\ First(n) \in {"abi", "unit", "node", "call"}
      /\ First(n) = "abi" => n = "ETH_ERC20_Transaction"
      /\ First(n) = "node" => n \in LoopNatives
  BY DEF First
<1> QED
  BY <1>1, <1>2 DEF Stage

LEMMA StageEndRound ==
  ASSUME NEW r \in NextRecord, r.native \in LoopNatives
  PROVE  /\ EndRound(r).step \in {"idle", "node"} /\ EndRound(r).native = r.native
         /\ EndRound(r).ptr = r.ptr /\ EndRound(r).abi = r.abi /\ EndRound(r).rv = r.rv
         /\ EndRound(r) \in NextRecord
  BY EndRoundType DEF EndRound, NextRecord

LEMMA StageFailed ==
  ASSUME NEW r \in NextRecord, Stage(r), NEW e \in Errors,
         r.step \in {"call", "node", "address", "abi", "sign"}
  PROVE  Stage(Failed(r, e)) /\ Failed(r, e).rv = e
<1>1. CASE r.step \in {"node", "address"}
  <2>1. Failed(r, e) = [EndRound(r) EXCEPT !.rv = e] /\ r.native \in LoopNatives
        /\ r.ptr = NULL /\ r.abi = NULL
    BY <1>1 DEF Failed, Stage
  <2>2. /\ Failed(r, e).step \in {"idle", "node"} /\ Failed(r, e).native \in LoopNatives
        /\ Failed(r, e).ptr = NULL /\ Failed(r, e).abi = NULL /\ Failed(r, e).rv = e
    BY <2>1, StageEndRound DEF NextRecord
  <2> QED
    BY <2>2 DEF Stage
<1>2. CASE r.step = "call"
  <2>1. /\ Failed(r, e).step \in {"idle", "read"} /\ Failed(r, e).rv = e
        /\ Failed(r, e).ptr = NULL /\ Failed(r, e).abi = NULL
    BY <1>2 DEF Failed, Stage, NextRecord
  <2> QED
    BY <2>1 DEF Stage
<1>3. CASE r.step = "abi"
  <2>1. /\ Failed(r, e).step = "idle" /\ Failed(r, e).rv = e
        /\ Failed(r, e).ptr = NULL /\ Failed(r, e).abi = NULL
    BY <1>3 DEF Failed, Stage, NextRecord
  <2> QED
    BY <2>1 DEF Stage
<1>4. CASE r.step = "sign"
  <2>1. /\ Failed(r, e).step = "freeAbi" /\ Failed(r, e).rv = e /\ Failed(r, e).ptr = NULL
        /\ Failed(r, e).native = "ETH_ERC20_Transaction"
    BY <1>4 DEF Failed, Stage, NextRecord
  <2> QED
    BY <2>1 DEF Stage
<1> QED
  BY <1>1, <1>2, <1>3, <1>4

(* Nothing is overwritten: the call that returned had no result before.    *)
LEMMA StageReturned ==
  ASSUME NEW r \in NextRecord, Stage(r), NEW a \in Blocks,
         r.step \in {"call", "node", "address", "abi", "sign"}
  PROVE  /\ Stage(Returned(r, a)) /\ Returned(r, a).rv = r.rv
         /\ {r.ptr, r.abi} \cup {a} \subseteq {Returned(r, a).ptr, Returned(r, a).abi} \cup {NULL}
<1>1. CASE r.step = "abi"
  <2>1. Returned(r, a) = [r EXCEPT !.abi = a, !.step = "sign"]
    BY <1>1 DEF Returned
  <2>2. /\ Returned(r, a).step = "sign" /\ Returned(r, a).abi = a /\ Returned(r, a).ptr = NULL
        /\ Returned(r, a).native = "ETH_ERC20_Transaction" /\ Returned(r, a).rv = JUBR_OK
        /\ r.ptr = NULL /\ r.abi = NULL /\ r.rv = JUBR_OK
    BY <1>1, <2>1 DEF Stage, NextRecord
  <2> QED
    BY <2>2 DEF Stage
<1>2. CASE r.step = "sign"
  <2>1. Returned(r, a) = [r EXCEPT !.ptr = a, !.step = "freeAbi"]
    BY <1>2 DEF Returned
  <2>2. /\ Returned(r, a).step = "freeAbi" /\ Returned(r, a).ptr = a /\ Returned(r, a).abi = r.abi
        /\ Returned(r, a).native = "ETH_ERC20_Transaction" /\ Returned(r, a).rv = JUBR_OK
        /\ r.ptr = NULL /\ r.rv = JUBR_OK
    BY <1>2, <2>1 DEF Stage, NextRecord
  <2> QED
    BY <2>2 DEF Stage
<1>3. CASE r.step \in {"call", "node", "address"}
  <2>1. /\ Returned(r, a).step = IF r.step = "node" THEN "readNode" ELSE "read"
        /\ Returned(r, a).ptr = a /\ Returned(r, a).abi = r.abi /\ Returned(r, a).native = r.native
        /\ Returned(r, a).rv = r.rv
    BY <1>3 DEF Returned, NextRecord
  <2>2. r.ptr = NULL /\ r.abi = NULL /\ (r.step = "node" => r.native \in LoopNatives)
    BY <1>3 DEF Stage
  <2> QED
    BY <2>1, <2>2 DEF Stage
<1> QED
  BY <1>1, <1>2, <1>3

(* A step that frees nothing and drops no block but those of the natives   *)
(* that never free loses no more memory.                                   *)
LEMMA OthersFreeKept ==
  ASSUME MemoryInv, OthersFree, NEW t \in Threads, NEW r \in NextRecord,
         at' = [at EXCEPT ![t] = r], UNCHANGED heap,
         \A a \in Uses(t) : a \in {r.ptr, r.abi} \/ a \in empties \/ at[t].native \in NeverFrees
  PROVE  OthersFree'
<1>1. /\ \A u \in Threads \ {t} : Uses(u)' = Uses(u)
      /\ Uses(t)' = {r.ptr, r.abi} \ {NULL} /\ Uses(t) = {at[t].ptr, at[t].abi} \ {NULL}
  BY DEF MemoryInv, TypeOK, Uses
<1> SUFFICES ASSUME NEW a \in live
             PROVE  (\E u \in Threads : a \in Uses(u)') \/ a \in empties \/ owner[a] \in NeverFrees
  BY DEF OthersFree, heap
<1>2. CASE \E u \in Threads \ {t} : a \in Uses(u)
  BY <1>1, <1>2
<1>3. CASE a \in Uses(t)
  <2>1. owner[a] = at[t].native /\ a # NULL
    BY <1>1, <1>3 DEF MemoryInv, ResultsAreOwn
  <2> QED
    BY <1>1, <1>3, <2>1
<1>4. CASE a \in empties \/ owner[a] \in NeverFrees
  BY <1>4
<1> QED
  BY <1>2, <1>3, <1>4 DEF OthersFree

LEMMA OthersFreeFreed ==
  ASSUME MemoryInv, Tracked, OthersFree, NEW t \in Threads, NEW r \in NextRecord,
         NEW p \in Uses(t) \cup {NULL}, at' = [at EXCEPT ![t] = r], JUB_FreeMemory(p),
         \A a \in Uses(t) \ {p} : a \in {r.ptr, r.abi}
  PROVE  OthersFree' /\ Tracked'
<1>1. CASE p \notin memPtrs
  <2>1. UNCHANGED heap
    BY <1>1 DEF JUB_FreeMemory
  <2>2. \A a \in Uses(t) : a \in {r.ptr, r.abi} \/ a \in empties
    BY <1>1 DEF Tracked, MemoryInv, ResultsAreOwn
  <2>3. OthersFree'
    BY <2>1, <2>2, OthersFreeKept
  <2> QED
    BY <2>1, <2>3 DEF Tracked, heap
<1>2. CASE p \in memPtrs
  <2>1. live' = live \ {p} /\ memPtrs' = memPtrs \ {p} /\ UNCHANGED <<empties, owner>>
    BY <1>2 DEF JUB_FreeMemory
  <2>2. /\ \A u \in Threads \ {t} : Uses(u)' = Uses(u)
        /\ Uses(t)' = {r.ptr, r.abi} \ {NULL} /\ Uses(t) = {at[t].ptr, at[t].abi} \ {NULL}
    BY DEF MemoryInv, TypeOK, Uses
  <2>3. ASSUME NEW a \in live'
        PROVE  (\E u \in Threads : a \in Uses(u)') \/ a \in empties \/ owner[a] \in NeverFrees
    <3>1. a \in live /\ a # p
      BY <2>1
    <3>2. a \in Uses(t) => a \in Uses(t)'
      BY <2>2, <3>1
    <3> QED
      BY <2>2, <3>1, <3>2 DEF OthersFree
  <2> QED
    BY <2>1, <2>3 DEF OthersFree, Tracked
<1> QED
  BY <1>1, <1>2

LEMMA NativeStep == MemoryInv /\ NativeInv /\ [Next]_vars => NativeInv'
<1> SUFFICES ASSUME MemoryInv, NativeInv, [Next]_vars PROVE NativeInv'
  OBVIOUS
<1>t. /\ at \in [Threads -> NextRecord] /\ \A t \in Threads : at[t] \in NextRecord
      /\ \A t \in Threads : Stage(at[t])
      /\ Tracked /\ OthersFree
      /\ memPtrs \subseteq live
  BY DEF MemoryInv, TypeOK, ResultsAreOwn, NativeInv, StageInv
<1>s. ASSUME NEW t \in Threads, NEW r \in NextRecord, at' = [at EXCEPT ![t] = r], Stage(r)
      PROVE  StageInv' /\ at'[t] = r /\ \A u \in Threads \ {t} : at'[u] = at[u]
  BY <1>s, <1>t DEF StageInv
<1>1. ASSUME NEW t \in Threads, NEW n \in Called, Begin(t, n) PROVE NativeInv'
  <2>1. Start(n) \in NextRecord /\ Stage(Start(n)) /\ Start(n).rv = JUBR_OK
    BY CallsAssumption, NativesAssumption, StageStart
    DEF Start, First, NextRecord, Steps, All, DeviceNatives, AddressNatives, LoopNatives, SignNatives
  <2>2. at' = [at EXCEPT ![t] = Start(n)] /\ UNCHANGED heap
    BY <1>1 DEF Begin
  <2>3. Uses(t) = {}
    BY <1>1, <1>t DEF Begin, Stage, Uses
  <2>4. OthersFree'
    BY <1>t, <2>1, <2>2, <2>3, OthersFreeKept
  <2>5. StageInv'
    BY <1>s, <2>1, <2>2
  <2> QED
    BY <1>t, <2>2, <2>4, <2>5 DEF NativeInv, Tracked, heap
<1>2. ASSUME NEW t \in Threads, SetUnit(t) PROVE NativeInv'
  <2> DEFINE r == [at[t] EXCEPT !.step = "call"]
  <2>1. /\ r \in NextRecord /\ r.ptr = at[t].ptr /\ r.abi = at[t].abi /\ r.native = at[t].native
        /\ r.rv = at[t].rv /\ r.step = "call" /\ at[t].step = "unit"
    BY <1>2, <1>t DEF NextRecord, Steps, SetUnit
  <2>2. at' = [at EXCEPT ![t] = r] /\ UNCHANGED heap
    BY <1>2, <1>t DEF SetUnit, Goto
  <2> HIDE DEF r
  <2>3. Stage(r)
    BY <1>t, <2>1 DEF Stage
  <2>4. OthersFree'
    BY <1>t, <2>1, <2>2, OthersFreeKept DEF Uses
  <2>5. StageInv'
    BY <1>s, <2>1, <2>2, <2>3
  <2> QED
    BY <1>t, <2>2, <2>4, <2>5 DEF NativeInv, Tracked, heap
<1>3. ASSUME NEW t \in Threads, NEW e \in Errors, SdkFails(t, e) PROVE NativeInv'
  <2> DEFINE r == Failed(at[t], e)
  <2>1. /\ r \in NextRecord /\ r.ptr = at[t].ptr /\ r.abi = at[t].abi /\ r.native = at[t].native
        /\ Stage(r) /\ r.rv = e /\ at' = [at EXCEPT ![t] = r] /\ UNCHANGED heap
    BY <1>3, <1>t, FailedType, StageFailed DEF SdkFails, InSdk
  <2> HIDE DEF r
  <2>2. OthersFree'
    BY <1>t, <2>1, OthersFreeKept DEF Uses
  <2>3. StageInv'
    BY <1>s, <2>1
  <2> QED
    BY <1>t, <2>1, <2>2, <2>3 DEF NativeInv, Tracked, heap
<1>4. ASSUME NEW t \in Threads, NEW a \in Blocks, NEW empty \in BOOLEAN, _allocMem(t, a, empty)
      PROVE  NativeInv'
  <2> DEFINE r == Returned(at[t], a)
  <2>1. a \notin live /\ a \notin memPtrs /\ a # NULL /\ at[t].step \in {"call", "node", "address", "abi", "sign"}
    BY <1>4, <1>t, NativesAssumption DEF _allocMem, NativesAssumption, InSdk
  <2>2. /\ live' = live \cup {a} /\ owner' = [owner EXCEPT ![a] = at[t].native]
        /\ empties' = IF empty THEN empties \cup {a} ELSE empties \ {a}
        /\ memPtrs' = IF empty THEN memPtrs ELSE memPtrs \cup {a}
        /\ at' = [at EXCEPT ![t] = r]
    BY <1>4, <2>1 DEF _allocMem
  <2>3. /\ r \in NextRecord /\ r.native = at[t].native /\ r.rv = at[t].rv /\ Stage(r)
        /\ {at[t].ptr, at[t].abi} \cup {a} \subseteq {r.ptr, r.abi} \cup {NULL}
    BY <1>t, <2>1, ReturnedType, StageReturned
  <2> HIDE DEF r
  <2>4. StageInv'
    BY <1>s, <2>2, <2>3
  <2>5. Tracked'
    BY <1>t, <2>2 DEF Tracked
  <2>6. OthersFree'
    <3>1. /\ \A u \in Threads \ {t} : Uses(u)' = Uses(u)
          /\ Uses(t)' = {r.ptr, r.abi} \ {NULL} /\ Uses(t) = {at[t].ptr, at[t].abi} \ {NULL}
      BY <1>t, <2>2 DEF Uses
    <3>2. a \in Uses(t)' /\ Uses(t) \subseteq Uses(t)'
      BY <2>1, <2>3, <3>1
    <3>3. \A b \in live : owner'[b] = owner[b] /\ (b \in empties => b \in empties')
      BY <2>1, <2>2 DEF MemoryInv, TypeOK
    <3>4. ASSUME NEW b \in live
          PROVE  (\E u \in Threads : b \in Uses(u)') \/ b \in empties' \/ owner'[b] \in NeverFrees
      BY <1>t, <3>1, <3>2, <3>3 DEF OthersFree
    <3> QED
      BY <2>2, <3>2, <3>4 DEF OthersFree
  <2> QED
    BY <2>4, <2>5, <2>6 DEF NativeInv
<1>5. ASSUME NEW t \in Threads, Read(t) PROVE NativeInv'
  <2>1. /\ UNCHANGED heap /\ at[t].abi = NULL
        /\ at[t].step \in {"read", "readNode"}
    BY <1>5, <1>t DEF Read, Stage
  <2>2. PICK r \in NextRecord :
           /\ at' = [at EXCEPT ![t] = r] /\ r.native = at[t].native /\ r.rv = at[t].rv
           /\ r.abi = NULL /\ Stage(r)
           /\ r.ptr = at[t].ptr \/ at[t].native \in NeverFrees
    <3>1. CASE at[t].step = "readNode"
      <4> DEFINE r == [at[t] EXCEPT !.step = "address", !.ptr = NULL]
      <4>1. at' = [at EXCEPT ![t] = r]
        BY <1>5, <3>1 DEF Read
      <4>2. /\ r \in NextRecord /\ r.native = at[t].native /\ r.rv = at[t].rv /\ r.abi = at[t].abi
            /\ r.ptr = NULL /\ r.step = "address"
        BY <1>t DEF NextRecord, Steps
      <4>3. at[t].native \in LoopNatives
        BY <1>t, <3>1 DEF Stage
      <4> HIDE DEF r
      <4>4. Stage(r)
        BY <2>1, <4>2, <4>3 DEF Stage
      <4> QED
        BY <2>1, <4>1, <4>2, <4>3, <4>4 DEF NeverFrees
    <3>2. CASE at[t].step = "read" /\ at[t].native \in LoopNatives
      <4> DEFINE r == [EndRound(at[t]) EXCEPT !.ptr = NULL]
      <4>0. /\ ~(at[t].step = "readNode")
            /\ ~(at[t].step = "read" /\ at[t].native = "sendAPDU")
        BY <3>2 DEF LoopNatives
      <4>a. at' = [at EXCEPT ![t] =
                 CASE at[t].step = "readNode" -> [at[t] EXCEPT !.step = "address", !.ptr = NULL]
                   [] at[t].step = "read" /\ at[t].native \in LoopNatives -> r
                   [] at[t].step = "read" /\ at[t].native = "sendAPDU" -> [at[t] EXCEPT !.step = "idle", !.ptr = NULL]
                   [] OTHER -> [at[t] EXCEPT !.step = "free"]]
        BY <1>5 DEF Read
      <4>b. (CASE at[t].step = "readNode" -> [at[t] EXCEPT !.step = "address", !.ptr = NULL]
               [] at[t].step = "read" /\ at[t].native \in LoopNatives -> r
               [] at[t].step = "read" /\ at[t].native = "sendAPDU" -> [at[t] EXCEPT !.step = "idle", !.ptr = NULL]
               [] OTHER -> [at[t] EXCEPT !.step = "free"]) = r
        <5> HIDE DEF r
        <5> QED BY <3>2, <4>0
      <4> HIDE DEF r
      <4>1. at' = [at EXCEPT ![t] = r]
        BY <4>a, <4>b
      <4> USE DEF r
      <4>2. /\ r \in NextRecord /\ r.native = at[t].native /\ r.rv = at[t].rv /\ r.abi = at[t].abi
            /\ r.ptr = NULL /\ r.step \in {"idle", "node"}
        BY <1>t, <3>2, StageEndRound DEF NextRecord
      <4> HIDE DEF r
      <4>3. Stage(r)
        BY <2>1, <3>2, <4>2 DEF Stage
      <4> QED
        BY <2>1, <3>2, <4>1, <4>2, <4>3 DEF NeverFrees
    <3>3. CASE at[t].step = "read" /\ at[t].native = "sendAPDU"
      <4> DEFINE r == [at[t] EXCEPT !.step = "idle", !.ptr = NULL]
      <4>1. at' = [at EXCEPT ![t] = r]
        BY <1>5, <3>3 DEF Read, LoopNatives
      <4>2. /\ r \in NextRecord /\ r.native = at[t].native /\ r.rv = at[t].rv /\ r.abi = at[t].abi
            /\ r.ptr = NULL /\ r.step = "idle"
        BY <1>t DEF NextRecord, Steps
      <4> HIDE DEF r
      <4>3. Stage(r)
        BY <2>1, <4>2 DEF Stage
      <4> QED
        BY <2>1, <3>3, <4>1, <4>2, <4>3 DEF NeverFrees
    <3>4. CASE at[t].step = "read" /\ at[t].native \notin LoopNatives \cup {"sendAPDU"}
      <4> DEFINE r == [at[t] EXCEPT !.step = "free"]
      <4>1. at' = [at EXCEPT ![t] = r]
        BY <1>5, <3>4 DEF Read
      <4>2. /\ r \in NextRecord /\ r.native = at[t].native /\ r.rv = at[t].rv /\ r.abi = at[t].abi
            /\ r.ptr = at[t].ptr /\ r.step = "free"
        BY <1>t DEF NextRecord, Steps
      <4> HIDE DEF r
      <4>3. Stage(r)
        BY <2>1, <4>2 DEF Stage
      <4> QED
        BY <2>1, <4>1, <4>2, <4>3
    <3> QED
      BY <2>1, <3>1, <3>2, <3>3, <3>4
  <2>3. OthersFree'
    <3>1. \A a \in Uses(t) : a \in {r.ptr, r.abi} \/ a \in empties \/ at[t].native \in NeverFrees
      BY <2>1, <2>2 DEF Uses
    <3> QED
      BY <1>t, <2>1, <2>2, <3>1, OthersFreeKept
  <2>4. StageInv'
    BY <1>s, <2>1, <2>2
  <2> QED
    BY <1>t, <2>1, <2>3, <2>4 DEF NativeInv, Tracked, heap
<1>6. ASSUME NEW t \in Threads, FreeResult(t) PROVE NativeInv'
  <2> DEFINE r == [at[t] EXCEPT !.step = "idle", !.ptr = NULL]
  <2>1. /\ r \in NextRecord /\ r.ptr = NULL /\ r.abi = NULL /\ r.native = at[t].native
        /\ r.rv = at[t].rv /\ r.step = "idle" /\ at[t].abi = NULL
    BY <1>6, <1>t DEF FreeResult, Stage, NextRecord, Steps
  <2>2. at' = [at EXCEPT ![t] = r] /\ JUB_FreeMemory(at[t].ptr)
    BY <1>6, <1>t DEF FreeResult
  <2> HIDE DEF r
  <2>3. Stage(r)
    BY <2>1 DEF Stage
  <2>4. /\ at[t].ptr \in Uses(t) \cup {NULL} /\ Uses(t) \ {at[t].ptr} = {}
    BY <2>1 DEF Uses
  <2>5. OthersFree' /\ Tracked'
    BY <1>t, <2>1, <2>2, <2>4, OthersFreeFreed
  <2>6. StageInv'
    BY <1>s, <2>1, <2>2, <2>3
  <2> QED
    BY <2>5, <2>6 DEF NativeInv
<1>7. ASSUME NEW t \in Threads, FreeAbi(t) PROVE NativeInv'
  <2> DEFINE r == [at[t] EXCEPT !.step = IF at[t].rv = JUBR_OK THEN "read" ELSE "idle", !.abi = NULL]
  <2>1. /\ r \in NextRecord /\ r.ptr = at[t].ptr /\ r.abi = NULL /\ r.native = at[t].native
        /\ r.rv = at[t].rv /\ r.step = IF at[t].rv = JUBR_OK THEN "read" ELSE "idle"
    BY <1>t DEF NextRecord, Steps
  <2>2. at' = [at EXCEPT ![t] = r] /\ JUB_FreeMemory(at[t].abi) /\ at[t].step = "freeAbi"
    BY <1>7, <1>t DEF FreeAbi
  <2> HIDE DEF r
  <2>3. Stage(r)
    BY <1>t, <2>1, <2>2 DEF Stage
  <2>4. /\ at[t].abi \in Uses(t) \cup {NULL}
        /\ \A a \in Uses(t) \ {at[t].abi} : a \in {r.ptr, r.abi}
    BY <2>1 DEF Uses
  <2>5. OthersFree' /\ Tracked'
    BY <1>t, <2>1, <2>2, <2>4, OthersFreeFreed
  <2>6. StageInv'
    BY <1>s, <2>1, <2>2, <2>3
  <2> QED
    BY <2>5, <2>6 DEF NativeInv
<1>8. CASE UNCHANGED vars
  BY <1>8 DEF vars, heap, NativeInv, StageInv, Tracked, OthersFree, Uses
<1> QED
  BY <1>1, <1>2, <1>3, <1>4, <1>5, <1>6, <1>7, <1>8 DEF Next

LEMMA NativeInvariant == Spec => []NativeInv
  BY MemoryInit, MemoryStep, NativeInit, NativeStep, PTL DEF Spec

(* Every result of a native that frees is in use by it, or freed, or was   *)
(* empty: no path of the failed and half finished calls loses one.         *)
THEOREM OthersAlwaysFree == Spec => []OthersFree
<1>1. NativeInv => OthersFree
  BY DEF NativeInv
<1> QED
  BY <1>1, NativeInvariant, PTL
=============================================================================
