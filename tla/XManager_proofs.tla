-------------------------- MODULE XManager_proofs ---------------------------
(* What the operators on handle tables return, for every range of handles. *)
EXTENDS XManager, TLAPS

-----------------------------------------------------------------------------
(* The next handle is in range, and the next number but for the wrap.     *)
LEMMA NextHandleInRange ==
  ASSUME NEW Obj, NEW t \in Table(Obj)
  PROVE  /\ NextHandle(t) \in Handles
         /\ t.id # MaxID => NextHandle(t) = t.id + 1
  BY MaxIDAssumption DEF MaxIDAssumption, Table, Handles, NextHandle

(* An insert keeps the type, and changes the map at the next handle only,  *)
(* where no object was.                                                    *)
LEMMA AddOneType ==
  ASSUME NEW Obj, NEW t \in Table(Obj), NEW x \in Obj
  PROVE  AddOne(t, x) \in Table(Obj)
  <1>1. NextHandle(t) \in Handles /\ NextHandle(t) \in 0 .. MaxID
    BY NextHandleInRange, MaxIDAssumption DEF Handles, MaxIDAssumption
  <1>2. QED
    BY <1>1 DEF Table, AddOne

LEMMA AddOneMap ==
  ASSUME NEW Obj, NEW t \in Table(Obj), NEW x
  PROVE  /\ AddOne(t, x).id = NextHandle(t)
         /\ AddOne(t, x).last = t.last
         /\ AddOne(t, x).map[NextHandle(t)] =
              IF t.map[NextHandle(t)] = NULL THEN x ELSE t.map[NextHandle(t)]
         /\ \A h \in Handles : h # NextHandle(t) => AddOne(t, x).map[h] = t.map[h]
  <1>1. NextHandle(t) \in Handles
    BY NextHandleInRange
  <1>2. QED
    BY <1>1 DEF Table, AddOne

(* The other operations keep the type.                                     *)
LEMMA TableOpsType ==
  ASSUME NEW Obj, NEW t \in Table(Obj)
  PROVE  /\ \A h \in Handles : ClearOne(t, h) \in Table(Obj)
         /\ ClearLast(t) \in Table(Obj)
         /\ \A x \in Obj : SetLast(t, x) \in Table(Obj)
  BY DEF Table, ClearOne, ClearLast, SetLast
=============================================================================
