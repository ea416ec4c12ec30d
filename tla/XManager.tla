------------------------------ MODULE XManager ------------------------------
(***************************************************************************)
(* The handle table xManager<T> (include/utility/xManager.hpp), which the  *)
(* SDK instantiates three times: TokenManager, ContextManager and the BLE  *)
(* handle map.  A table is a record                                        *)
(*    map   the std::map from handles to objects, NULL where no key is     *)
(*    last  the pointer _last                                              *)
(*    id    the counter _ID of the last handle issued                      *)
(* and each operator returns the table after the call.  Objects are        *)
(* pointers: deleting what a pointer denotes is up to the module that owns *)
(* the heap.                                                               *)
(***************************************************************************)
EXTENDS Naturals

CONSTANTS
  MaxID,  \* the largest handle, 65535 in the code
  NULL    \* the null pointer, and the absence of a key

ASSUME MaxIDAssumption == MaxID \in Nat \ {0}

Handles == 1 .. MaxID

Table(Obj) ==
  [map : [Handles -> Obj \cup {NULL}], last : Obj \cup {NULL}, id : 0 .. MaxID]

EmptyTable == [map |-> [h \in Handles |-> NULL], last |-> NULL, id |-> 0]

(* Mutant: handles are issued again as soon as they are free.              *)
NextHandle_firstFree(t) ==
  IF t.id = MaxID THEN 1
  ELSE CHOOSE h \in Handles :
         /\ t.map[h] = NULL \/ h = t.id + 1
         /\ \A g \in 1 .. h - 1 : t.map[g] # NULL /\ g # t.id + 1

(* The handle the next AddOne issues: the counter restarts after MaxID.    *)
NextHandle(t) == IF t.id = MaxID THEN 1 ELSE t.id + 1

(* Mutant: map[_ID] = t instead of an insert.                              *)
AddOne_overwrites(t, x) ==
  [t EXCEPT !.map[NextHandle(t)] = x, !.id = NextHandle(t)]

(* std::map::insert keeps the object of a key that is already there, so a  *)
(* handle that comes round again still denotes its first object.           *)
AddOne(t, x) ==
  [t EXCEPT !.map[NextHandle(t)] = IF @ = NULL THEN x ELSE @,
            !.id = NextHandle(t)]

(* Erases the key, and leaves _last alone even when it is the same object. *)
ClearOne(t, h) == [t EXCEPT !.map[h] = NULL]

ClearLast(t) == [t EXCEPT !.last = NULL]

SetLast(t, x) == [t EXCEPT !.last = x]

GetHandleList(t) == {h \in Handles : t.map[h] # NULL}

Objects(t) == {t.map[h] : h \in GetHandleList(t)}
=============================================================================
