------------------------------ MODULE Signing ------------------------------
(***************************************************************************)
(* What signing a transaction promises: the device signs what was asked,   *)
(* each request at most once and in the order they were asked, and the     *)
(* caller gets that signature, an error, or that the user refused.  A call *)
(* that failed may have been signed, or still be, when the caller has gone *)
(* on; one that was refused is not.                                        *)
(*                                                                         *)
(* After a call was given up its answers may come while the next one waits *)
(* and be taken for its own: that call is crossed, and its result says     *)
(* nothing of what was signed.                                             *)
(***************************************************************************)
EXTENDS Naturals, Sequences

VARIABLES
  asked,      \* number of the last request
  signed,     \* the requests the device signed, one after the other
  result,     \* of the last request: "none", "busy", "ok", "error" or "cancelled"
  abandoned,  \* a call was given up
  crossed     \* the last call may have taken the answers of one before

Has(r) == \E i \in 1 .. Len(signed) : signed[i] = r

Init == asked = 0 /\ signed = <<>> /\ result = "none" /\ abandoned = FALSE /\ crossed = FALSE

Ask ==
  /\ result # "busy"
  /\ asked' = asked + 1 /\ result' = "busy" /\ crossed' = FALSE
  /\ UNCHANGED <<signed, abandoned>>

Sign(r) ==
  /\ \A i \in 1 .. Len(signed) : signed[i] < r
  /\ r = asked /\ ~crossed => result \notin {"ok", "cancelled"}
  /\ signed' = Append(signed, r)
  /\ UNCHANGED <<asked, result, abandoned, crossed>>

Cross ==
  /\ result = "busy" /\ abandoned
  /\ crossed' = TRUE
  /\ UNCHANGED <<asked, signed, result, abandoned>>

Return ==
  /\ result = "busy" /\ (Has(asked) \/ crossed)
  /\ result' = "ok"
  /\ UNCHANGED <<asked, signed, abandoned, crossed>>

Cancel ==
  /\ result = "busy" /\ (~Has(asked) \/ crossed)
  /\ result' = "cancelled"
  /\ UNCHANGED <<asked, signed, abandoned, crossed>>

Fail ==
  /\ result = "busy"
  /\ result' = "error" /\ abandoned' \in {abandoned, TRUE}
  /\ UNCHANGED <<asked, signed, crossed>>

Next == Ask \/ (\E r \in 1 .. asked : Sign(r)) \/ Cross \/ Return \/ Cancel \/ Fail

Spec == Init /\ [][Next]_<<asked, signed, result, abandoned, crossed>>
=============================================================================
