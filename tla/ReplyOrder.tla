----------------------------- MODULE ReplyOrder -----------------------------
(***************************************************************************)
(* What a command channel without correlation identifiers can promise its  *)
(* caller: commands are numbered as they are sent, and the replies handed  *)
(* over are those of ever later commands that were sent.  A reply may be   *)
(* skipped, and may come when a later command is waiting, but none is      *)
(* handed over twice and none overtakes another.                           *)
(***************************************************************************)
EXTENDS Naturals, Sequences

VARIABLES
  sent,     \* the number of commands sent
  answered  \* the commands whose replies were handed over, in that order

Init == sent = 0 /\ answered = <<>>

Latest == IF answered = <<>> THEN 0 ELSE answered[Len(answered)]

Send == sent' = sent + 1 /\ UNCHANGED answered

HandOver ==
  /\ \E c \in (Latest + 1) .. sent : answered' = Append(answered, c)
  /\ UNCHANGED sent

Next == Send \/ HandOver

Spec == Init /\ [][Next]_<<sent, answered>>
=============================================================================
