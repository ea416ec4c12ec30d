------------------------------ MODULE TlvParse ------------------------------
(***************************************************************************)
(* ParseTlv, as EnumApplet runs it over the device's answer, and Split, as *)
(* EnumSupportCoins takes its result apart again.  The answer is a list of *)
(* TLVs as ToTlv writes them, which may be cut off: the code follows the   *)
(* lengths it reads beyond the end of its buffer, which is undefined.      *)
(*                                                                         *)
(* External: the device, which writes its answer one TLV after another.  A *)
(* value is told by its length, and its bytes are those that would pass    *)
(* for a length of two bytes.                                              *)
(***************************************************************************)
EXTENDS Encoding

CONSTANTS
  Lists,   \* sequences of lengths, each of two bytes at most
  Cuts     \* how many bytes an answer may lack

VARIABLES
  list,    \* the lengths of the values in the answer
  cut,     \* the bytes it lacks
  answer,  \* external, then tlvData: the bytes of the answer
  starts,  \* external: where in it each TLV begins, and the next would
  pc,      \* "answer", "parse", "split", "done" or "undefined"
  pos,     \* position in the data
  out      \* lengths of dataList, then of the words of the applet list

vars == <<list, cut, answer, starts, pc, pos, out>>
written == <<list, cut, answer, starts>>

Value(n) == [i \in 1 .. n |-> 130]

Init ==
  /\ list \in Lists /\ cut \in Cuts
  /\ answer = <<>> /\ starts = <<1>>
  /\ pc = "answer" /\ pos = 1 /\ out = <<>>

(* External.                                                               *)
DeviceWrites ==
  /\ pc = "answer" /\ Len(starts) <= Len(list)
  /\ answer' = answer \o ToTlv(79, Value(list[Len(starts)]))
  /\ starts' = Append(starts, Len(answer') + 1)
  /\ UNCHANGED <<list, cut, pc, pos, out>>

(* EnumApplet has the answer, or what came of it.                          *)
AnswerComes ==
  /\ pc = "answer" /\ Len(starts) > Len(list)
  /\ answer' = SubSeq(answer, 1, IF cut < Len(answer) THEN Len(answer) - cut ELSE 0)
  /\ pc' = "parse"
  /\ UNCHANGED <<list, cut, starts, pos, out>>

(* The length that begins at p, and how many bytes it takes.               *)
LengthAt(data, p) ==
  IF data[p] = 130 THEN [len |-> 256 * data[p + 1] + data[p + 2], size |-> 3]
  ELSE IF data[p] = 129 THEN [len |-> data[p + 1], size |-> 2]
  ELSE [len |-> data[p], size |-> 1]

HeaderInside(data, p) ==
  /\ p <= Len(data)
  /\ data[p] = 129 => p + 1 <= Len(data)
  /\ data[p] = 130 => p + 2 <= Len(data)

ParseOne ==
  /\ pc = "parse" /\ pos <= Len(answer)
  /\ IF ~HeaderInside(answer, pos + 1) THEN pc' = "undefined" /\ UNCHANGED <<pos, out>>
     ELSE LET l == LengthAt(answer, pos + 1)
          IN  IF pos + l.size + l.len > Len(answer) THEN pc' = "undefined" /\ UNCHANGED <<pos, out>>
              ELSE out' = Append(out, l.len) /\ pos' = pos + 1 + l.size + l.len /\ UNCHANGED pc
  /\ UNCHANGED written

ParseDone ==
  /\ pc = "parse" /\ pos > Len(answer)
  /\ pc' = "split"
  /\ UNCHANGED <<written, pos, out>>

NotEmpty(len) == len > 0

(* The applet identifiers are joined by blanks and split again: an empty   *)
(* one is gone.                                                            *)
Split ==
  /\ pc = "split"
  /\ out' = SelectSeq(out, NotEmpty)
  /\ pc' = "done"
  /\ UNCHANGED <<written, pos>>

Finished == pc \in {"done", "undefined"} /\ UNCHANGED vars

Next == DeviceWrites \/ AnswerComes \/ ParseOne \/ ParseDone \/ Split \/ Finished

Spec == Init /\ [][Next]_vars

(* Of an answer that came whole ParseTlv finds every value, with its       *)
(* length, and never leaves it, whatever its values look like; and the     *)
(* applets are those of the answer.  If an answer that was cut off is not  *)
(* read beyond its end, it was cut between two values: no value of the     *)
(* list is a shortened one.                                                *)
FindsWholeValues ==
  /\ pc = "split" => \E n \in 0 .. Len(list) : out = SubSeq(list, 1, n)
  /\ cut = 0 =>
       /\ pc # "undefined"
       /\ pc = "split" => out = list
       /\ pc = "done" => out = SelectSeq(list, NotEmpty)
=============================================================================
