------------------------ MODULE SignProtocol_proofs -------------------------
(* Theorems about SignProtocol: for every length of chunk, piece, TLV and  *)
(* signed transaction, and any number of requests.                         *)
EXTENDS SignProtocol, SequenceTheorems, TLAPS

-----------------------------------------------------------------------------
(* The invariant.  Its parts are stated of the state's values, so that a   *)
(* step's lemma can be about any of them.                                  *)

(* What the device has of request r with TLVs of the lengths len when TLV  *)
(* b begins, and when m bytes of b have been sent.                         *)
Before(r, len, b) ==
  LET amounts == Part(r, "amounts", 1)
      path    == Part(r, "path", len["path"])
      tx      == Part(r, "tx", len["tx"])
  IN  CASE b = "path" -> <<amounts>> [] b = "tx" -> <<amounts, path>> [] OTHER -> <<amounts, path, tx>>
Begun(r, len, b, m) ==
  IF m = 0 THEN Before(r, len, b) ELSE Append(Before(r, len, b), Span(<<r, b>>, 0, m))

(* Whole, of the requests js.                                              *)
All(js, r) ==
  IF js[r].chain = "eth" THEN <<Part(r, "eth", 1)>>
  ELSE <<Part(r, "amounts", 1), Part(r, "path", js[r].size["path"]),
         Part(r, "tx", js[r].size["tx"]), Part(r, "change", js[r].size["change"])>>

Loads == {"first"} \cup TLVs
Signs(x) == x.op \in {"sign", "eth"}

(* An APDU is one of the requests js, at a place of its loop.              *)
Last(js, x) == x.times >= NextTimes(js[x.of].size[x.op])
Placed(js, x) ==
  /\ x.of \in 1 .. Len(js)
  /\ x.op \in Loads \cup {"sign", "read"} => js[x.of].chain = "btc" /\ js[x.of].size \in Sizes
  /\ x.op = "eth" => js[x.of].chain = "eth"
  /\ x.op \in {"first", "sign"} => x.times = 0
  /\ x.op \in TLVs => x.times <= NextTimes(js[x.of].size[x.op])

(* The APDU behind one that loads data, in the order of SignTXBTC.         *)
After(js, x) ==
  [of |-> x.of,
   op |-> IF x.op = "first" THEN "path" ELSE IF Last(js, x) THEN NextTLV[x.op] ELSE x.op,
   times |-> IF x.op # "first" /\ ~Last(js, x) THEN x.times + 1 ELSE 0,
   le |-> 0]

(* y comes behind x: only its predecessor does before a chunk or the APDU  *)
(* that signs.                                                             *)
Follows(js, x, y) == y.op \in TLVs \cup {"sign"} => x.op \in Loads /\ y = After(js, x)

(* A device that saw the first pack and forgot nothing since has what      *)
(* comes before the chunk x, or all of the request if x signs it.          *)
Ready(js, st, co, b, x) ==
  /\ x.op \in TLVs /\ st => ~co /\ b = Begun(x.of, js[x.of].size, x.op, x.times * ChunkLen)
  /\ x.op = "sign" /\ co => b = All(js, x.of)

(* The APDUs on their way are in order, the device is ready for the first  *)
(* and y may be put behind the last.                                       *)
Box(js, box, st, co, b) ==
  /\ \A i \in 1 .. Len(box) : Placed(js, box[i])
  /\ \A i \in 1 .. Len(box) - 1 : Follows(js, box[i], box[i + 1])
  /\ box # <<>> => Ready(js, st, co, b, box[1])
Expected(js, box, st, co, b, y) ==
  IF box = <<>> THEN Ready(js, st, co, b, y) ELSE Follows(js, box[Len(box)], y)

LineInv ==
  /\ Box(jobs, inbox, started, complete, buf)
  /\ pc \in Ops => Placed(jobs, apdu)
  /\ pc \in Ops /\ ~waits => Expected(jobs, inbox, started, complete, buf, apdu)
  /\ pc \in Loads /\ waits => Expected(jobs, inbox, started, complete, buf, After(jobs, apdu))

(* A request is busy exactly while the thread is in it, and the thread     *)
(* waits only after it sent something.                                     *)
WaitInv == (pc = "idle" <=> result # "busy") /\ (waits => Sends)

(* The requests that were signed are in order, behind them come the APDUs  *)
(* that are under way, no two of which sign the same request; and none     *)
(* signs the last request before its APDU is sent, or if the user refused; *)
(* it is signed if the caller has it.                                      *)
ReqOf(js, d) ==
  IF \E r \in 1 .. Len(js) : d = All(js, r) THEN CHOOSE r \in 1 .. Len(js) : d = All(js, r) ELSE 0
Done == [i \in 1 .. Len(signed) |-> ReqOf(jobs, signed[i])]

Ordered(dn, box) ==
  /\ \A i, j \in 1 .. Len(dn) : i < j => dn[i] < dn[j]
  /\ \A i \in 1 .. Len(dn), j \in 1 .. Len(box) : box[j].op # "read" => dn[i] < box[j].of
  /\ \A i, j \in 1 .. Len(box) :
       i < j /\ Signs(box[i]) /\ box[j].op # "read" => box[i].of < box[j].of
Has(dn, r) == \E i \in 1 .. Len(dn) : dn[i] = r
Unsigned(dn, box, r) ==
  /\ \A i \in 1 .. Len(dn) : dn[i] < r
  /\ \A i \in 1 .. Len(box) : Signs(box[i]) => box[i].of < r

SignedInv == \A i \in 1 .. Len(signed) : Done[i] \in 1 .. Len(jobs) /\ signed[i] = All(jobs, Done[i])
OrderInv ==
  /\ Ordered(Done, inbox)
  /\ \/ pc \in {"unsupported"} \cup Loads
     \/ pc \in {"sign", "eth"} /\ ~waits
     \/ result = "cancelled" /\ ~crossed
     => Unsigned(Done, inbox, Len(jobs))
  /\ result = "ok" /\ ~crossed => Has(Done, Len(jobs))

(* While no APDU was sent behind one that was given up, the answer that    *)
(* comes is that of the APDU the thread waits for.                         *)
Mine == All(jobs, Len(jobs))
Nothing == inbox = <<>> /\ answers = <<>>
Own(a) ==
  /\ pc = "sign" /\ a.sw = "ok" => Has(Done, Len(jobs)) /\ held = Mine
  /\ pc = "sign" /\ a.sw = "cancelled" => Unsigned(Done, <<>>, Len(jobs))
  /\ pc = "eth" /\ a.sw = "ok" =>
       Has(Done, Len(jobs)) /\ Size(a.bytes) > 0 /\ a.bytes = Span(Mine, 0, Size(a.bytes))
  /\ pc = "read" /\ a.sw = "ok" =>
       /\ Size(a.bytes) > 0 /\ Size(a.bytes) <= le
       /\ a.bytes = Span(Mine, times * PieceLen, times * PieceLen + Size(a.bytes))
QuietInv ==
  /\ pc \in Ops /\ ~crossed /\ waits =>
       \/ inbox = <<apdu>> /\ answers = <<>>
       \/ Nothing
       \/ inbox = <<>> /\ Len(answers) = 1 /\ Own(answers[1])
  /\ pc \in Ops \ {"first", "eth"} /\ ~crossed /\ ~waits => Nothing
  /\ ~abandoned => ~crossed /\ (~waits => Nothing)

(* Whole pieces are read one behind the other.                             *)
Pieces(data, m) == IF m = 0 THEN <<>> ELSE <<Span(data, 0, m)>>
ReadInv ==
  /\ pc \in Loads \cup {"sign"} => raw = <<>>
  /\ pc = "read" => total # 0 /\ times <= total \div PieceLen
  /\ pc = "read" /\ ~crossed => /\ Has(Done, Len(jobs)) /\ (held = <<>> \/ held = Mine)
                                /\ ~short => raw = Pieces(Mine, times * PieceLen)

SignInv ==
  TypeOK /\ WaitInv /\ LineInv /\ SignedInv /\ OrderInv /\ QuietInv /\ ReadInv /\ RawIsWhole

-----------------------------------------------------------------------------
(* Requests.                                                               *)
Job == [chain : {"btc", "eth", "unsupported"}, size : Sizes \cup {NoTLVs}]

LEMMA NextTLVType ==
  ASSUME NEW b \in TLVs PROVE NextTLV[b] \in {"tx", "change", "sign"}
  BY DEF TLVs, NextTLV

LEMMA SizeType ==
  ASSUME NEW s \in Sizes, NEW b \in TLVs PROVE s[b] \in Nat \ {0}
  BY SignAssumption DEF SignAssumption

LEMMA WholeIs ==
  /\ \A r : Whole(r) = All(jobs, r)
  /\ \A d : RequestOf(d) = ReqOf(jobs, d)
  /\ request = Len(jobs) /\ \A x : IsLast(x) <=> Last(jobs, x)
<1>1. \A r : Whole(r) = All(jobs, r)
  BY DEF Whole, All
<1>2. request = Len(jobs) /\ \A x : IsLast(x) <=> Last(jobs, x)
  BY DEF request, IsLast, Last
<1>3. ASSUME NEW d PROVE RequestOf(d) = ReqOf(jobs, d)
  <2> DEFINE n == Len(jobs)
  <2>1. RequestOf(d) = IF \E r \in 1 .. n : d = All(jobs, r)
                       THEN CHOOSE r \in 1 .. n : d = All(jobs, r) ELSE 0
    BY <1>1, <1>2 DEF RequestOf
  <2> QED
    BY <2>1 DEF ReqOf
<1> QED
  BY <1>1, <1>2, <1>3

(* Data of different requests is different, and asking again leaves that   *)
(* of the earlier ones alone.                                              *)
LEMMA AllIsOfOne ==
  ASSUME NEW js, NEW ks, NEW r \in Nat, NEW q \in Nat, All(js, r) = All(ks, q) PROVE r = q
<1>1. All(js, r)[1].of[1] = r /\ All(ks, q)[1].of[1] = q
  BY DEF All, Part, Span
<1> QED
  BY <1>1

LEMMA ReqOfAll ==
  ASSUME NEW js \in Seq(Job), NEW r \in 1 .. Len(js) PROVE ReqOf(js, All(js, r)) = r
<1>1. \A q \in 1 .. Len(js) : All(js, r) = All(js, q) => q = r
  BY AllIsOfOne
<1> DEFINE W(q) == All(js, q)
<1>2. ReqOf(js, W(r)) = CHOOSE q \in 1 .. Len(js) : W(r) = W(q)
  BY DEF ReqOf
<1>3. \A q \in 1 .. Len(js) : W(r) = W(q) => q = r
  BY <1>1
<1> HIDE DEF W
<1>4. ReqOf(js, W(r)) = r
  BY <1>2, <1>3
<1> QED
  BY <1>4 DEF W

LEMMA MoreJobs ==
  ASSUME NEW js \in Seq(Job), NEW j \in Job, NEW ks, ks = Append(js, j)
  PROVE  /\ ks \in Seq(Job) /\ Len(ks) = Len(js) + 1 /\ Len(js) \in Nat /\ ks[Len(js) + 1] = j
         /\ \A r \in 1 .. Len(js) : ks[r] = js[r] /\ All(ks, r) = All(js, r)
<1>1. /\ ks \in Seq(Job) /\ Len(ks) = Len(js) + 1 /\ Len(js) \in Nat /\ ks[Len(js) + 1] = j
      /\ \A r \in 1 .. Len(js) : ks[r] = js[r]
  <2> HIDE DEF Job
  <2> QED OBVIOUS
<1> QED
  BY <1>1 DEF All

-----------------------------------------------------------------------------
(* Spans.                                                                  *)

LEMMA GlueOther ==
  ASSUME NEW S, NEW s \in Seq(S), NEW x, s # <<>> => s[Len(s)].of # x.of
  PROVE  Glue(s, x) = Append(s, x)
  BY DEF Glue

LEMMA GlueNext ==
  ASSUME NEW S, NEW s \in Seq(S), NEW o, NEW a, NEW b, NEW c, Span(o, a, b) \in S, Span(o, a, c) \in S
  PROVE  Glue(Append(s, Span(o, a, b)), Span(o, b, c)) = Append(s, Span(o, a, c))
<1> DEFINE t == Append(s, Span(o, a, b))
           u == Append(s, Span(o, a, c))
<1>1. /\ t \in Seq(S) /\ u \in Seq(S) /\ Len(t) = Len(s) + 1 /\ Len(u) = Len(s) + 1 /\ t # <<>>
      /\ t[Len(s) + 1] = Span(o, a, b) /\ u[Len(s) + 1] = Span(o, a, c)
      /\ \A i \in 1 .. Len(s) : t[i] = s[i] /\ u[i] = s[i]
  OBVIOUS
<1> HIDE DEF t, u
<1>2. Glue(t, Span(o, b, c)) = [t EXCEPT ![Len(s) + 1] = Span(o, a, c)]
  BY <1>1 DEF Glue, Span
<1>3. [t EXCEPT ![Len(s) + 1] = Span(o, a, c)] = u
  BY <1>1
<1> QED
  BY <1>2, <1>3 DEF t, u

(* The chunks before the last, and the last, are all of it.                *)
LEMMA QuotientRest ==
  ASSUME NEW n \in Int, NEW d \in Int, d > 0
  PROVE  n = d * (n \div d) + (n % d)
  BY Z3

LEMMA Division ==
  ASSUME NEW n \in Nat, NEW d \in Nat \ {0}
  PROVE  \E q \in Nat, m \in Nat : q = n \div d /\ m = n % d /\ m < d /\ q * d + m = n
<1>1. PICK q \in Nat : q = n \div d
  OBVIOUS
<1>2. PICK m \in Nat : m = n % d /\ m < d
  OBVIOUS
<1>3. n = d * q + m
  BY <1>1, <1>2, QuotientRest
<1>4. d * q = q * d
  OBVIOUS
<1>5. q * d + m = n
  BY <1>3, <1>4
<1> QED
  BY <1>1, <1>2, <1>5

LEMMA ChunksAreAll ==
  ASSUME NEW n \in Nat \ {0}
  PROVE  NextTimes(n) \in Nat /\ NextTimes(n) * ChunkLen + Left(n) = n
<1>1. ChunkLen \in Nat \ {0}
  BY SignAssumption DEF SignAssumption
<1>2. PICK q \in Nat, m \in Nat :
        q = n \div ChunkLen /\ m = n % ChunkLen /\ q * ChunkLen + m = n
  BY <1>1, Division
<1>4. q * ChunkLen + m = n
  BY <1>2
<1>5. CASE m = 0
  <2>1. q # 0
    BY <1>1, <1>4, <1>5
  <2>2. (q - 1) * ChunkLen + ChunkLen = q * ChunkLen
    BY <1>1
  <2> QED
    BY <1>1, <1>2, <1>5, <2>1, <2>2 DEF NextTimes, Left
<1>6. CASE m # 0
  BY <1>1, <1>2, <1>6 DEF NextTimes, Left
<1> QED
  BY <1>5, <1>6

(* A chunk goes behind those before it.                                    *)
Spans(r) == [of : {r} \X {"amounts", "path", "tx", "change"}, from : Nat, upto : Nat]

LEMMA SpanType ==
  ASSUME NEW r, NEW b \in {"amounts", "path", "tx", "change"}, NEW c \in Nat, NEW d \in Nat
  PROVE  Span(<<r, b>>, c, d) \in Spans(r)
  BY DEF Span, Spans

LEMMA AppendToTuple ==
  ASSUME NEW S, NEW a \in S, NEW b \in S, NEW c \in S, NEW d \in S
  PROVE  /\ Append(<<a>>, b) = <<a, b>>
         /\ Append(<<a, b>>, c) = <<a, b, c>>
         /\ Append(<<a, b, c>>, d) = <<a, b, c, d>>
<1>1. Append(<<a>>, b) = <<a, b>>
  <2> DEFINE p == Append(<<a>>, b)
             t == <<a, b>>
  <2>1. <<a>> \in Seq(S)
    OBVIOUS
  <2>2. t \in Seq(S) /\ Len(t) = 2
    OBVIOUS
  <2>3. t[1] = a /\ t[2] = b
    OBVIOUS
  <2>4. p \in Seq(S)
    BY <2>1
  <2>5. Len(p) = 2
    OBVIOUS
  <2>6. p[1] = a /\ p[2] = b
    OBVIOUS
  <2> HIDE DEF p, t
  <2>7. \A i \in 1 .. Len(p) : p[i] = t[i]
    BY <2>3, <2>5, <2>6
  <2>8. p = t
    BY <2>2, <2>4, <2>5, <2>7, SeqEqual
  <2> QED
    BY <2>8 DEF p, t
<1>2. Append(<<a, b>>, c) = <<a, b, c>>
  <2> DEFINE p == Append(<<a, b>>, c)
             t == <<a, b, c>>
  <2>1. <<a, b>> \in Seq(S)
    OBVIOUS
  <2>2. t \in Seq(S) /\ Len(t) = 3
    OBVIOUS
  <2>3. t[1] = a /\ t[2] = b /\ t[3] = c
    OBVIOUS
  <2>4. p \in Seq(S)
    BY <2>1
  <2>5. Len(p) = 3
    OBVIOUS
  <2>6. p[1] = a /\ p[2] = b /\ p[3] = c
    OBVIOUS
  <2> HIDE DEF p, t
  <2>7. \A i \in 1 .. Len(p) : p[i] = t[i]
    BY <2>3, <2>5, <2>6
  <2>8. p = t
    BY <2>2, <2>4, <2>5, <2>7, SeqEqual
  <2> QED
    BY <2>8 DEF p, t
<1>3. Append(<<a, b, c>>, d) = <<a, b, c, d>>
  <2> DEFINE p == Append(<<a, b, c>>, d)
             t == <<a, b, c, d>>
  <2>1. <<a, b, c>> \in Seq(S)
    OBVIOUS
  <2>2. t \in Seq(S) /\ Len(t) = 4
    OBVIOUS
  <2>3. t[1] = a /\ t[2] = b /\ t[3] = c /\ t[4] = d
    OBVIOUS
  <2>4. p \in Seq(S)
    BY <2>1
  <2>5. Len(p) = 4
    OBVIOUS
  <2>6. p[1] = a /\ p[2] = b /\ p[3] = c /\ p[4] = d
    OBVIOUS
  <2> HIDE DEF p, t
  <2>7. \A i \in 1 .. Len(p) : p[i] = t[i]
    BY <2>3, <2>5, <2>6
  <2>8. p = t
    BY <2>2, <2>4, <2>5, <2>7, SeqEqual
  <2> QED
    BY <2>8 DEF p, t
<1> QED
  BY <1>1, <1>2, <1>3

LEMMA BeforeType ==
  ASSUME NEW r, NEW len \in Sizes, NEW b \in TLVs
  PROVE  /\ Before(r, len, b) \in Seq(Spans(r)) /\ Before(r, len, b) # <<>>
         /\ Before(r, len, b)[Len(Before(r, len, b))].of # <<r, b>>
<1> DEFINE amounts == Part(r, "amounts", 1)
           path    == Part(r, "path", len["path"])
           tx      == Part(r, "tx", len["tx"])
<1>1. /\ amounts \in Spans(r) /\ path \in Spans(r) /\ tx \in Spans(r)
      /\ amounts.of = <<r, "amounts">> /\ path.of = <<r, "path">> /\ tx.of = <<r, "tx">>
  <2>1. len["path"] \in Nat /\ len["tx"] \in Nat
    BY SizeType DEF TLVs
  <2> QED
    BY <2>1, SpanType DEF Part, Span
<1>2. /\ <<r, "amounts">> # <<r, "path">> /\ <<r, "path">> # <<r, "tx">> /\ <<r, "tx">> # <<r, "change">>
  OBVIOUS
<1>3. /\ b = "path" => Before(r, len, b) = <<amounts>>
      /\ b = "tx" => Before(r, len, b) = <<amounts, path>>
      /\ b = "change" => Before(r, len, b) = <<amounts, path, tx>>
  BY DEF Before
<1> HIDE DEF amounts, path, tx
<1>4. CASE b = "path"
  <2>1. <<amounts>> \in Seq(Spans(r)) /\ <<amounts>> # <<>> /\ <<amounts>>[Len(<<amounts>>)] = amounts
    BY <1>1
  <2>2. Before(r, len, b) = <<amounts>> /\ amounts.of # <<r, b>>
    BY <1>1, <1>2, <1>3, <1>4
  <2> QED
    BY <2>1, <2>2
<1>5. CASE b = "tx"
  <2>1. /\ <<amounts, path>> \in Seq(Spans(r)) /\ <<amounts, path>> # <<>>
        /\ <<amounts, path>>[Len(<<amounts, path>>)] = path
    BY <1>1
  <2>2. Before(r, len, b) = <<amounts, path>> /\ path.of # <<r, b>>
    BY <1>1, <1>2, <1>3, <1>5
  <2> QED
    BY <2>1, <2>2
<1>6. CASE b = "change"
  <2>1. /\ <<amounts, path, tx>> \in Seq(Spans(r)) /\ <<amounts, path, tx>> # <<>>
        /\ Len(<<amounts, path, tx>>) = 3 /\ <<amounts, path, tx>>[3] = tx
    <3> DEFINE S == Spans(r)
    <3>1. amounts \in S /\ path \in S /\ tx \in S
      BY <1>1
    <3> HIDE DEF S
    <3>2. <<amounts, path>> \in Seq(S) /\ Append(<<amounts, path>>, tx) \in Seq(S)
      BY <3>1
    <3>3. Append(<<amounts, path>>, tx) = <<amounts, path, tx>>
      BY <3>1, AppendToTuple
    <3>4. Len(<<amounts, path, tx>>) = 3 /\ <<amounts, path, tx>> # <<>> /\ <<amounts, path, tx>>[3] = tx
      OBVIOUS
    <3> QED
      BY <3>2, <3>3, <3>4 DEF S
  <2>2. Before(r, len, b) = <<amounts, path, tx>> /\ tx.of # <<r, b>>
    BY <1>1, <1>2, <1>3, <1>6
  <2> QED
    BY <2>1, <2>2
<1> QED
  BY <1>4, <1>5, <1>6 DEF TLVs

LEMMA ChunkGlued ==
  ASSUME NEW r, NEW len \in Sizes, NEW b \in TLVs, NEW m \in Nat, NEW p \in Nat
  PROVE  Glue(Begun(r, len, b, m), Span(<<r, b>>, m, p)) = Append(Before(r, len, b), Span(<<r, b>>, 0, p))
<1> DEFINE s == Begun(r, len, b, m)
           B == Before(r, len, b)
           O == <<r, b>>
           S == Spans(r)
<1>1. /\ B \in Seq(S) /\ B # <<>> /\ B[Len(B)].of # O
  BY BeforeType
<1>2. Span(O, 0, m) \in S /\ Span(O, 0, p) \in S
  <2>1. 0 \in Nat /\ O \in {r} \X {"amounts", "path", "tx", "change"}
    BY DEF TLVs
  <2> QED
    BY <2>1 DEF Span, Spans
<1>3. CASE m = 0
  <2>1. s = B
    BY <1>3 DEF Begun
  <2> HIDE DEF s, B, O, S
  <2>2. Glue(s, Span(O, m, p)) = Append(B, Span(O, m, p))
    BY <1>1, <2>1, GlueOther DEF Span
  <2> QED
    BY <1>3, <2>2 DEF s, B, O
<1>4. CASE m # 0
  <2>1. s = Append(B, Span(O, 0, m))
    BY <1>4 DEF Begun
  <2> HIDE DEF s, B, O, S
  <2>2. Glue(Append(B, Span(O, 0, m)), Span(O, m, p)) = Append(B, Span(O, 0, p))
    BY <1>1, <1>2, GlueNext
  <2> QED
    BY <2>1, <2>2 DEF s, B, O
<1> QED
  BY <1>3, <1>4

(* One more chunk, or the last.                                            *)
LEMMA MoreBegun ==
  ASSUME NEW r, NEW len \in Sizes, NEW b \in TLVs, NEW m \in Nat, NEW p \in Nat \ {0}
  PROVE  Glue(Begun(r, len, b, m), Span(<<r, b>>, m, p)) = Begun(r, len, b, p)
<1>1. Glue(Begun(r, len, b, m), Span(<<r, b>>, m, p)) = Append(Before(r, len, b), Span(<<r, b>>, 0, p))
  BY ChunkGlued
<1> QED
  BY <1>1 DEF Begun

LEMMA AllBegun ==
  ASSUME NEW js, NEW r, NEW len \in Sizes, NEW b \in TLVs, NEW m \in Nat,
         js[r].size = len, js[r].chain = "btc"
  PROVE  /\ b # "change" => /\ NextTLV[b] \in TLVs
                            /\ Glue(Begun(r, len, b, m), Span(<<r, b>>, m, len[b])) = Begun(r, len, NextTLV[b], 0)
         /\ b = "change" => /\ NextTLV[b] = "sign"
                            /\ Glue(Begun(r, len, b, m), Span(<<r, b>>, m, len[b])) = All(js, r)
<1>1. PICK n \in Nat \ {0} : n = len[b]
  BY SizeType
<1>5. Glue(Begun(r, len, b, m), Span(<<r, b>>, m, len[b])) = Append(Before(r, len, b), Part(r, b, n))
  <2>1. n \in Nat
    BY <1>1
  <2>2. Glue(Begun(r, len, b, m), Span(<<r, b>>, m, n))
          = Append(Before(r, len, b), Span(<<r, b>>, 0, n))
    BY <2>1, ChunkGlued, ZenonT(60)
  <2> QED
    BY <1>1, <2>2 DEF Part
<1> DEFINE amounts == Part(r, "amounts", 1)
           path    == Part(r, "path", len["path"])
           tx      == Part(r, "tx", len["tx"])
           change  == Part(r, "change", len["change"])
<1>12. /\ Before(r, len, "path") = <<amounts>> /\ Before(r, len, "tx") = <<amounts, path>>
      /\ Before(r, len, "change") = <<amounts, path, tx>> /\ All(js, r) = <<amounts, path, tx, change>>
  BY DEF Before, All
<1>6. /\ b = "path" => Part(r, b, n) = path
      /\ b = "tx" => Part(r, b, n) = tx
      /\ b = "change" => Part(r, b, n) = change
  BY <1>1
<1>10. /\ amounts \in Spans(r) /\ path \in Spans(r) /\ tx \in Spans(r) /\ change \in Spans(r)
  <2>1. \A c \in TLVs : len[c] \in Nat
    BY SizeType
  <2> QED
    BY <2>1, SpanType DEF Part, TLVs
<1> HIDE DEF amounts, path, tx, change
<1>11. /\ Append(<<amounts>>, path) = <<amounts, path>>
       /\ Append(<<amounts, path>>, tx) = <<amounts, path, tx>>
       /\ Append(<<amounts, path, tx>>, change) = <<amounts, path, tx, change>>
  <2> DEFINE S == Spans(r)
  <2>1. amounts \in S /\ path \in S /\ tx \in S /\ change \in S
    BY <1>10
  <2> HIDE DEF S
  <2> QED
    BY <2>1, AppendToTuple
<1>7. CASE b = "path"
  <2>1. Append(Before(r, len, b), Part(r, b, n)) = Before(r, len, "tx")
    BY <1>12, <1>6, <1>7, <1>11
  <2> QED
    BY <1>1, <1>5, <1>7, <2>1 DEF Begun, NextTLV, TLVs
<1>8. CASE b = "tx"
  <2>1. Append(Before(r, len, b), Part(r, b, n)) = Before(r, len, "change")
    BY <1>12, <1>6, <1>8, <1>11
  <2> QED
    BY <1>1, <1>5, <1>8, <2>1 DEF Begun, NextTLV, TLVs
<1>9. CASE b = "change"
  <2>1. Append(Before(r, len, b), Part(r, b, n)) = All(js, r)
    BY <1>12, <1>6, <1>9, <1>11
  <2> QED
    BY <1>1, <1>5, <1>9, <2>1 DEF NextTLV
<1> QED
  BY <1>7, <1>8, <1>9 DEF TLVs

LEMMA MorePieces ==
  ASSUME NEW d, NEW m \in Nat, NEW p \in Nat \ {0}
  PROVE  Glue(Pieces(d, m), Span(d, m, p)) = <<Span(d, 0, p)>>
<1> DEFINE S == [of : {d}, from : Nat, upto : Nat]
           e == <<>>
<1>1. e \in Seq(S) /\ e = <<>> /\ Span(d, 0, m) \in S /\ Span(d, 0, p) \in S
  BY DEF Span
<1>2. Append(e, Span(d, 0, p)) = <<Span(d, 0, p)>> /\ Append(e, Span(d, 0, m)) = <<Span(d, 0, m)>>
  OBVIOUS
<1> HIDE DEF S, e
<1>3. CASE m = 0
  <2>1. Glue(e, Span(d, 0, p)) = Append(e, Span(d, 0, p))
    BY <1>1 DEF Glue
  <2> QED
    BY <1>1, <1>2, <1>3, <2>1 DEF Pieces
<1>4. CASE m # 0
  <2>1. Glue(Append(e, Span(d, 0, m)), Span(d, m, p)) = Append(e, Span(d, 0, p))
    <3>1. e \in Seq(S) /\ Span(d, 0, m) \in S /\ Span(d, 0, p) \in S
      BY <1>1
    <3> QED
      BY <3>1, GlueNext
  <2> QED
    BY <1>2, <1>4, <2>1 DEF Pieces
<1> QED
  BY <1>3, <1>4

-----------------------------------------------------------------------------
(* The line of APDUs.                                                      *)

LEMMA AfterType ==
  ASSUME NEW js \in Seq(Job), NEW x \in Apdus, Placed(js, x), x.op \in Loads
  PROVE  After(js, x) \in Apdus /\ Placed(js, After(js, x))
<1> DEFINE y == After(js, x)
<1>1. /\ x.of \in 1 .. Len(js) /\ js[x.of].chain = "btc" /\ js[x.of].size \in Sizes
      /\ x.of \in Nat /\ x.times \in Nat
  BY DEF Placed, Apdus
<1>2. \A c \in TLVs : NextTimes(js[x.of].size[c]) \in Nat
  BY <1>1, SizeType, ChunksAreAll
<1>3. y.of = x.of /\ y.le = 0 /\ y = [of |-> x.of, op |-> y.op, times |-> y.times, le |-> 0]
  BY DEF After
<1>4. CASE x.op = "first"
  <2>1. y.op = "path" /\ y.times = 0
    BY <1>4 DEF After
  <2> HIDE DEF y
  <2>9. y \in Apdus /\ Placed(js, y)
    BY <1>1, <1>2, <1>3, <2>1 DEF Placed, Apdus, Ops, TLVs, Loads
  <2> QED
    BY <2>9 DEF y
<1>5. CASE x.op # "first" /\ Last(js, x)
  <2>1. y.op \in {"tx", "change", "sign"} /\ y.times = 0
    BY <1>5, NextTLVType DEF After, Loads
  <2> HIDE DEF y
  <2>9. y \in Apdus /\ Placed(js, y)
    BY <1>1, <1>2, <1>3, <2>1 DEF Placed, Apdus, Ops, TLVs, Loads
  <2> QED
    BY <2>9 DEF y
<1>6. CASE x.op # "first" /\ ~Last(js, x)
  <2>1. y.op = x.op /\ y.times = x.times + 1 /\ x.op \in TLVs
    BY <1>6 DEF After, Loads
  <2>2. y.times <= NextTimes(js[x.of].size[x.op])
    BY <1>1, <1>2, <1>6, <2>1 DEF Last
  <2> HIDE DEF y
  <2>9. y \in Apdus /\ Placed(js, y)
    BY <1>1, <1>2, <1>3, <2>1, <2>2 DEF Placed, Apdus, Ops, TLVs, Loads
  <2> QED
    BY <2>9 DEF y
<1> QED
  BY <1>4, <1>5, <1>6

(* The data of a chunk.                                                    *)
LEMMA PackIs ==
  ASSUME jobs \in Seq(Job), NEW x \in Apdus, Placed(jobs, x), x.op \in TLVs
  PROVE  /\ x.times * ChunkLen \in Nat /\ jobs[x.of].size[x.op] \in Nat \ {0}
         /\ ~Last(jobs, x) => /\ (x.times + 1) * ChunkLen \in Nat \ {0}
                              /\ Pack(x) = Span(<<x.of, x.op>>, x.times * ChunkLen, (x.times + 1) * ChunkLen)
         /\ Last(jobs, x) =>
              Pack(x) = Span(<<x.of, x.op>>, x.times * ChunkLen, jobs[x.of].size[x.op])
<1>1. PICK n \in Nat \ {0} : n = jobs[x.of].size[x.op]
  BY SizeType DEF Placed, Loads
<1>2. PICK t \in Nat : t = x.times
  BY DEF Apdus
<1>3. ChunkLen \in Nat \ {0}
  BY SignAssumption DEF SignAssumption
<1>4. t * ChunkLen \in Nat /\ (t + 1) * ChunkLen = t * ChunkLen + ChunkLen
  BY <1>2, <1>3
<1>5. Last(jobs, x) => t = NextTimes(n)
  BY <1>1, <1>2, ChunksAreAll DEF Last, Placed
<1>6. CASE ~Last(jobs, x)
  <2>1. Pack(x) = Span(<<x.of, x.op>>, t * ChunkLen, t * ChunkLen + ChunkLen)
    BY <1>2, <1>6, WholeIs DEF Pack
  <2>2. t * ChunkLen + ChunkLen \in Nat \ {0}
    BY <1>3, <1>4
  <2> QED
    BY <1>1, <1>2, <1>4, <1>6, <2>1, <2>2
<1>7. CASE Last(jobs, x)
  <2>1. Pack(x) = Span(<<x.of, x.op>>, t * ChunkLen, t * ChunkLen + Left(n))
    BY <1>1, <1>2, <1>7, WholeIs DEF Pack
  <2>2. t * ChunkLen + Left(n) = n
    BY <1>1, <1>5, <1>7, ChunksAreAll
  <2> QED
    BY <1>1, <1>2, <1>4, <1>7, <2>1, <2>2
<1> QED
  BY <1>6, <1>7

(* Carrying out an APDU makes the device ready for the one behind it.      *)
LEMMA TakesReady ==
  ASSUME jobs \in Seq(Job), NEW x \in Apdus, Placed(jobs, x),
         Ready(jobs, started, complete, buf, x), DeviceTakes(x),
         NEW y, y.op \in TLVs \cup {"sign"}, y = After(jobs, x)
  PROVE  Ready(jobs, started', complete', buf', y)
<1> DEFINE r == x.of
           b == x.op
           len == jobs[x.of].size
           m == x.times * ChunkLen
<1>1. /\ b \in TLVs /\ started' = TRUE /\ buf = Begun(r, len, b, m) /\ buf' = Glue(buf, Pack(x))
      /\ complete' = (b = "change" /\ Last(jobs, x))
  BY WholeIs DEF DeviceTakes, Ready
<1>2. len \in Sizes /\ jobs[r].chain = "btc" /\ jobs[r].size = len /\ r \in 1 .. Len(jobs)
  BY <1>1 DEF Placed, Loads
<1>3. y.of = r /\ b # "first"
  BY <1>1 DEF After, TLVs
<1>4. CASE ~Last(jobs, x)
  <2>1. PICK p \in Nat \ {0} : p = (x.times + 1) * ChunkLen /\ Pack(x) = Span(<<r, b>>, m, p) /\ m \in Nat
    BY <1>1, <1>4, PackIs
  <2>2. y.op = b /\ y.times = x.times + 1
    BY <1>3, <1>4 DEF After
  <2>3. buf' = Begun(r, len, b, p) /\ ~complete'
    <3> HIDE DEF r, b, len, m
    <3>1. Glue(Begun(r, len, b, m), Span(<<r, b>>, m, p)) = Begun(r, len, b, p)
      BY <1>1, <1>2, <2>1, MoreBegun
    <3> QED
      BY <1>1, <1>4, <2>1, <3>1
  <2>4. b # "sign"
    BY <1>1 DEF TLVs
  <2> QED
    BY <1>3, <2>1, <2>2, <2>3, <2>4 DEF Ready
<1>5. CASE Last(jobs, x)
  <2>1. Pack(x) = Span(<<r, b>>, m, len[b]) /\ m \in Nat
    BY <1>1, <1>5, PackIs
  <2>2. y.op = NextTLV[b] /\ y.times = 0
    BY <1>3, <1>5 DEF After
  <2>3. 0 * ChunkLen = 0
    BY SignAssumption DEF SignAssumption
  <2>4. CASE b # "change"
    <3>1. NextTLV[b] \in TLVs /\ buf' = Begun(r, len, NextTLV[b], 0)
      <4> HIDE DEF r, b, len, m
      <4> QED
        BY <1>1, <1>2, <2>1, <2>4, AllBegun
    <3>2. ~complete' /\ NextTLV[b] # "sign"
      BY <1>1, <2>4, <3>1 DEF TLVs
    <3> QED
      BY <1>3, <2>2, <2>3, <3>1, <3>2 DEF Ready
  <2>5. CASE b = "change"
    <3>1. NextTLV[b] = "sign" /\ buf' = All(jobs, r)
      <4> HIDE DEF r, b, len, m
      <4> QED
        BY <1>1, <1>2, <2>1, <2>5, AllBegun
    <3> QED
      BY <1>3, <2>2, <3>1 DEF Ready, TLVs
  <2> QED
    BY <2>4, <2>5
<1> QED
  BY <1>4, <1>5

LEMMA ForgetsReady ==
  ASSUME NEW js, NEW b, NEW y PROVE Ready(js, FALSE, FALSE, b, y)
  BY DEF Ready

LEMMA WorksReady ==
  ASSUME jobs \in Seq(Job), NEW x \in Apdus, Placed(jobs, x),
         Ready(jobs, started, complete, buf, x), DeviceWorks(x),
         NEW y, Follows(jobs, x, y)
  PROVE  Ready(jobs, started', complete', buf', y)
<1>1. CASE y.op \notin TLVs \cup {"sign"}
  BY <1>1 DEF Ready
<1>2. CASE y.op \in TLVs \cup {"sign"}
  <2>1. x.op \in Loads /\ y = After(jobs, x)
    BY <1>2 DEF Follows
  <2>2. CASE DeviceTakes(x)
    BY <1>2, <2>1, <2>2, TakesReady
  <2>3. CASE DeviceStarts(x)
    <3>1. y.of = x.of /\ y.op = "path" /\ y.times = 0
      BY <2>1, <2>3 DEF DeviceStarts, After
    <3>2. 0 * ChunkLen = 0
      BY SignAssumption DEF SignAssumption
    <3>3. buf' = Begun(x.of, jobs[x.of].size, "path", 0) /\ complete' = FALSE
      BY <2>3 DEF DeviceStarts, Begun, Before
    <3> QED
      BY <3>1, <3>2, <3>3 DEF Ready
  <2>4. CASE started' = FALSE /\ complete' = FALSE
    BY <2>4, ForgetsReady
  <2>5. DeviceTakes(x) \/ DeviceStarts(x) \/ (started' = FALSE /\ complete' = FALSE)
    BY <2>1 DEF DeviceWorks, DeviceSigns, DeviceCancels, DeviceSignsETH, DeviceHandsOut, DeviceRefuses,
       Forgets, Loads, TLVs
  <2> QED
    BY <2>2, <2>3, <2>4, <2>5
<1> QED
  BY <1>1, <1>2

(* One APDU more, and one less.                                            *)
LEMMA GrownIs ==
  ASSUME NEW S, NEW s \in Seq(S), NEW x \in S
  PROVE  /\ Append(s, x) \in Seq(S) /\ Len(Append(s, x)) = Len(s) + 1 /\ Len(s) \in Nat
         /\ Append(s, x)[Len(s) + 1] = x /\ Append(s, x) # <<>>
         /\ \A i \in 1 .. Len(s) : Append(s, x)[i] = s[i]
         /\ s = <<>> => Len(s) = 0
         /\ s # <<>> => Len(s) > 0
<1>1. /\ Append(s, x) \in Seq(S) /\ Len(Append(s, x)) = Len(s) + 1 /\ Len(s) \in Nat
      /\ Append(s, x)[Len(s) + 1] = x
      /\ \A i \in 1 .. Len(s) : Append(s, x)[i] = s[i]
  OBVIOUS
<1>2. s # <<>> => Len(s) # 0
  BY EmptySeq
<1>3. Append(s, x) # <<>>
  BY <1>1, EmptySeq
<1> QED
  BY <1>1, <1>2, <1>3, EmptySeq

LEMMA TailIs ==
  ASSUME NEW S, NEW s \in Seq(S), s # <<>>
  PROVE  /\ Tail(s) \in Seq(S) /\ Len(Tail(s)) = Len(s) - 1 /\ Len(s) \in Nat \ {0}
         /\ s[1] \in S /\ Head(s) = s[1] /\ s[Len(s)] \in S
         /\ \A i \in 1 .. Len(s) - 1 : Tail(s)[i] = s[i + 1]
         /\ Tail(s) = <<>> <=> Len(s) = 1
<1>1. Len(s) \in Nat \ {0}
  BY EmptySeq
<1>2. Tail(s) \in Seq(S) /\ Len(Tail(s)) = Len(s) - 1
  BY HeadTailProperties
<1>3. s[1] \in S /\ s[Len(s)] \in S
  BY <1>1, ElementOfSeq
<1>4. Head(s) = s[1]
  BY DEF Head
<1>5. \A i \in 1 .. Len(s) - 1 : Tail(s)[i] = s[i + 1]
  BY <1>2, HeadTailProperties
<1>6. Tail(s) = <<>> <=> Len(s) = 1
  <2>1. PICK t \in Seq(S) : t = Tail(s)
    BY <1>2
  <2>2. (t # <<>> => Len(t) # 0) /\ (t = <<>> => Len(t) = 0)
    BY EmptySeq
  <2>3. t = <<>> <=> Len(s) = 1
    BY <1>1, <1>2, <2>1, <2>2
  <2> QED
    BY <2>1, <2>3
<1> QED
  BY <1>1, <1>2, <1>3, <1>4, <1>5, <1>6

LEMMA Pushed ==
  ASSUME NEW js, NEW box \in Seq(Apdus), NEW st, NEW co, NEW b, NEW x \in Apdus,
         Box(js, box, st, co, b), Placed(js, x), Expected(js, box, st, co, b, x)
  PROVE  /\ Box(js, Append(box, x), st, co, b)
         /\ x.op \in Loads => Expected(js, Append(box, x), st, co, b, After(js, x))
<1> DEFINE c == Append(box, x)
           n == Len(box)
<1>1. /\ c \in Seq(Apdus) /\ Len(c) = n + 1 /\ n \in Nat /\ c[n + 1] = x /\ c # <<>>
      /\ \A i \in 1 .. n : c[i] = box[i]
      /\ box = <<>> => n = 0
      /\ box # <<>> => n > 0
  BY GrownIs
<1> HIDE DEF c, n
<1>2. \A i \in 1 .. Len(c) : Placed(js, c[i])
  <2> SUFFICES ASSUME NEW i \in 1 .. n + 1 PROVE Placed(js, c[i])
    BY <1>1
  <2>1. CASE i = n + 1
    BY <1>1, <2>1
  <2>2. CASE i # n + 1
    BY <1>1, <2>2 DEF Box, n
  <2> QED
    BY <2>1, <2>2
<1>3. \A i \in 1 .. Len(c) - 1 : Follows(js, c[i], c[i + 1])
  <2> SUFFICES ASSUME NEW i \in 1 .. n PROVE Follows(js, c[i], c[i + 1])
    BY <1>1
  <2>1. CASE i = n
    <3>1. box # <<>> /\ c[i] = box[Len(box)] /\ c[i + 1] = x
      BY <1>1, <2>1 DEF n
    <3> QED
      BY <3>1 DEF Expected
  <2>2. CASE i # n
    <3>1. i \in 1 .. Len(box) - 1 /\ c[i] = box[i] /\ c[i + 1] = box[i + 1]
      BY <1>1, <2>2 DEF n
    <3> QED
      BY <3>1 DEF Box
  <2> QED
    BY <2>1, <2>2
<1>4. Ready(js, st, co, b, c[1])
  <2>1. CASE box = <<>>
    BY <1>1, <2>1 DEF Expected
  <2>2. CASE box # <<>>
    BY <1>1, <2>2 DEF Box
  <2> QED
    BY <2>1, <2>2
<1>5. x.op \in Loads => Follows(js, x, After(js, x))
  BY DEF Follows
<1>6. x.op \in Loads => Expected(js, c, st, co, b, After(js, x))
  BY <1>1, <1>5 DEF Expected
<1> QED
  BY <1>2, <1>3, <1>4, <1>6 DEF Box, c

LEMMA Popped ==
  ASSUME NEW js, NEW box \in Seq(Apdus), NEW st, NEW co, NEW b, box # <<>>,
         NEW st2, NEW co2, NEW b2,
         Box(js, box, st, co, b),
         \A y : Follows(js, box[1], y) => Ready(js, st2, co2, b2, y)
  PROVE  /\ Box(js, Tail(box), st2, co2, b2)
         /\ \A y : Expected(js, box, st, co, b, y) => Expected(js, Tail(box), st2, co2, b2, y)
<1> DEFINE c == Tail(box)
           n == Len(box)
<1>1. /\ c \in Seq(Apdus) /\ Len(c) = n - 1 /\ n \in Nat \ {0}
      /\ \A i \in 1 .. n - 1 : c[i] = box[i + 1]
      /\ c = <<>> <=> n = 1
  BY TailIs
<1> HIDE DEF c, n
<1>2. \A i \in 1 .. Len(c) : Placed(js, c[i])
  BY <1>1 DEF Box, n
<1>3. \A i \in 1 .. Len(c) - 1 : Follows(js, c[i], c[i + 1])
  <2> SUFFICES ASSUME NEW i \in 1 .. Len(c) - 1 PROVE Follows(js, c[i], c[i + 1])
    OBVIOUS
  <2>1. i + 1 \in 1 .. Len(box) - 1 /\ c[i] = box[i + 1] /\ c[i + 1] = box[(i + 1) + 1]
    BY <1>1 DEF n
  <2> QED
    BY <2>1 DEF Box
<1>4. c # <<>> => Ready(js, st2, co2, b2, c[1])
  <2> SUFFICES ASSUME c # <<>> PROVE Ready(js, st2, co2, b2, c[1])
    OBVIOUS
  <2>1. 1 \in 1 .. Len(box) - 1 /\ c[1] = box[1 + 1]
    BY <1>1 DEF n
  <2>2. Follows(js, box[1], box[1 + 1])
    BY <2>1 DEF Box
  <2> QED
    BY <2>1, <2>2
<1>5. ASSUME NEW y, Expected(js, box, st, co, b, y) PROVE Expected(js, c, st2, co2, b2, y)
  <2>1. Follows(js, box[Len(box)], y)
    BY <1>5 DEF Expected
  <2>2. CASE c = <<>>
    BY <1>1, <2>1, <2>2 DEF Expected, n
  <2>3. CASE c # <<>>
    <3>1. c[Len(c)] = box[Len(box)]
      BY <1>1, <2>3 DEF n
    <3> QED
      BY <2>1, <2>3, <3>1 DEF Expected
  <2> QED
    BY <2>2, <2>3
<1> QED
  BY <1>2, <1>3, <1>4, <1>5 DEF Box, c

-----------------------------------------------------------------------------
(* The order of what is signed.                                            *)
LEMMA OrderPushed ==
  ASSUME NEW dn, NEW box \in Seq(Apdus), NEW x \in Apdus, Ordered(dn, box),
         x.op = "read" \/ Unsigned(dn, box, x.of)
  PROVE  Ordered(dn, Append(box, x))
<1> DEFINE c == Append(box, x)
           n == Len(box)
<1>1. /\ Len(c) = n + 1 /\ n \in Nat /\ c[n + 1] = x
      /\ \A i \in 1 .. n : c[i] = box[i]
  <2> HIDE DEF Apdus
  <2> QED OBVIOUS
<1> HIDE DEF c
<1>2. ASSUME NEW i \in 1 .. Len(dn), NEW j \in 1 .. Len(c), c[j].op # "read" PROVE dn[i] < c[j].of
  <2>1. CASE j = n + 1
    BY <1>1, <1>2, <2>1 DEF Unsigned
  <2>2. CASE j # n + 1
    BY <1>1, <1>2, <2>2 DEF Ordered
  <2> QED
    BY <2>1, <2>2
<1>3. ASSUME NEW i \in 1 .. Len(c), NEW j \in 1 .. Len(c), i < j, Signs(c[i]), c[j].op # "read"
      PROVE  c[i].of < c[j].of
  <2>1. i \in 1 .. n /\ c[i] = box[i]
    BY <1>1, <1>3
  <2>2. CASE j = n + 1
    BY <1>1, <1>3, <2>1, <2>2 DEF Unsigned
  <2>3. CASE j # n + 1
    BY <1>1, <1>3, <2>1, <2>3 DEF Ordered
  <2> QED
    BY <2>2, <2>3
<1> QED
  BY <1>2, <1>3 DEF Ordered, c

LEMMA OrderPopped ==
  ASSUME NEW dn, NEW box \in Seq(Apdus), box # <<>>, Ordered(dn, box)
  PROVE  Ordered(dn, Tail(box)) /\ \A r : Unsigned(dn, box, r) => Unsigned(dn, Tail(box), r)
<1> DEFINE c == Tail(box)
           n == Len(box)
<1>1. Len(c) = n - 1 /\ n \in Nat \ {0} /\ \A i \in 1 .. n - 1 : c[i] = box[i + 1]
  BY TailIs
<1> HIDE DEF c
<1>2. \A j \in 1 .. Len(c) : c[j] = box[j + 1] /\ j + 1 \in 1 .. Len(box)
  BY <1>1
<1>3. \A i, j \in 1 .. Len(c) : i < j => i + 1 < j + 1
  BY <1>1
<1>4. Ordered(dn, c)
  BY <1>2, <1>3 DEF Ordered
<1>5. ASSUME NEW r, Unsigned(dn, box, r) PROVE Unsigned(dn, c, r)
  BY <1>2, <1>5 DEF Unsigned
<1> QED
  BY <1>4, <1>5 DEF c

LEMMA OrderSigned ==
  ASSUME NEW dn \in Seq(Nat), NEW box \in Seq(Apdus), box # <<>>, Ordered(dn, box), Signs(box[1])
  PROVE  /\ Ordered(Append(dn, box[1].of), Tail(box))
         /\ \A r : Unsigned(dn, box, r) => Unsigned(Append(dn, box[1].of), Tail(box), r)
         /\ \A r : Has(dn, r) \/ r = box[1].of => Has(Append(dn, box[1].of), r)
<1> DEFINE c == Tail(box)
           n == Len(box)
           q == box[1].of
           e == Append(dn, q)
           m == Len(dn)
<1>1. /\ Len(c) = n - 1 /\ n \in Nat \ {0} /\ \A i \in 1 .. n - 1 : c[i] = box[i + 1]
      /\ box[1] \in Apdus
  BY TailIs
<1>2. q \in Nat /\ box[1].op # "read"
  BY <1>1 DEF Apdus, Signs
<1> HIDE DEF c, q, n
<1>3. /\ m \in Nat /\ Len(e) = m + 1 /\ e[m + 1] = q
      /\ \A i \in 1 .. m : e[i] = dn[i]
  BY <1>2
<1> HIDE DEF e, m
<1>4. /\ \A j \in 1 .. Len(c) : c[j] = box[j + 1] /\ j + 1 \in 1 .. Len(box) /\ 1 < j + 1
      /\ \A i, j \in 1 .. Len(c) : i < j => i + 1 < j + 1
      /\ 1 \in 1 .. Len(box)
  BY <1>1 DEF n
<1>5. \A i \in 1 .. m : dn[i] < q
  BY <1>2, <1>4 DEF Ordered, q, m
<1>6. \A j \in 1 .. Len(c) : c[j].op # "read" => q < c[j].of
  BY <1>4 DEF Ordered, q
<1>7. \A i, j \in 1 .. Len(e) : i < j => e[i] < e[j]
  <2> SUFFICES ASSUME NEW i \in 1 .. Len(e), NEW j \in 1 .. Len(e), i < j PROVE e[i] < e[j]
    OBVIOUS
  <2>1. i \in 1 .. m /\ e[i] = dn[i]
    BY <1>3
  <2>2. CASE j = m + 1
    BY <1>3, <1>5, <2>1, <2>2
  <2>3. CASE j # m + 1
    <3>1. j \in 1 .. Len(dn) /\ i \in 1 .. Len(dn) /\ e[j] = dn[j] /\ e[i] = dn[i]
      BY <1>3, <2>1, <2>3 DEF m
    <3> QED
      BY <3>1 DEF Ordered
  <2> QED
    BY <2>2, <2>3
<1>8. ASSUME NEW i \in 1 .. Len(e), NEW j \in 1 .. Len(c), c[j].op # "read" PROVE e[i] < c[j].of
  <2>1. CASE i = m + 1
    BY <1>3, <1>6, <1>8, <2>1
  <2>2. CASE i # m + 1
    <3>1. i \in 1 .. Len(dn) /\ e[i] = dn[i]
      BY <1>3, <2>2 DEF m
    <3> QED
      BY <1>4, <1>8, <3>1 DEF Ordered
  <2> QED
    BY <2>1, <2>2
<1>9. \A i, j \in 1 .. Len(c) : i < j /\ Signs(c[i]) /\ c[j].op # "read" => c[i].of < c[j].of
  BY <1>4 DEF Ordered
<1>10. ASSUME NEW r, Unsigned(dn, box, r) PROVE Unsigned(e, c, r)
  <2>1. q < r
    BY <1>4, <1>10 DEF Unsigned, q
  <2>2. \A i \in 1 .. Len(e) : e[i] < r
    BY <1>3, <1>10, <2>1 DEF Unsigned, m
  <2> QED
    BY <1>4, <1>10, <2>2 DEF Unsigned
<1>11. ASSUME NEW r, Has(dn, r) \/ r = q PROVE Has(e, r)
  <2>1. CASE r = q
    BY <1>3, <2>1 DEF Has
  <2>2. CASE Has(dn, r)
    BY <1>3, <2>2 DEF Has, m
  <2> QED
    BY <1>11, <2>1, <2>2
<1> QED
  BY <1>7, <1>8, <1>9, <1>10, <1>11 DEF Ordered, c, q, e

-----------------------------------------------------------------------------
(* Types.                                                                  *)
Piece == [of : Nat \X ({"amounts", "eth", "length"} \cup TLVs), from : Nat, upto : Nat]

LEMMA DataIs == Data = Seq(Piece)
  BY DEF Data, Piece

LEMMA PartType ==
  ASSUME NEW r \in Nat, NEW b \in {"amounts", "eth", "length"} \cup TLVs, NEW n \in Nat
  PROVE  Part(r, b, n) \in Piece
  BY DEF Part, Span, Piece

LEMMA BytesType ==
  /\ \A b \in Bytes : Size(b) \in Nat /\ b.of \in Data /\ b.from \in Nat /\ b.upto \in Nat
  /\ \A d \in Data, m \in Nat, n \in Nat : Span(d, m, m + n) \in Bytes /\ Size(Span(d, m, m + n)) = n
  BY DEF Bytes, Size, Span

LEMMA AllType ==
  ASSUME NEW js \in Seq(Job), NEW r \in 1 .. Len(js)
  PROVE  All(js, r) \in Data
<1>1. js[r] \in Job /\ r \in Nat
  <2> HIDE DEF Job
  <2> QED BY ElementOfSeq
<1>2. \A b \in TLVs : js[r].size[b] \in Nat
  BY <1>1, SizeType DEF Job, NoTLVs
<1> DEFINE S == Piece
           eth == Part(r, "eth", 1)
           amounts == Part(r, "amounts", 1)
           path == Part(r, "path", js[r].size["path"])
           tx == Part(r, "tx", js[r].size["tx"])
           change == Part(r, "change", js[r].size["change"])
<1>3. eth \in S /\ amounts \in S /\ path \in S /\ tx \in S /\ change \in S
  BY <1>1, <1>2, PartType DEF TLVs
<1>4. All(js, r) = IF js[r].chain = "eth" THEN <<eth>> ELSE <<amounts, path, tx, change>>
  BY DEF All
<1> HIDE DEF S, eth, amounts, path, tx, change
<1>5. <<eth>> \in Seq(S) /\ <<amounts>> \in Seq(S)
  BY <1>3
<1>6. Append(<<amounts>>, path) \in Seq(S) /\ Append(<<amounts>>, path) = <<amounts, path>>
  BY <1>3, <1>5, AppendToTuple, GrownIs
<1>7. Append(<<amounts, path>>, tx) \in Seq(S) /\ Append(<<amounts, path>>, tx) = <<amounts, path, tx>>
  BY <1>3, <1>6, AppendToTuple, GrownIs
<1>8. <<amounts, path, tx, change>> \in Seq(S)
  BY <1>3, <1>7, AppendToTuple, GrownIs
<1> QED
  BY <1>4, <1>5, <1>8, DataIs DEF S

LEMMA GlueType ==
  /\ \A s \in Data, x \in Piece : Glue(s, x) \in Data
  /\ \A s \in Seq(Bytes), x \in Bytes : Glue(s, x) \in Seq(Bytes)
<1>1. ASSUME NEW s \in Data, NEW x \in Piece PROVE Glue(s, x) \in Data
  <2>1. s \in Seq(Piece)
    BY DataIs
  <2>2. CASE s # <<>> /\ s[Len(s)].of = x.of /\ s[Len(s)].upto = x.from
    <3>1. Len(s) \in 1 .. Len(s) /\ s[Len(s)] \in Piece
      BY <2>1, <2>2, TailIs
    <3>2. PICK y \in Piece : y = Span(x.of, s[Len(s)].from, x.upto)
      BY <3>1 DEF Piece, Span
    <3>3. Glue(s, x) = [s EXCEPT ![Len(s)] = y]
      BY <2>2, <3>2 DEF Glue
    <3>4. [s EXCEPT ![Len(s)] = y] \in Seq(Piece)
      BY <2>1, <3>1, <3>2, ExceptSeq
    <3> QED
      BY <3>3, <3>4, DataIs
  <2>3. CASE ~(s # <<>> /\ s[Len(s)].of = x.of /\ s[Len(s)].upto = x.from)
    BY <2>1, <2>3, GrownIs, DataIs DEF Glue
  <2> QED
    BY <2>2, <2>3
<1>2. ASSUME NEW s \in Seq(Bytes), NEW x \in Bytes PROVE Glue(s, x) \in Seq(Bytes)
  <2>2. CASE s # <<>> /\ s[Len(s)].of = x.of /\ s[Len(s)].upto = x.from
    <3>1. Len(s) \in 1 .. Len(s) /\ s[Len(s)] \in Bytes
      BY <2>2, TailIs
    <3>2. PICK y \in Bytes : y = Span(x.of, s[Len(s)].from, x.upto)
      <4>1. PICK z \in Bytes : z = s[Len(s)]
        BY <3>1
      <4>2. /\ z.from \in Nat /\ z.upto \in Nat /\ z.from <= z.upto
            /\ x.of \in Data /\ x.from \in Nat /\ x.upto \in Nat /\ x.from <= x.upto
        BY DEF Bytes
      <4>3. z.upto = x.from
        BY <2>2, <4>1
      <4>4. z.from <= x.upto
        BY <4>2, <4>3
      <4>5. Span(x.of, z.from, x.upto) \in Bytes
        BY <4>2, <4>4 DEF Bytes, Span
      <4> QED
        BY <4>1, <4>5
    <3>3. Glue(s, x) = [s EXCEPT ![Len(s)] = y]
      BY <2>2, <3>2 DEF Glue
    <3>4. [s EXCEPT ![Len(s)] = y] \in Seq(Bytes)
      BY <3>1, <3>2, ExceptSeq
    <3> QED
      BY <3>3, <3>4
  <2>3. CASE ~(s # <<>> /\ s[Len(s)].of = x.of /\ s[Len(s)].upto = x.from)
    BY <2>3, GrownIs DEF Glue
  <2> QED
    BY <2>2, <2>3
<1> QED
  BY <1>1, <1>2

LEMMA LeType == TypeOK => le \in Nat /\ (pc \in Ops => apdu \in Apdus)
<1> SUFFICES ASSUME TypeOK PROVE le \in Nat /\ (pc \in Ops => apdu \in Apdus)
  OBVIOUS
<1>1. PieceLen \in Nat \ {0} /\ total \in Nat /\ times \in Nat /\ Len(jobs) \in Nat
  BY SignAssumption DEF SignAssumption, TypeOK
<1>2. le \in Nat
  <2>1. total % PieceLen \in Nat
    BY <1>1
  <2> QED
    BY <1>1, <2>1 DEF le
<1> QED
  BY <1>1, <1>2 DEF apdu, Apdus, request

SwType == {"ok", "error", "cancelled"}
Replies == [sw : SwType, bytes : Bytes]

LEMMA TypeInit == Init => TypeOK
<1> SUFFICES ASSUME Init PROVE TypeOK
  OBVIOUS
<1>1. /\ started \in BOOLEAN /\ complete \in BOOLEAN /\ waits \in BOOLEAN
      /\ short \in BOOLEAN /\ abandoned \in BOOLEAN /\ crossed \in BOOLEAN
  BY DEF Init
<1>2. \A S : <<>> \in Seq(S)
  BY EmptySeq
<1> QED
  BY <1>1, <1>2 DEF Init, TypeOK, Data

(* The answer to an APDU, and what the device holds after it.              *)
LEMMA WorksType ==
  ASSUME TypeOK, LineInv, inbox # <<>>, DeviceWorks(inbox[1])
  PROVE  /\ \E a \in Replies : answers' = Append(answers, a)
         /\ buf' \in Data /\ held' \in Data /\ signed' \in Seq(Data)
         /\ started' \in BOOLEAN /\ complete' \in BOOLEAN
<1>1. PICK x \in Apdus : x = inbox[1]
  BY TailIs DEF TypeOK
<1>2. Placed(jobs, x) /\ x.of \in 1 .. Len(jobs) /\ jobs \in Seq(Job) /\ x.of \in Nat
      /\ x.times \in Nat /\ x.le \in Nat
  <2>1. 1 \in 1 .. Len(inbox)
    BY TailIs DEF TypeOK
  <2> QED
    BY <1>1, <2>1 DEF LineInv, Box, Placed, Apdus, TypeOK, Job
<1>3. <<>> \in Data
  BY EmptySeq DEF Data
<1>4. NoBytes \in Bytes
  BY <1>3 DEF NoBytes, Bytes, Span
<1>d. buf \in Data /\ held \in Data /\ signed \in Seq(Data) /\ started \in BOOLEAN /\ complete \in BOOLEAN
  BY DEF TypeOK
<1>5. ASSUME NEW sw \in SwType, NEW b \in Bytes, Answer(sw, b)
      PROVE  \E a \in Replies : answers' = Append(answers, a)
  <2>1. [sw |-> sw, bytes |-> b] \in Replies
    BY DEF Replies
  <2> QED
    BY <1>5, <2>1 DEF Answer
<1>6. CASE DeviceStarts(x)
  <2>1. <<Part(x.of, "amounts", 1)>> \in Data
    <3>1. PICK p \in Piece : p = Part(x.of, "amounts", 1)
      BY <1>2, PartType
    <3> QED
      BY <3>1, DataIs
  <2> QED
    BY <1>4, <1>5, <1>6, <1>d, <2>1 DEF DeviceStarts, SwType
<1>7. CASE DeviceTakes(x)
  <2>1. Pack(x) \in Piece
    BY <1>2, <1>7, PackIs DEF DeviceTakes, Span, Piece
  <2>2. buf' \in Data
    BY <1>7, <1>d, <2>1, GlueType DEF DeviceTakes
  <2>3. complete' \in BOOLEAN
    BY <1>7, Zenon DEF DeviceTakes
  <2> QED
    BY <1>4, <1>5, <1>7, <1>d, <2>2, <2>3 DEF DeviceTakes, SwType
<1>8. CASE DeviceSigns(x)
  <2>1. Span(<<Part(x.of, "length", 2)>>, 0, 2) \in Bytes
    <3>1. PICK p \in Piece : p = Part(x.of, "length", 2)
      BY <1>2, PartType
    <3>2. <<p>> \in Data
      BY DataIs
    <3> QED
      BY <3>1, <3>2 DEF Bytes, Span
  <2>2. Append(signed, buf) \in Seq(Data)
    BY <1>d, GrownIs
  <2> QED
    BY <1>3, <1>5, <1>8, <1>d, <2>1, <2>2 DEF DeviceSigns, Forgets, SwType
<1>9. CASE DeviceCancels(x)
  BY <1>3, <1>4, <1>5, <1>9, <1>d DEF DeviceCancels, Forgets, SwType
<1>10. CASE DeviceSignsETH(x)
  <2>1. Whole(x.of) \in Data
    BY <1>2, AllType, WholeIs
  <2>2. Append(signed, Whole(x.of)) \in Seq(Data)
    BY <1>d, <2>1, GrownIs
  <2>3. PICK n \in RawLens : Answer("ok", Span(Whole(x.of), 0, n))
    BY <1>10 DEF DeviceSignsETH
  <2>4. Span(Whole(x.of), 0, n) \in Bytes
    BY <2>1, SignAssumption DEF SignAssumption, Bytes, Span
  <2> QED
    BY <1>3, <1>5, <1>10, <2>1, <2>2, <2>3, <2>4 DEF DeviceSignsETH, Forgets, SwType
<1>11. CASE DeviceHandsOut(x)
  <2>1. PICK n \in {x.le} \cup {m \in Shorts : m < x.le} :
          Answer("ok", Span(held, x.times * PieceLen, x.times * PieceLen + n))
    BY <1>11 DEF DeviceHandsOut
  <2>2. n \in Nat /\ x.times * PieceLen \in Nat
    <3>1. PieceLen \in Nat /\ \A m \in Shorts : m \in Nat
      BY SignAssumption DEF SignAssumption
    <3>2. n = x.le \/ n \in Shorts
      BY <2>1
    <3>3. n \in Nat
      BY <1>2, <3>1, <3>2
    <3>4. \A a, b \in Nat : a * b \in Nat
      OBVIOUS
    <3> QED
      BY <1>2, <3>1, <3>3, <3>4
  <2>3. Span(held, x.times * PieceLen, x.times * PieceLen + n) \in Bytes
    BY <1>d, <2>2, BytesType
  <2>4. UNCHANGED device
    BY <1>11 DEF DeviceHandsOut
  <2> QED
    BY <1>5, <1>d, <2>1, <2>3, <2>4 DEF device, SwType
<1>12. CASE DeviceRefuses
  BY <1>3, <1>4, <1>5, <1>12, <1>d DEF DeviceRefuses, Forgets, SwType
<1> QED
  BY <1>1, <1>6, <1>7, <1>8, <1>9, <1>10, <1>11, <1>12 DEF DeviceWorks

(* An answer the host takes.                                               *)
LEMMA AnswerType ==
  ASSUME TypeOK, answers # <<>>
  PROVE  /\ Tail(answers) \in Seq(Replies) /\ answer \in Replies
         /\ answer.sw \in SwType /\ answer.bytes \in Bytes /\ Size(answer.bytes) \in Nat
<1>1. answers \in Seq(Replies)
  BY DEF TypeOK, Replies, SwType
<1>2. Tail(answers) \in Seq(Replies) /\ answer \in Replies
  BY <1>1, TailIs DEF answer
<1> QED
  BY <1>2, BytesType DEF Replies

LEMMA TypeStep == TypeOK /\ LineInv /\ [Next]_vars => TypeOK'
<1> SUFFICES ASSUME TypeOK, LineInv, [Next]_vars PROVE TypeOK'
  OBVIOUS
<1>s. /\ started \in BOOLEAN /\ complete \in BOOLEAN /\ waits \in BOOLEAN
      /\ short \in BOOLEAN /\ abandoned \in BOOLEAN /\ crossed \in BOOLEAN
  BY DEF TypeOK
<1>w. ASSUME inbox # <<>>, DeviceWorks(Head(inbox))
      PROVE  DeviceWorks(inbox[1]) /\ Tail(inbox) \in Seq(Apdus)
  BY <1>w, TailIs DEF TypeOK
<1>1. waits' \in BOOLEAN /\ abandoned' \in BOOLEAN /\ crossed' \in BOOLEAN /\ short' \in BOOLEAN
  BY <1>s, Zenon
  DEF Next, SignTX, NotSupported, _SendApdu, GivesUp, NobodyWaits, FirstPack, _TranPack, SignTransactions,
      ReadPiece, ReadRest, NothingLeft, SignETH, DeviceWorks, DeviceRestarts, Answered, Copy, Ends,
      vars, host, link, history
<1>2. /\ started' \in BOOLEAN /\ complete' \in BOOLEAN
      /\ buf' \in Data /\ held' \in Data /\ signed' \in Seq(Data)
  <2>1. CASE UNCHANGED device
    BY <1>s, <2>1 DEF device, TypeOK
  <2>2. CASE inbox # <<>> /\ DeviceWorks(Head(inbox))
    BY <1>w, <2>2, WorksType
  <2>3. CASE DeviceRestarts
    <3>1. <<>> \in Data
      BY EmptySeq DEF Data
    <3> QED
      BY <2>3, <3>1 DEF DeviceRestarts, Forgets, TypeOK
  <2> QED
    BY <2>1, <2>2, <2>3, Zenon
    DEF Next, SignTX, NotSupported, _SendApdu, GivesUp, NobodyWaits, FirstPack, _TranPack, SignTransactions,
        ReadPiece, ReadRest, NothingLeft, SignETH, vars
<1>3. inbox' \in Seq(Apdus)
  <2>1. CASE inbox' = inbox
    BY <2>1 DEF TypeOK
  <2>2. CASE Sends /\ inbox' = Append(inbox, apdu)
    <3>1. apdu \in Apdus
      <4>1. pc \in Ops
        BY <2>2 DEF Sends, Ops, le
      <4> QED
        BY <4>1, LeType
    <3> QED
      BY <2>2, <3>1, GrownIs DEF TypeOK
  <2>3. CASE inbox # <<>> /\ DeviceWorks(Head(inbox))
    BY <1>w, <2>3 DEF DeviceWorks
  <2>4. CASE inbox' = <<>>
    BY <2>4, EmptySeq
  <2> QED
    BY <2>1, <2>2, <2>3, <2>4, Zenon
    DEF Next, SignTX, NotSupported, _SendApdu, GivesUp, NobodyWaits, FirstPack, _TranPack, SignTransactions,
        ReadPiece, ReadRest, NothingLeft, SignETH, DeviceRestarts, Answered, vars, link
<1>4. answers' \in Seq(Replies)
  <2>0. answers \in Seq(Replies)
    BY DEF TypeOK, Replies, SwType
  <2>1. CASE answers' = answers
    BY <2>0, <2>1
  <2>2. CASE answers # <<>> /\ answers' = Tail(answers)
    BY <2>2, AnswerType
  <2>3. CASE inbox # <<>> /\ DeviceWorks(Head(inbox))
    <3>1. PICK a \in Replies : answers' = Append(answers, a)
      BY <1>w, <2>3, WorksType
    <3> QED
      BY <2>0, <3>1, GrownIs
  <2>4. CASE answers' = <<>>
    BY <2>4, EmptySeq
  <2> QED
    BY <2>1, <2>2, <2>3, <2>4, Zenon
    DEF Next, SignTX, NotSupported, _SendApdu, GivesUp, NobodyWaits, FirstPack, _TranPack, SignTransactions,
        ReadPiece, ReadRest, NothingLeft, SignETH, DeviceRestarts, Answered, vars, link
<1>5. jobs' \in Seq(Job) /\ (pc' # "idle" => jobs' # <<>>)
  <2>0. jobs \in Seq(Job) /\ (pc # "idle" => jobs # <<>>)
    BY DEF TypeOK, Job
  <2>1. CASE SignTX
    <3>1. PICK j \in Job : jobs' = Append(jobs, j)
      BY <2>1 DEF SignTX, Job
    <3> QED
      BY <2>0, <3>1, GrownIs
  <2>2. CASE jobs' = jobs /\ pc # "idle"
    BY <2>0, <2>2
  <2>3. CASE jobs' = jobs /\ pc' = pc
    BY <2>0, <2>3
  <2> QED
    BY <2>1, <2>2, <2>3, LeType
    DEF Next, NotSupported, _SendApdu, GivesUp, NobodyWaits, FirstPack, _TranPack, SignTransactions,
        ReadPiece, ReadRest, NothingLeft, SignETH, DeviceWorks, DeviceRestarts, Sends, TLVs, Ends, vars, host
<1>6. /\ times' \in Nat /\ total' \in Nat /\ room' \in Nat
      /\ result' \in {"none", "busy", "ok", "error", "cancelled"} /\ raw' \in Seq(Bytes)
      /\ pc' \in {"idle", "unsupported"} \cup Ops
  <2>0. /\ times \in Nat /\ total \in Nat /\ room \in Nat
        /\ result \in {"none", "busy", "ok", "error", "cancelled"} /\ raw \in Seq(Bytes)
        /\ pc \in {"idle", "unsupported"} \cup Ops
    BY DEF TypeOK
  <2>1. CASE SignTX
    <3>1. <<>> \in Seq(Bytes)
      BY EmptySeq
    <3> QED
      BY <2>1, <3>1 DEF SignTX, Ops
  <2>2. CASE NotSupported \/ _SendApdu \/ GivesUp \/ NobodyWaits \/ NothingLeft \/ DeviceRestarts
             \/ (inbox # <<>> /\ DeviceWorks(Head(inbox))) \/ UNCHANGED vars
    <3>1. UNCHANGED <<times, total, room, raw>> /\ ((pc' = pc /\ result' = result) \/ Ends("error") \/ Ends("ok"))
      BY <2>2 DEF NotSupported, _SendApdu, GivesUp, NobodyWaits, NothingLeft, DeviceRestarts, DeviceWorks, vars, host
    <3> QED
      BY <2>0, <3>1 DEF Ends
  <2>3. CASE FirstPack
    BY <2>0, <2>3 DEF FirstPack, Ends, Ops, TLVs
  <2>4. CASE _TranPack
    <3>1. pc \in TLVs /\ (pc' = "idle" \/ pc' = pc \/ pc' = NextTLV[pc])
      BY <2>4 DEF _TranPack, Ends
    <3>2. pc' \in {"idle", "unsupported"} \cup Ops
      BY <2>0, <3>1, NextTLVType DEF Ops, TLVs
    <3> QED
      BY <2>0, <2>4, <3>2 DEF _TranPack, Ends
  <2>5. CASE SignTransactions
    BY <2>0, <2>5, SignAssumption DEF SignTransactions, Ends, Ops, SignAssumption
  <2>6. CASE ReadPiece \/ ReadRest
    <3>1. answers # <<>>
      BY <2>6 DEF ReadPiece, ReadRest, Answered
    <3>2. Glue(raw, answer.bytes) \in Seq(Bytes) /\ Size(answer.bytes) \in Nat
      BY <2>0, <3>1, AnswerType, GlueType
    <3> QED
      BY <2>0, <2>6, <3>2 DEF ReadPiece, ReadRest, Copy, Ends
  <2>7. CASE SignETH
    <3>1. answers # <<>>
      BY <2>7 DEF SignETH, Answered
    <3>2. Size(answer.bytes) \in Nat /\ <<>> \in Seq(Bytes) /\ <<answer.bytes>> \in Seq(Bytes)
      <4>1. PICK b \in Bytes : b = answer.bytes
        BY <3>1, AnswerType
      <4>2. <<b>> \in Seq(Bytes) /\ <<>> \in Seq(Bytes)
        OBVIOUS
      <4> QED
        BY <3>1, <4>1, <4>2, AnswerType
    <3> QED
      BY <2>0, <2>7, <3>2 DEF SignETH, Ends
  <2> QED
    BY <2>1, <2>2, <2>3, <2>4, <2>5, <2>6, <2>7 DEF Next
<1> QED
  BY <1>1, <1>2, <1>3, <1>4, <1>5, <1>6 DEF TypeOK, Replies, SwType, Job


-----------------------------------------------------------------------------
(* What was signed.                                                        *)
LEMMA DoneIs ==
  ASSUME TypeOK, SignedInv
  PROVE  /\ Done \in Seq(Nat) /\ Len(Done) = Len(signed) /\ Len(jobs) \in Nat
         /\ \A i \in 1 .. Len(Done) : Done[i] \in 1 .. Len(jobs)
<1>1. signed \in Seq(Data) /\ Len(signed) \in Nat /\ Len(jobs) \in Nat
  BY DEF TypeOK
<1> DEFINE n == Len(signed)
           f(i) == ReqOf(jobs, signed[i])
<1>2. Done = [i \in 1 .. n |-> f(i)]
  BY DEF Done
<1>3. n \in Nat
  BY <1>1
<1>4. \A i \in 1 .. n : Done[i] \in 1 .. Len(jobs)
  BY DEF SignedInv
<1> HIDE DEF n, f
<1>5. \A i \in 1 .. n : Done[i] = f(i)
  BY <1>2
<1>6. \A i \in 1 .. n : f(i) \in Nat
  BY <1>1, <1>4, <1>5
<1>7. Done \in [1 .. n -> Nat]
  BY <1>2, <1>6
<1>8. Done \in Seq(Nat) /\ Len(Done) = n
  BY <1>3, <1>7, SeqDef, LenProperties
<1> QED
  BY <1>1, <1>4, <1>8 DEF n

LEMMA DoneSame ==
  ASSUME jobs' = jobs, signed' = signed
  PROVE  Done' = Done /\ (SignedInv => SignedInv')
<1>1. Done' = Done
  BY DEF Done
<1> QED
  BY <1>1 DEF SignedInv

LEMMA DoneSigns ==
  ASSUME TypeOK, SignedInv, jobs' = jobs, NEW r \in 1 .. Len(jobs), signed' = Append(signed, All(jobs, r))
  PROVE  Done' = Append(Done, r) /\ SignedInv'
<1> DEFINE n == Len(signed)
           w == All(jobs, r)
           e == Append(signed, w)
           f(i) == ReqOf(jobs, e[i])
           d == Append(Done, r)
<1>1. signed \in Seq(Data) /\ jobs \in Seq(Job) /\ w \in Data /\ r \in Nat
  <2>1. signed \in Seq(Data) /\ jobs \in Seq(Job) /\ Len(jobs) \in Nat
    BY DEF TypeOK, Job
  <2>2. w \in Data
    BY <2>1, AllType
  <2>3. r \in Nat
    BY <2>1
  <2> QED
    BY <2>1, <2>2, <2>3
<1>2. /\ n \in Nat /\ Len(e) = n + 1 /\ e[n + 1] = w /\ \A i \in 1 .. n : e[i] = signed[i]
  BY <1>1, GrownIs
<1>3. Done \in Seq(Nat) /\ Len(Done) = n
  BY DoneIs
<1>4. /\ d \in Seq(Nat) /\ Len(d) = n + 1 /\ d[n + 1] = r
      /\ \A i \in 1 .. n : d[i] = Done[i]
  BY <1>1, <1>3, GrownIs
<1>5. Done' = [i \in 1 .. Len(e) |-> f(i)]
  BY DEF Done
<1>6. f(n + 1) = r
  BY <1>1, <1>2, ReqOfAll
<1>7. \A i \in 1 .. n : f(i) = Done[i]
  BY <1>2 DEF Done
<1>8. \A i \in 1 .. n : Done[i] \in 1 .. Len(jobs) /\ signed[i] = All(jobs, Done[i])
  BY DEF SignedInv
<1>9. signed' = e
  OBVIOUS
<1> HIDE DEF e, f, d, w, n
<1>10. \A i \in 1 .. n + 1 : f(i) = d[i]
  BY <1>2, <1>4, <1>6, <1>7
<1>11. Done' \in Seq(Nat) /\ Len(Done') = n + 1 /\ \A i \in 1 .. n + 1 : Done'[i] = d[i]
  <2>1. \A i \in 1 .. n + 1 : d[i] \in Nat
    BY <1>4, ElementOfSeq
  <2>2. Done' \in [1 .. n + 1 -> Nat]
    BY <1>2, <1>5, <1>10, <2>1
  <2>3. Done' \in Seq(Nat) /\ Len(Done') = n + 1
    BY <1>2, <2>2, SeqDef, LenProperties
  <2> QED
    BY <1>2, <1>5, <1>10, <2>3
<1>12. Done' = d
  BY <1>4, <1>11, SeqEqual
<1>13. \A i \in 1 .. n + 1 : d[i] \in 1 .. Len(jobs) /\ e[i] = All(jobs, d[i])
  <2> SUFFICES ASSUME NEW i \in 1 .. n + 1 PROVE d[i] \in 1 .. Len(jobs) /\ e[i] = All(jobs, d[i])
    OBVIOUS
  <2>1. CASE i = n + 1
    BY <1>2, <1>4, <2>1 DEF w
  <2>2. CASE i # n + 1
    BY <1>2, <1>4, <1>8, <2>2
  <2> QED
    BY <2>1, <2>2
<1>14. \A i \in 1 .. Len(signed') : Done'[i] \in 1 .. Len(jobs') /\ signed'[i] = All(jobs', Done'[i])
  BY <1>2, <1>9, <1>12, <1>13
<1>15. SignedInv'
  BY <1>14 DEF SignedInv
<1> QED
  BY <1>12, <1>15 DEF d

LEMMA DoneAsks ==
  ASSUME TypeOK, SignedInv, NEW j \in Job, jobs' = Append(jobs, j), signed' = signed
  PROVE  Done' = Done /\ SignedInv'
<1>1. jobs \in Seq(Job)
  BY DEF TypeOK, Job
<1>2. /\ jobs' \in Seq(Job) /\ Len(jobs') = Len(jobs) + 1 /\ Len(jobs) \in Nat
      /\ \A r \in 1 .. Len(jobs) : All(jobs', r) = All(jobs, r)
  BY <1>1, MoreJobs
<1>3. \A i \in 1 .. Len(signed) : Done[i] \in 1 .. Len(jobs) /\ signed[i] = All(jobs, Done[i])
  BY DEF SignedInv
<1>4. \A i \in 1 .. Len(signed) : Done[i] \in 1 .. Len(jobs') /\ signed[i] = All(jobs', Done[i])
  BY <1>2, <1>3
<1>5. \A i \in 1 .. Len(signed) : ReqOf(jobs', signed[i]) = Done[i]
  BY <1>2, <1>4, ReqOfAll
<1>6. Done' = [i \in 1 .. Len(signed) |-> ReqOf(jobs', signed[i])]
  BY DEF Done
<1>7. Done = [i \in 1 .. Len(signed) |-> ReqOf(jobs, signed[i])]
  BY DEF Done
<1>8. \A i \in 1 .. Len(signed) : ReqOf(jobs', signed[i]) = ReqOf(jobs, signed[i])
  BY <1>5 DEF Done
<1>9. Done' = Done
  BY <1>6, <1>7, <1>8
<1> QED
  BY <1>4, <1>9 DEF SignedInv

-----------------------------------------------------------------------------
(* The steps.                                                              *)
Changed == <<jobs, started, complete, buf, held, signed, inbox, crossed>>

(* An answer that is taken while the request is not crossed is its own.    *)
LEMMA AnswerIsOwn ==
  ASSUME SignInv, Answered
  PROVE  /\ waits' = FALSE /\ inbox' = inbox /\ pc \in Ops
         /\ ~crossed => Nothing' /\ inbox = <<>> /\ Own(answer)
         /\ ~abandoned => ~crossed
<1>1. waits /\ answers # <<>> /\ answers' = Tail(answers) /\ waits' = FALSE /\ inbox' = inbox
  BY DEF Answered
<1>2. pc \in Ops
  BY <1>1 DEF SignInv, WaitInv, Sends, Ops, le
<1>3. ASSUME ~crossed PROVE Nothing' /\ inbox = <<>> /\ Own(answer)
  <2>1. inbox = <<>> /\ Len(answers) = 1 /\ Own(answers[1])
    BY <1>1, <1>2, <1>3 DEF SignInv, QuietInv, Nothing
  <2>2. answers \in Seq(Replies)
    BY DEF SignInv, TypeOK, Replies, SwType
  <2>3. Tail(answers) = <<>> /\ answer = answers[1]
    BY <1>1, <2>1, <2>2, TailIs DEF answer
  <2> QED
    BY <1>1, <2>1, <2>3 DEF Nothing
<1> QED
  BY <1>1, <1>2, <1>3 DEF SignInv, QuietInv

(* The thread is done with the request.                                    *)
LEMMA Leaves ==
  ASSUME SignInv, NEW r \in {"ok", "error", "cancelled"}, Ends(r), waits' = FALSE, UNCHANGED Changed,
         ~abandoned' => ~crossed /\ Nothing',
         r = "cancelled" /\ ~crossed => Unsigned(Done, inbox, Len(jobs)),
         r = "ok" /\ ~crossed => Has(Done, Len(jobs)),
         RawIsWhole'
  PROVE  (WaitInv /\ LineInv /\ SignedInv /\ OrderInv /\ QuietInv /\ ReadInv /\ RawIsWhole)'
<1>1. pc' = "idle" /\ result' = r /\ "idle" \notin Ops /\ r # "busy"
  BY DEF Ends, Ops, TLVs
<1>2. Done' = Done /\ SignedInv'
  BY DoneSame DEF SignInv, Changed
<1>3. WaitInv'
  BY <1>1 DEF WaitInv
<1>4. LineInv'
  BY <1>1 DEF SignInv, LineInv, Changed, Loads, Ops
<1>5. OrderInv'
  BY <1>1, <1>2 DEF SignInv, OrderInv, Changed, Loads, TLVs
<1>6. QuietInv'
  BY <1>1 DEF QuietInv, Changed
<1>7. ReadInv'
  BY <1>1 DEF ReadInv, Loads, TLVs
<1> QED
  BY <1>2, <1>3, <1>4, <1>5, <1>6, <1>7

(* A chunk, or the APDU that signs, comes next.                            *)
LEMMA NextLoad ==
  ASSUME SignInv, Answered, pc \in Loads, pc' \in TLVs \cup {"sign"}, apdu' = After(jobs, apdu),
         UNCHANGED Changed, UNCHANGED <<result, raw, short, abandoned>>
  PROVE  (WaitInv /\ LineInv /\ SignedInv /\ OrderInv /\ QuietInv /\ ReadInv /\ RawIsWhole)'
<1>1. /\ waits' = FALSE /\ pc \in Ops /\ pc # "idle" /\ pc' # "idle" /\ pc' # "read" /\ waits
      /\ apdu.op = pc
  BY AnswerIsOwn DEF Loads, TLVs, apdu, Answered
<1>2. Done' = Done /\ SignedInv'
  BY DoneSame DEF SignInv, Changed
<1>3. WaitInv'
  BY <1>1 DEF SignInv, WaitInv
<1>4. Placed(jobs, After(jobs, apdu)) /\ Expected(jobs, inbox, started, complete, buf, After(jobs, apdu))
  BY <1>1, AfterType, LeType DEF SignInv, LineInv, TypeOK, Job
<1>5. LineInv'
  BY <1>1, <1>4 DEF SignInv, LineInv, Changed
<1>6. OrderInv'
  <2>1. /\ Unsigned(Done, inbox, Len(jobs)) /\ Ordered(Done, inbox)
        /\ result = "ok" /\ ~crossed => Has(Done, Len(jobs))
    BY DEF SignInv, OrderInv
  <2> QED
    BY <1>2, <2>1 DEF OrderInv, Changed
<1>7. QuietInv'
  BY <1>1, AnswerIsOwn DEF SignInv, QuietInv, Changed
<1>8. ReadInv'
  BY <1>1 DEF SignInv, ReadInv
<1>9. RawIsWhole'
  BY <1>1 DEF SignInv, WaitInv, RawIsWhole
<1> QED
  BY <1>2, <1>3, <1>5, <1>6, <1>7, <1>8, <1>9

LEMMA SignTXIs ==
  ASSUME SignTX
  PROVE  \E j \in Job : /\ jobs' = Append(jobs, j)
                        /\ pc' \in {"first", "eth", "unsupported"}
                        /\ pc' = "first" => j.chain = "btc" /\ j.size \in Sizes
                        /\ pc' = "eth" => j.chain = "eth"
<1>1. CASE \E s \in Sizes : /\ jobs' = Append(jobs, [chain |-> "btc", size |-> s])
                            /\ pc' = "first"
  <2>1. PICK s \in Sizes : jobs' = Append(jobs, [chain |-> "btc", size |-> s]) /\ pc' = "first"
    BY <1>1
  <2> DEFINE j == [chain |-> "btc", size |-> s]
  <2>2. j \in Job /\ j.chain = "btc" /\ j.size \in Sizes
    BY DEF Job
  <2> QED
    BY <2>1, <2>2
<1>2. CASE \E c \in {"eth", "unsupported"} :
             jobs' = Append(jobs, [chain |-> c, size |-> NoTLVs]) /\ pc' = c
  <2>1. PICK c \in {"eth", "unsupported"} : jobs' = Append(jobs, [chain |-> c, size |-> NoTLVs]) /\ pc' = c
    BY <1>2
  <2> DEFINE j == [chain |-> c, size |-> NoTLVs]
  <2>2. j \in Job /\ j.chain = c
    BY DEF Job
  <2> QED
    BY <2>1, <2>2
<1> QED
  BY <1>1, <1>2 DEF SignTX

(* A new request says nothing about the APDUs of the ones before.          *)
LEMMA BoxKept ==
  ASSUME NEW js \in Seq(Job), NEW j \in Job, NEW ks, ks = Append(js, j),
         NEW box, NEW st, NEW co, NEW b, Box(js, box, st, co, b)
  PROVE  Box(ks, box, st, co, b)
<1>1. /\ Len(ks) = Len(js) + 1 /\ Len(js) \in Nat
      /\ \A r \in 1 .. Len(js) : ks[r] = js[r] /\ All(ks, r) = All(js, r)
  <2>1. ks = Append(js, j) /\ js \in Seq(Job) /\ j \in Job
    OBVIOUS
  <2> HIDE DEF Job
  <2> QED
    BY <2>1, MoreJobs, ZenonT(30)
<1>2. \A i \in 1 .. Len(box) : Placed(js, box[i]) /\ box[i].of \in 1 .. Len(js) /\ ks[box[i].of] = js[box[i].of]
  BY <1>1 DEF Box, Placed
<1>3. \A i \in 1 .. Len(box) : Placed(ks, box[i])
  BY <1>1, <1>2 DEF Placed
<1>4. ASSUME NEW i \in 1 .. Len(box) - 1 PROVE Follows(ks, box[i], box[i + 1])
  <2>1. i \in 1 .. Len(box)
    BY <1>4
  <2>2. After(ks, box[i]) = After(js, box[i])
    BY <1>2, <2>1 DEF After, Last
  <2> QED
    BY <1>4, <2>2 DEF Box, Follows
<1>5. ASSUME box # <<>>, 1 \in 1 .. Len(box) PROVE Ready(ks, st, co, b, box[1])
  <2>1. ks[box[1].of] = js[box[1].of] /\ All(ks, box[1].of) = All(js, box[1].of)
    BY <1>1, <1>2, <1>5
  <2> QED
    BY <1>5, <2>1 DEF Box, Ready
<1> QED
  BY <1>3, <1>4, <1>5 DEF Box

LEMMA SignTXStep ==
  ASSUME SignInv, SignTX
  PROVE  (WaitInv /\ LineInv /\ SignedInv /\ OrderInv /\ QuietInv /\ ReadInv /\ RawIsWhole)'
<1>1. PICK j \in Job : /\ jobs' = Append(jobs, j)
                       /\ pc' \in {"first", "eth", "unsupported"}
                       /\ pc' = "first" => j.chain = "btc" /\ j.size \in Sizes
                       /\ pc' = "eth" => j.chain = "eth"
  BY SignTXIs
<1>2. /\ pc = "idle" /\ result' = "busy" /\ times' = 0 /\ raw' = <<>> /\ crossed' = FALSE
      /\ UNCHANGED <<started, buf, complete, held, signed, waits, inbox, answers, abandoned>>
  BY DEF SignTX, device, link
<1>3. waits = FALSE /\ waits' = FALSE /\ pc' # "idle"
  BY <1>1, <1>2 DEF SignInv, WaitInv, Sends, TLVs, le, TypeOK
<1>4. Done' = Done /\ SignedInv' /\ Done \in Seq(Nat) /\ \A i \in 1 .. Len(Done) : Done[i] \in 1 .. Len(jobs)
  BY <1>1, <1>2, DoneAsks, DoneIs DEF SignInv
<1>5. jobs \in Seq(Job) /\ inbox \in Seq(Apdus)
  BY DEF SignInv, TypeOK, Job
<1>6. Len(jobs') = Len(jobs) + 1 /\ Len(jobs) \in Nat /\ jobs'[Len(jobs) + 1] = j
  BY <1>1, <1>5, MoreJobs
<1>7. WaitInv'
  BY <1>1, <1>2, <1>3 DEF WaitInv
<1>8. LineInv'
  <2>1. Box(jobs', inbox, started, complete, buf)
    BY <1>1, <1>5, BoxKept DEF SignInv, LineInv
  <2>2. apdu'.of = Len(jobs) + 1 /\ apdu'.op = pc' /\ apdu'.times = 0
    BY <1>2, <1>6 DEF apdu, request
  <2>3. pc' \in Ops => Placed(jobs', apdu')
    <3>1. Len(jobs) + 1 \in 1 .. Len(jobs')
      BY <1>6
    <3>2. pc' \in Ops => pc' \in {"first", "eth"}
      BY <1>1 DEF Ops, TLVs
    <3> QED
      BY <1>1, <1>6, <2>2, <3>1, <3>2 DEF Placed, Loads, TLVs
  <2>4. pc' \in Ops => Expected(jobs', inbox, started, complete, buf, apdu')
    BY <1>1, <2>2 DEF Expected, Follows, Ready, TLVs
  <2> QED
    BY <1>2, <1>3, <2>1, <2>3, <2>4 DEF LineInv
<1>9. OrderInv'
  <2>1. \A i \in 1 .. Len(inbox) : inbox[i].of \in 1 .. Len(jobs)
    BY DEF SignInv, LineInv, Box, Placed
  <2>2. Unsigned(Done, inbox, Len(jobs) + 1)
    BY <1>4, <1>6, <2>1 DEF Unsigned
  <2> QED
    BY <1>2, <1>4, <1>6, <2>2 DEF SignInv, OrderInv
<1>10. QuietInv'
  BY <1>1, <1>2, <1>3 DEF SignInv, QuietInv, Ops, TLVs, Nothing
<1>11. ReadInv'
  BY <1>1, <1>2 DEF ReadInv
<1>12. RawIsWhole'
  BY <1>2 DEF RawIsWhole
<1> QED
  BY <1>4, <1>7, <1>8, <1>9, <1>10, <1>11, <1>12

LEMMA SendStep ==
  ASSUME SignInv, _SendApdu
  PROVE  (WaitInv /\ LineInv /\ SignedInv /\ OrderInv /\ QuietInv /\ ReadInv /\ RawIsWhole)'
<1>1. /\ Sends /\ ~waits /\ waits \in BOOLEAN /\ pc \in Ops /\ pc # "idle" /\ result = "busy"
      /\ UNCHANGED <<jobs, times, total, room, raw, started, buf, complete, held, signed, answers,
                     short, abandoned>>
  BY DEF _SendApdu, SignInv, WaitInv, TypeOK, Sends, Ops, TLVs, le, device
<1>2. ~abandoned => ~crossed /\ Nothing
  BY <1>1 DEF SignInv, QuietInv
<1>3. CASE Ends("error") /\ UNCHANGED <<inbox, waits, crossed>>
  <2>1. waits' = FALSE /\ UNCHANGED Changed
    BY <1>1, <1>3 DEF Changed
  <2>2. RawIsWhole'
    BY <1>3 DEF Ends, RawIsWhole
  <2>3. ~abandoned' => ~crossed /\ Nothing'
    BY <1>1, <1>2, <1>3 DEF Nothing
  <2> QED
    BY <1>3, <2>1, <2>2, <2>3, Leaves
<1>4. CASE /\ inbox' = Append(inbox, apdu) /\ waits' = TRUE
           /\ crossed' = (crossed \/ inbox # <<>> \/ answers # <<>>)
           /\ UNCHANGED <<pc, result>>
  <2>1. apdu' = apdu /\ le' = le /\ Sends' /\ apdu.op = pc /\ apdu.of = Len(jobs)
    BY <1>1, <1>4 DEF apdu, le, more, request, Sends
  <2>2. Done' = Done /\ SignedInv'
    BY <1>1, DoneSame DEF SignInv
  <2>3. apdu \in Apdus /\ Placed(jobs, apdu) /\ inbox \in Seq(Apdus)
    BY <1>1, LeType DEF SignInv, LineInv, TypeOK
  <2>4. WaitInv'
    BY <1>1, <1>4, <2>1 DEF SignInv, WaitInv
  <2>5. LineInv'
    <3>1. /\ Box(jobs, inbox', started, complete, buf)
          /\ pc \in Loads => Expected(jobs, inbox', started, complete, buf, After(jobs, apdu))
      BY <1>1, <1>4, <2>1, <2>3, Pushed DEF SignInv, LineInv
    <3> QED
      BY <1>1, <1>4, <2>1, <2>3, <3>1 DEF LineInv
  <2>6. OrderInv'
    <3>1. pc = "read" \/ Unsigned(Done, inbox, Len(jobs))
      BY <1>1 DEF SignInv, OrderInv, Ops, Loads, TLVs
    <3>2. Ordered(Done, inbox')
      BY <1>4, <2>1, <2>3, <3>1, OrderPushed DEF SignInv, OrderInv
    <3>3. pc \in Loads => Unsigned(Done, inbox', Len(jobs))
      <4> SUFFICES ASSUME pc \in Loads PROVE Unsigned(Done, inbox', Len(jobs))
        OBVIOUS
      <4>1. Unsigned(Done, inbox, Len(jobs)) /\ ~Signs(apdu)
        BY <2>1 DEF SignInv, OrderInv, Signs, Loads, TLVs
      <4>2. /\ Len(inbox') = Len(inbox) + 1 /\ Len(inbox) \in Nat /\ inbox'[Len(inbox) + 1] = apdu
            /\ \A i \in 1 .. Len(inbox) : inbox'[i] = inbox[i]
        BY <1>4, <2>3, GrownIs
      <4>3. \A i \in 1 .. Len(inbox') : Signs(inbox'[i]) => i \in 1 .. Len(inbox)
        BY <4>1, <4>2
      <4> QED
        BY <4>1, <4>2, <4>3 DEF Unsigned
    <3>4. pc # "unsupported" /\ result' = "busy"
      BY <1>1, <1>4 DEF Ops, TLVs
    <3> QED
      BY <1>1, <1>4, <2>2, <3>2, <3>3, <3>4 DEF OrderInv
  <2>7. QuietInv'
    <3>1. ~crossed' => inbox = <<>> /\ answers = <<>>
      BY <1>4
    <3>2. ~crossed' => inbox' = <<apdu>>
      BY <1>4, <3>1
    <3>3. ~abandoned' => ~crossed'
      BY <1>1, <1>2, <1>4 DEF Nothing
    <3> QED
      BY <1>1, <1>4, <2>1, <3>1, <3>2, <3>3 DEF QuietInv
  <2>8. ReadInv'
    <3>1. ~crossed' => ~crossed
      BY <1>4
    <3> QED
      BY <1>1, <1>4, <2>2, <3>1 DEF SignInv, ReadInv, Mine
  <2>9. RawIsWhole'
    BY <1>1, <1>4 DEF RawIsWhole
  <2> QED
    BY <2>2, <2>4, <2>5, <2>6, <2>7, <2>8, <2>9
<1> QED
  BY <1>3, <1>4 DEF _SendApdu

LEMMA GivesUpStep ==
  ASSUME SignInv, GivesUp
  PROVE  (WaitInv /\ LineInv /\ SignedInv /\ OrderInv /\ QuietInv /\ ReadInv /\ RawIsWhole)'
<1>1. Ends("error") /\ waits' = FALSE /\ abandoned' = TRUE /\ UNCHANGED Changed
  BY DEF GivesUp, Changed, device
<1>2. RawIsWhole'
  BY <1>1 DEF Ends, RawIsWhole
<1> QED
  BY <1>1, <1>2, Leaves

LEMMA NobodyWaitsStep ==
  ASSUME SignInv, NobodyWaits
  PROVE  (WaitInv /\ LineInv /\ SignedInv /\ OrderInv /\ QuietInv /\ ReadInv /\ RawIsWhole)'
<1>1. /\ ~waits /\ answers # <<>>
      /\ UNCHANGED <<pc, jobs, times, total, room, raw, result, started, buf, complete, held, signed,
                     waits, inbox, short, abandoned, crossed>>
  BY DEF NobodyWaits, host, device, history
<1>2. Done' = Done /\ SignedInv'
  BY <1>1, DoneSame DEF SignInv
<1>3. apdu' = apdu /\ Sends' = Sends
  BY <1>1 DEF apdu, le, more, request, Sends
<1>4. WaitInv' /\ LineInv'
  BY <1>1, <1>3 DEF SignInv, WaitInv, LineInv
<1>5. OrderInv' /\ ReadInv' /\ RawIsWhole'
  BY <1>1, <1>2 DEF SignInv, OrderInv, ReadInv, RawIsWhole, Mine, request, Whole
<1>6. QuietInv'
  BY <1>1 DEF SignInv, QuietInv, Nothing
<1> QED
  BY <1>2, <1>4, <1>5, <1>6

LEMMA FirstPackStep ==
  ASSUME SignInv, FirstPack
  PROVE  (WaitInv /\ LineInv /\ SignedInv /\ OrderInv /\ QuietInv /\ ReadInv /\ RawIsWhole)'
<1>1. /\ pc = "first" /\ Answered /\ waits' = FALSE /\ UNCHANGED Changed
      /\ UNCHANGED <<times, total, raw, short, abandoned>>
      /\ (pc' = "path" /\ result' = result) \/ Ends("error")
  BY DEF FirstPack, Changed, device, history, Answered
<1>2. CASE Ends("error")
  <2>1. RawIsWhole'
    BY <1>2 DEF Ends, RawIsWhole
  <2>2. ~abandoned' => ~crossed /\ Nothing'
    BY <1>1, AnswerIsOwn
  <2> QED
    BY <1>1, <1>2, <2>1, <2>2, Leaves
<1>3. CASE pc' = "path" /\ result' = result
  <2>1. times = 0
    BY <1>1 DEF SignInv, LineInv, Placed, apdu, Ops
  <2>2. apdu' = After(jobs, apdu)
    BY <1>1, <1>3, <2>1 DEF apdu, le, After, request, Changed
  <2> QED
    BY <1>1, <1>3, <2>2, NextLoad DEF Loads, TLVs
<1> QED
  BY <1>1, <1>2, <1>3

LEMMA TranPackStep ==
  ASSUME SignInv, _TranPack
  PROVE  (WaitInv /\ LineInv /\ SignedInv /\ OrderInv /\ QuietInv /\ ReadInv /\ RawIsWhole)'
<1>1. /\ pc \in TLVs /\ Answered /\ waits' = FALSE /\ UNCHANGED Changed
      /\ UNCHANGED <<total, raw, short, abandoned>>
      /\ \/ Ends("error")
         \/ /\ result' = result
            /\ IF ~IsLast(apdu) THEN times' = times + 1 /\ pc' = pc
               ELSE times' = 0 /\ pc' = NextTLV[pc]
  BY DEF _TranPack, Changed, device, history, Answered
<1>2. CASE Ends("error")
  <2>1. RawIsWhole'
    BY <1>2 DEF Ends, RawIsWhole
  <2>2. ~abandoned' => ~crossed /\ Nothing'
    BY <1>1, AnswerIsOwn
  <2> QED
    BY <1>1, <1>2, <2>1, <2>2, Leaves
<1>3. CASE /\ result' = result
           /\ IF ~IsLast(apdu) THEN times' = times + 1 /\ pc' = pc
              ELSE times' = 0 /\ pc' = NextTLV[pc]
  <2>1. IsLast(apdu) <=> Last(jobs, apdu)
    BY WholeIs
  <2>2. NextTLV[pc] \in {"tx", "change", "sign"} /\ pc # "first" /\ pc # "read"
    BY <1>1, NextTLVType DEF TLVs
  <2>3. pc' \in TLVs \cup {"sign"} /\ pc' # "read"
    BY <1>1, <1>3, <2>2 DEF TLVs
  <2>4. apdu' = After(jobs, apdu)
    BY <1>1, <1>3, <2>1, <2>2, <2>3 DEF apdu, le, After, request, Changed
  <2> QED
    BY <1>1, <1>3, <2>3, <2>4, NextLoad DEF Loads
<1> QED
  BY <1>1, <1>2, <1>3

(* Going on with reading.                                                  *)
LEMMA Reads ==
  ASSUME SignInv, Answered, pc \in {"sign", "read"}, pc' = "read", UNCHANGED Changed,
         UNCHANGED <<result, abandoned>>, ReadInv'
  PROVE  (WaitInv /\ LineInv /\ SignedInv /\ OrderInv /\ QuietInv /\ ReadInv /\ RawIsWhole)'
<1>1. /\ waits' = FALSE /\ pc \in Ops /\ result = "busy" /\ pc # "eth" /\ "read" \in Ops
      /\ "read" \notin Loads /\ "read" # "unsupported"
  BY AnswerIsOwn DEF SignInv, WaitInv, Loads, Ops, TLVs
<1>2. Done' = Done /\ SignedInv'
  BY DoneSame DEF SignInv, Changed
<1>3. WaitInv'
  BY <1>1 DEF WaitInv
<1>4. LineInv'
  <2>1. apdu'.of = apdu.of /\ apdu'.op = "read" /\ apdu.op = pc
    BY DEF apdu, request, Changed
  <2>2. Placed(jobs, apdu)
    BY <1>1 DEF SignInv, LineInv
  <2>3. Placed(jobs, apdu')
    BY <2>1, <2>2 DEF Placed, TLVs, Loads
  <2>4. Expected(jobs, inbox, started, complete, buf, apdu')
    BY <2>1 DEF Expected, Follows, Ready, TLVs
  <2> QED
    BY <1>1, <2>3, <2>4 DEF SignInv, LineInv, Changed
<1>5. OrderInv'
  BY <1>1, <1>2 DEF SignInv, OrderInv, Changed
<1>6. QuietInv'
  BY <1>1, AnswerIsOwn DEF QuietInv, Changed
<1>7. RawIsWhole'
  BY <1>1 DEF RawIsWhole
<1> QED
  BY <1>2, <1>3, <1>4, <1>5, <1>6, <1>7

LEMMA SignTransactionsStep ==
  ASSUME SignInv, SignTransactions
  PROVE  (WaitInv /\ LineInv /\ SignedInv /\ OrderInv /\ QuietInv /\ ReadInv /\ RawIsWhole)'
<1>1. /\ pc = "sign" /\ Answered /\ waits' = FALSE /\ UNCHANGED Changed
      /\ UNCHANGED <<times, raw, short, abandoned>>
      /\ \/ answer.sw = "ok" /\ total' \in RawLens /\ pc' = "read" /\ result' = result
         \/ answer.sw = "cancelled" /\ Ends("cancelled")
         \/ Ends("error")
  BY DEF SignTransactions, Changed, device, history, Answered
<1>2. CASE Ends("error") \/ (answer.sw = "cancelled" /\ Ends("cancelled"))
  <2>1. RawIsWhole'
    BY <1>2 DEF Ends, RawIsWhole
  <2>2. ~abandoned' => ~crossed /\ Nothing'
    BY <1>1, AnswerIsOwn
  <2>3. CASE Ends("error")
    BY <1>1, <2>1, <2>2, <2>3, Leaves
  <2>4. CASE answer.sw = "cancelled" /\ Ends("cancelled")
    <3>1. ~crossed => Unsigned(Done, inbox, Len(jobs))
      BY <1>1, <2>4, AnswerIsOwn DEF Own
    <3> QED
      BY <1>1, <2>1, <2>2, <2>4, <3>1, Leaves
  <2> QED
    BY <1>2, <2>3, <2>4
<1>3. CASE answer.sw = "ok" /\ total' \in RawLens /\ pc' = "read" /\ result' = result
  <2>1. times = 0 /\ raw = <<>>
    BY <1>1, AnswerIsOwn DEF SignInv, LineInv, Placed, apdu, ReadInv
  <2>2. total' \in Nat \ {0} /\ PieceLen \in Nat \ {0}
    BY <1>3, SignAssumption DEF SignAssumption
  <2>3. times' <= total' \div PieceLen
    <3>1. PICK n \in Nat : n = total'
      BY <2>2
    <3>2. PICK q \in Nat : q = n \div PieceLen
      BY <2>2, Division
    <3> QED
      BY <1>1, <2>1, <3>1, <3>2
  <2>4. Done' = Done
    BY <1>1, DoneSame DEF Changed
  <2>5. ~crossed => Has(Done, Len(jobs)) /\ held = Mine
    BY <1>1, <1>3, AnswerIsOwn DEF Own
  <2>6. times' * PieceLen = 0
    BY <1>1, <2>1, <2>2
  <2>7. raw' = Pieces(Mine', times' * PieceLen)
    BY <1>1, <2>1, <2>6 DEF Pieces
  <2>8. Mine' = Mine
    BY <1>1 DEF Mine, Changed
  <2>9. ReadInv'
    BY <1>1, <1>3, <2>2, <2>3, <2>4, <2>5, <2>7, <2>8 DEF ReadInv, Changed, Loads, TLVs
  <2> QED
    BY <1>1, <1>3, <2>9, Reads
<1> QED
  BY <1>1, <1>2, <1>3

(* A piece taken, in a request that is not crossed and got no short one,   *)
(* is a whole one, behind those before it.                                 *)
LEMMA Copied ==
  ASSUME SignInv, pc = "read", Answered, Copy(answer.bytes), answer.sw = "ok", ~short', ~crossed
  PROVE  /\ ~short /\ le \in Nat \ {0} /\ times * PieceLen \in Nat
         /\ raw' = <<Span(Mine, 0, times * PieceLen + le)>>
<1> DEFINE b == answer.bytes
           m == times * PieceLen
<1>1. /\ Size(b) > 0 /\ Size(b) <= le
      /\ b = Span(Mine, times * PieceLen, times * PieceLen + Size(b))
  BY AnswerIsOwn DEF Own
<1>2. Size(b) \in Nat /\ le \in Nat
  BY AnswerType, LeType DEF SignInv, Answered
<1>3. short \in BOOLEAN
  BY DEF SignInv, TypeOK
<1>4. short' = (short \/ Size(b) < le) /\ raw' = IF Size(b) = 0 THEN raw ELSE Glue(raw, b)
  BY DEF Copy
<1>5. ~short /\ ~(Size(b) < le)
  BY <1>3, <1>4
<1>6. Size(b) = le
  BY <1>1, <1>2, <1>5
<1>7. m \in Nat
  BY SignAssumption DEF SignInv, TypeOK, SignAssumption
<1>8. raw = Pieces(Mine, m)
  BY <1>5 DEF SignInv, ReadInv
<1>9. raw' = Glue(Pieces(Mine, m), Span(Mine, m, m + le))
  BY <1>1, <1>4, <1>6, <1>8
<1>10. PICK p \in Nat \ {0} : p = m + le
  BY <1>1, <1>2, <1>6, <1>7
<1>11. Glue(Pieces(Mine, m), Span(Mine, m, p)) = <<Span(Mine, 0, p)>>
  BY <1>7, MorePieces
<1> QED
  BY <1>1, <1>2, <1>5, <1>6, <1>7, <1>9, <1>10, <1>11

LEMMA ReadPieceStep ==
  ASSUME SignInv, ReadPiece
  PROVE  (WaitInv /\ LineInv /\ SignedInv /\ OrderInv /\ QuietInv /\ ReadInv /\ RawIsWhole)'
<1>1. /\ pc = "read" /\ more /\ Answered /\ waits' = FALSE /\ UNCHANGED Changed
      /\ UNCHANGED <<total, abandoned>>
      /\ \/ Ends("error")
         \/ /\ answer.sw = "ok" /\ Copy(answer.bytes)
            /\ times' = times + 1 /\ pc' = pc /\ result' = result
  BY DEF ReadPiece, Changed, device, Answered, Refused
<1>2. CASE Ends("error")
  <2>1. RawIsWhole'
    BY <1>2 DEF Ends, RawIsWhole
  <2>2. ~abandoned' => ~crossed /\ Nothing'
    BY <1>1, AnswerIsOwn
  <2> QED
    BY <1>1, <1>2, <2>1, <2>2, Leaves
<1>3. CASE /\ answer.sw = "ok" /\ Copy(answer.bytes)
           /\ times' = times + 1 /\ pc' = pc /\ result' = result
  <2>1. Done' = Done /\ Mine' = Mine
    BY <1>1, DoneSame DEF Changed, Mine
  <2>2. PieceLen \in Nat \ {0} /\ times \in Nat /\ total \in Nat
    BY SignAssumption DEF SignInv, TypeOK, SignAssumption
  <2>3. times' <= total' \div PieceLen
    <3>1. PICK q \in Nat : q = total \div PieceLen
      BY <2>2, Division
    <3> QED
      BY <1>1, <1>3, <2>2, <3>1 DEF more
  <2>4. ~crossed' /\ ~short' => raw' = Pieces(Mine', times' * PieceLen)
    <3> SUFFICES ASSUME ~crossed', ~short' PROVE raw' = Pieces(Mine, times' * PieceLen)
      BY <2>1
    <3>1. le \in Nat \ {0} /\ times * PieceLen \in Nat /\ raw' = <<Span(Mine, 0, times * PieceLen + le)>>
      BY <1>1, <1>3, Copied DEF Changed
    <3>2. le = PieceLen
      BY <1>1 DEF le
    <3>3. (times + 1) * PieceLen = times * PieceLen + PieceLen
      BY <2>2
    <3>4. PICK p \in Nat \ {0} : p = times * PieceLen + PieceLen
      BY <2>2, <3>1
    <3>5. raw' = Pieces(Mine, p)
      BY <3>1, <3>2, <3>4 DEF Pieces
    <3> QED
      BY <1>3, <3>3, <3>4, <3>5
  <2>5. ReadInv'
    BY <1>1, <1>3, <2>1, <2>3, <2>4 DEF SignInv, ReadInv, Changed, Loads, TLVs
  <2> QED
    BY <1>1, <1>3, <2>5, Reads
<1> QED
  BY <1>1, <1>2, <1>3

(* The place where reading stops.                                          *)
LEMMA AllRead ==
  ASSUME SignInv, pc = "read", ~more
  PROVE  times * PieceLen + le = total /\ total # 0
<1>1. PieceLen \in Nat \ {0} /\ times \in Nat /\ total \in Nat
  BY SignAssumption DEF SignInv, TypeOK, SignAssumption
<1>2. PICK q \in Nat, m \in Nat : /\ q = total \div PieceLen /\ m = total % PieceLen
                                  /\ q * PieceLen + m = total
  BY <1>1, Division
<1>3. times <= q /\ ~(times < q) /\ total # 0
  BY <1>2 DEF SignInv, ReadInv, more
<1>4. times = q /\ le = m
  BY <1>1, <1>2, <1>3 DEF le
<1> QED
  BY <1>2, <1>3, <1>4

LEMMA ReadRestStep ==
  ASSUME SignInv, ReadRest
  PROVE  (WaitInv /\ LineInv /\ SignedInv /\ OrderInv /\ QuietInv /\ ReadInv /\ RawIsWhole)'
<1>1. /\ pc = "read" /\ ~more /\ Answered /\ waits' = FALSE /\ UNCHANGED Changed
      /\ UNCHANGED <<total, abandoned>>
      /\ \/ Ends("error")
         \/ answer.sw = "ok" /\ Copy(answer.bytes) /\ Ends("ok")
  BY DEF ReadRest, Changed, device, Answered, Refused
<1>2. ~abandoned' => ~crossed /\ Nothing'
  BY <1>1, AnswerIsOwn
<1>3. CASE Ends("error")
  <2>1. RawIsWhole'
    BY <1>3 DEF Ends, RawIsWhole
  <2> QED
    BY <1>1, <1>2, <1>3, <2>1, Leaves
<1>4. CASE answer.sw = "ok" /\ Copy(answer.bytes) /\ Ends("ok")
  <2>1. ASSUME ~crossed', ~short' PROVE raw' = <<Span(Mine, 0, total)>>
    BY <1>1, <1>4, <2>1, Copied, AllRead DEF Changed
  <2>2. Whole(request)' = Mine
    BY <1>1 DEF Mine, Whole, All, request, Changed
  <2>3. RawIsWhole'
    BY <1>1, <2>1, <2>2 DEF RawIsWhole
  <2>4. ~crossed => Has(Done, Len(jobs))
    BY <1>1 DEF SignInv, ReadInv
  <2> QED
    BY <1>1, <1>2, <1>4, <2>3, <2>4, Leaves
<1> QED
  BY <1>1, <1>3, <1>4

LEMMA NothingLeftStep ==
  ASSUME SignInv, NothingLeft
  PROVE  (WaitInv /\ LineInv /\ SignedInv /\ OrderInv /\ QuietInv /\ ReadInv /\ RawIsWhole)'
<1>1. /\ pc = "read" /\ le = 0 /\ Ends("ok") /\ UNCHANGED Changed
      /\ UNCHANGED <<times, total, raw, waits, answers, short, abandoned>>
  BY DEF NothingLeft, Changed, device, link, history
<1>2. ~waits /\ waits \in BOOLEAN
  BY <1>1 DEF SignInv, WaitInv, TypeOK, Sends, TLVs
<1>3. ~abandoned' => ~crossed /\ Nothing'
  BY <1>1, <1>2 DEF SignInv, QuietInv, Nothing, Changed
<1>4. PieceLen \in Nat \ {0} /\ times \in Nat /\ total \in Nat
  BY SignAssumption DEF SignInv, TypeOK, SignAssumption
<1>5. ~more
  BY <1>1, <1>4 DEF le
<1>6. times * PieceLen = total /\ total # 0
  <2>1. times * PieceLen \in Nat
    BY <1>4
  <2> QED
    BY <1>1, <1>5, <2>1, AllRead
<1>7. ASSUME ~crossed, ~short PROVE raw = <<Span(Mine, 0, total)>>
  <2>1. raw = Pieces(Mine, times * PieceLen)
    BY <1>1, <1>7 DEF SignInv, ReadInv
  <2> QED
    BY <1>6, <2>1 DEF Pieces
<1>8. Whole(request)' = Mine
  BY <1>1 DEF Mine, Whole, All, request, Changed
<1>9. RawIsWhole'
  BY <1>1, <1>7, <1>8 DEF RawIsWhole, Changed
<1>10. ~crossed => Has(Done, Len(jobs))
  BY <1>1 DEF SignInv, ReadInv
<1> QED
  BY <1>1, <1>2, <1>3, <1>9, <1>10, Leaves

LEMMA SignETHStep ==
  ASSUME SignInv, SignETH
  PROVE  (WaitInv /\ LineInv /\ SignedInv /\ OrderInv /\ QuietInv /\ ReadInv /\ RawIsWhole)'
<1>1. /\ pc = "eth" /\ Answered /\ waits' = FALSE /\ UNCHANGED Changed
      /\ UNCHANGED <<abandoned, short>>
      /\ \/ Ends("error")
         \/ /\ answer.sw = "ok" /\ Ends("ok") /\ total' = Size(answer.bytes)
            /\ raw' = IF Size(answer.bytes) = 0 THEN <<>> ELSE <<answer.bytes>>
  BY DEF SignETH, Changed, device, history, Answered, Refused
<1>2. ~abandoned' => ~crossed /\ Nothing'
  BY <1>1, AnswerIsOwn
<1>3. CASE Ends("error")
  <2>1. RawIsWhole'
    BY <1>3 DEF Ends, RawIsWhole
  <2> QED
    BY <1>1, <1>2, <1>3, <2>1, Leaves
<1>4. CASE /\ answer.sw = "ok" /\ Ends("ok") /\ total' = Size(answer.bytes)
           /\ raw' = IF Size(answer.bytes) = 0 THEN <<>> ELSE <<answer.bytes>>
  <2>1. ASSUME ~crossed' PROVE raw' = <<Span(Mine, 0, total')>>
    <3>1. Size(answer.bytes) > 0 /\ answer.bytes = Span(Mine, 0, Size(answer.bytes))
      BY <1>1, <1>4, <2>1, AnswerIsOwn DEF Own, Changed
    <3>2. Size(answer.bytes) \in Nat
      BY <1>1, AnswerType DEF SignInv, Answered
    <3> QED
      BY <1>4, <3>1, <3>2
  <2>2. Whole(request)' = Mine
    BY <1>1 DEF Mine, Whole, All, request, Changed
  <2>3. RawIsWhole'
    BY <1>1, <2>1, <2>2 DEF RawIsWhole
  <2>4. ~crossed => Has(Done, Len(jobs))
    BY <1>1, <1>4, AnswerIsOwn DEF Own
  <2> QED
    BY <1>1, <1>2, <1>4, <2>3, <2>4, Leaves
<1> QED
  BY <1>1, <1>3, <1>4

(* What the device signs is the request of the APDU.                       *)
LEMMA WorksSigns ==
  ASSUME SignInv, inbox # <<>>, NEW x, x = inbox[1], DeviceWorks(x)
  PROVE  /\ SignedInv' /\ UNCHANGED <<host, waits, history>> /\ inbox' = Tail(inbox)
         /\ x \in Apdus /\ Placed(jobs, x) /\ Ready(jobs, started, complete, buf, x)
         /\ \/ UNCHANGED <<signed, held>> /\ Done' = Done
            \/ /\ Signs(x) /\ (x.op = "sign" => DeviceSigns(x))
               /\ Done' = Append(Done, x.of) /\ held' = All(jobs, x.of)
<1>1. /\ x \in Apdus /\ Len(inbox) \in Nat \ {0} /\ jobs \in Seq(Job)
  BY TailIs DEF SignInv, TypeOK, Job
<1>2. Placed(jobs, x) /\ Ready(jobs, started, complete, buf, x) /\ x.of \in 1 .. Len(jobs)
  BY <1>1 DEF SignInv, LineInv, Box, Placed
<1>3. UNCHANGED <<host, waits, history>> /\ inbox' = Tail(inbox) /\ jobs' = jobs
  BY DEF DeviceWorks, host
<1>4. TypeOK /\ SignedInv
  BY DEF SignInv
<1>5. CASE UNCHANGED <<signed, held>>
  BY <1>1, <1>2, <1>3, <1>4, <1>5, DoneSame
<1>6. CASE DeviceSigns(x)
  <2>1. signed' = Append(signed, All(jobs, x.of)) /\ held' = All(jobs, x.of) /\ x.op = "sign"
    BY <1>2, <1>6 DEF DeviceSigns, Ready
  <2>2. Done' = Append(Done, x.of) /\ SignedInv'
    BY <1>2, <1>3, <1>4, <2>1, DoneSigns
  <2> QED
    BY <1>1, <1>2, <1>3, <1>6, <2>1, <2>2 DEF Signs
<1>7. CASE DeviceSignsETH(x)
  <2>1. signed' = Append(signed, All(jobs, x.of)) /\ held' = All(jobs, x.of) /\ x.op = "eth"
    BY <1>7, WholeIs DEF DeviceSignsETH
  <2>2. Done' = Append(Done, x.of) /\ SignedInv'
    BY <1>2, <1>3, <1>4, <2>1, DoneSigns
  <2> QED
    BY <1>1, <1>2, <1>3, <2>1, <2>2 DEF Signs
<1> QED
  BY <1>5, <1>6, <1>7 DEF DeviceWorks, DeviceStarts, DeviceTakes, DeviceCancels, DeviceHandsOut,
                          DeviceRefuses, device

(* The answer to the only APDU there is, that of a request not crossed, is *)
(* its own.                                                                *)
LEMMA WorksOwn ==
  ASSUME SignInv, inbox = <<apdu>>, answers = <<>>, DeviceWorks(apdu), ~crossed, pc \in Ops, waits
  PROVE  \E a : answers' = <<a>> /\ Own(a)'
<1> DEFINE n == Len(jobs)
<1>1. inbox # <<>> /\ apdu = inbox[1] /\ Len(inbox) = 1
  <2>1. apdu \in Apdus
    BY LeType DEF SignInv
  <2> HIDE DEF SignInv
  <2> QED
    BY <2>1
<1>2. /\ UNCHANGED <<pc, jobs, times, total, room, raw, result>>
      /\ \/ UNCHANGED <<signed, held>> /\ Done' = Done
         \/ /\ Signs(apdu) /\ (apdu.op = "sign" => DeviceSigns(apdu))
            /\ Done' = Append(Done, apdu.of) /\ held' = All(jobs, apdu.of)
  BY <1>1, WorksSigns DEF host
<1>3. apdu.of = n /\ apdu.op = pc /\ apdu.times = times /\ apdu.le = le /\ apdu.of \in 1 .. Len(jobs)
  BY DEF SignInv, LineInv, Placed, apdu, request
<1>4. le' = le /\ Mine' = Mine /\ n' = n
  BY <1>2 DEF le, more, Mine
<1>5. PICK a \in Replies : answers' = Append(answers, a)
  BY <1>1, WorksType DEF SignInv
<1>6. answers' = <<a>>
  BY <1>5
<1>7. \A sw, b : Answer(sw, b) => a.sw = sw /\ a.bytes = b
  <2> SUFFICES ASSUME NEW sw, NEW b, Answer(sw, b) PROVE a.sw = sw /\ a.bytes = b
    OBVIOUS
  <2>1. PICK c : c = [sw |-> sw, bytes |-> b]
    OBVIOUS
  <2>2. answers' = <<c>>
    BY <2>1 DEF Answer
  <2>3. a = c
    BY <1>6, <2>2
  <2> QED
    BY <2>1, <2>3
<1>8. ASSUME pc = "sign", a.sw = "ok" PROVE Has(Done', n) /\ held' = Mine
  <2>1. DeviceSigns(apdu)
    BY <1>3, <1>7, <1>8 DEF DeviceWorks, DeviceStarts, DeviceTakes, DeviceCancels, DeviceSignsETH,
                            DeviceHandsOut, DeviceRefuses, TLVs
  <2>2. signed' = Append(signed, buf) /\ signed \in Seq(Data) /\ buf \in Data
    BY <2>1 DEF DeviceSigns, SignInv, TypeOK
  <2>3. signed' # signed
    <3>1. Len(signed') = Len(signed) + 1 /\ Len(signed) \in Nat
      BY <2>2, GrownIs
    <3> QED
      BY <3>1
  <2>4. Done' = Append(Done, n) /\ held' = All(jobs, n)
    BY <1>2, <1>3, <2>3
  <2>5. Has(Append(Done, n), n)
    <3>1. Done \in Seq(Nat) /\ n \in Nat
      BY DoneIs DEF SignInv
    <3>2. Len(Append(Done, n)) = Len(Done) + 1 /\ Len(Done) \in Nat /\ Append(Done, n)[Len(Done) + 1] = n
      BY <3>1, GrownIs
    <3> QED
      BY <3>2 DEF Has
  <2> QED
    BY <2>4, <2>5 DEF Mine
<1>9. ASSUME pc = "sign", a.sw = "cancelled" PROVE Unsigned(Done', <<>>, n)
  <2>1. DeviceCancels(apdu)
    BY <1>3, <1>7, <1>9 DEF DeviceWorks, DeviceStarts, DeviceTakes, DeviceSigns, DeviceSignsETH,
                            DeviceHandsOut, DeviceRefuses, TLVs
  <2>2. signed' = signed
    BY <2>1 DEF DeviceCancels
  <2>3. Done' = Done
    BY <1>2, <2>2, DoneSame
  <2>4. \A i \in 1 .. Len(Done) : Done[i] < n
    BY <1>1, <1>3, <1>9 DEF SignInv, OrderInv, Ordered
  <2> QED
    BY <2>3, <2>4 DEF Unsigned
<1>10. ASSUME pc = "eth", a.sw = "ok"
       PROVE  Has(Done', n) /\ Size(a.bytes) > 0 /\ a.bytes = Span(Mine, 0, Size(a.bytes))
  <2>1. DeviceSignsETH(apdu)
    BY <1>3, <1>7, <1>10 DEF DeviceWorks, DeviceStarts, DeviceTakes, DeviceSigns, DeviceCancels,
                             DeviceHandsOut, DeviceRefuses, TLVs
  <2>2. PICK m \in RawLens : Answer("ok", Span(Whole(apdu.of), 0, m))
    BY <2>1 DEF DeviceSignsETH
  <2>3. a.bytes = Span(Mine, 0, m) /\ m \in Nat \ {0}
    BY <1>3, <1>7, <2>2, WholeIs, SignAssumption DEF SignAssumption, Mine
  <2>4. Size(a.bytes) = m
    BY <2>3 DEF Size, Span
  <2>5. signed' = Append(signed, Whole(apdu.of)) /\ signed \in Seq(Data) /\ Whole(apdu.of) \in Data
    <3>1. jobs \in Seq(Job) /\ signed \in Seq(Data)
      BY DEF SignInv, TypeOK, Job
    <3> QED
      BY <1>3, <2>1, <3>1, AllType, WholeIs DEF DeviceSignsETH
  <2>6. signed' # signed
    <3>1. Len(signed') = Len(signed) + 1 /\ Len(signed) \in Nat
      BY <2>5, GrownIs
    <3> QED
      BY <3>1
  <2>7. Done' = Append(Done, n)
    BY <1>2, <1>3, <2>6
  <2>8. Has(Append(Done, n), n)
    <3>1. Done \in Seq(Nat) /\ n \in Nat
      BY DoneIs DEF SignInv
    <3>2. Len(Append(Done, n)) = Len(Done) + 1 /\ Len(Done) \in Nat /\ Append(Done, n)[Len(Done) + 1] = n
      BY <3>1, GrownIs
    <3> QED
      BY <3>2 DEF Has
  <2> QED
    BY <2>3, <2>4, <2>7, <2>8
<1>11. ASSUME pc = "read", a.sw = "ok"
       PROVE  /\ Size(a.bytes) > 0 /\ Size(a.bytes) <= le
              /\ a.bytes = Span(Mine, times * PieceLen, times * PieceLen + Size(a.bytes))
  <2>1. DeviceHandsOut(apdu)
    BY <1>3, <1>7, <1>11 DEF DeviceWorks, DeviceStarts, DeviceTakes, DeviceSigns, DeviceCancels,
                             DeviceSignsETH, DeviceRefuses, TLVs
  <2>2. PICK m \in {apdu.le} \cup {k \in Shorts : k < apdu.le} :
          Answer("ok", Span(held, apdu.times * PieceLen, apdu.times * PieceLen + m))
    BY <2>1 DEF DeviceHandsOut
  <2>3. held = Mine
    BY <1>11, <2>1 DEF DeviceHandsOut, SignInv, ReadInv
  <2>4. le \in Nat /\ le > 0
    BY <1>11, LeType DEF SignInv, WaitInv, Sends, TLVs
  <2>5. m \in Nat \ {0} /\ m <= le
    <3>1. m = le \/ (m \in Shorts /\ m < le)
      BY <1>3, <2>2
    <3>2. \A k \in Shorts : k \in Nat \ {0}
      BY SignAssumption DEF SignAssumption
    <3> QED
      BY <2>4, <3>1, <3>2
  <2>6. PICK k \in Nat : k = times * PieceLen
    BY SignAssumption DEF SignInv, TypeOK, SignAssumption
  <2>7. a.bytes = Span(Mine, k, k + m)
    BY <1>3, <1>7, <2>2, <2>3, <2>6
  <2>8. Size(a.bytes) = m
    BY <2>5, <2>6, <2>7 DEF Size, Span
  <2> QED
    BY <2>5, <2>6, <2>7, <2>8
<1>12. Own(a)'
  BY <1>2, <1>4, <1>8, <1>9, <1>10, <1>11 DEF Own
<1> QED
  BY <1>6, <1>12

LEMMA DeviceStep ==
  ASSUME SignInv, inbox # <<>>, DeviceWorks(inbox[1])
  PROVE  (WaitInv /\ LineInv /\ SignedInv /\ OrderInv /\ QuietInv /\ ReadInv /\ RawIsWhole)'
<1>1. PICK x : x = inbox[1]
  OBVIOUS
<1>2. /\ SignedInv' /\ inbox' = Tail(inbox)
      /\ UNCHANGED <<pc, jobs, times, total, room, raw, result, waits, short, abandoned, crossed>>
      /\ x \in Apdus /\ Placed(jobs, x) /\ Ready(jobs, started, complete, buf, x)
      /\ \/ UNCHANGED <<signed, held>> /\ Done' = Done
         \/ /\ Signs(x) /\ (x.op = "sign" => DeviceSigns(x))
            /\ Done' = Append(Done, x.of) /\ held' = All(jobs, x.of)
  BY <1>1, WorksSigns DEF host, history
<1>3. apdu' = apdu /\ Sends' = Sends /\ le' = le /\ Mine' = Mine
  BY <1>2 DEF apdu, le, more, request, Sends, Mine
<1>4. WaitInv' /\ RawIsWhole'
  BY <1>2, <1>3 DEF SignInv, WaitInv, RawIsWhole, request, Whole
<1>5. LineInv'
  <2>1. jobs \in Seq(Job)
    BY DEF SignInv, TypeOK, Job
  <2>2. \A y : Follows(jobs, inbox[1], y) => Ready(jobs, started', complete', buf', y)
    BY <1>1, <1>2, <2>1, WorksReady
  <2>3. /\ Box(jobs, Tail(inbox), started', complete', buf')
        /\ \A y : Expected(jobs, inbox, started, complete, buf, y)
                    => Expected(jobs, Tail(inbox), started', complete', buf', y)
    <3>1. Box(jobs, inbox, started, complete, buf) /\ inbox \in Seq(Apdus)
      BY DEF SignInv, LineInv, TypeOK
    <3> QED
      BY <2>2, <3>1, Popped
  <2> QED
    BY <1>2, <1>3, <2>3 DEF SignInv, LineInv
<1>6. OrderInv'
  <2>1. inbox \in Seq(Apdus) /\ Ordered(Done, inbox) /\ Done \in Seq(Nat)
    BY DoneIs DEF SignInv, OrderInv, TypeOK
  <2>2. /\ Ordered(Done', Tail(inbox)) /\ \A r : Unsigned(Done, inbox, r) => Unsigned(Done', Tail(inbox), r)
        /\ \A r : Has(Done, r) => Has(Done', r)
    <3>1. CASE Done' = Done
      BY <2>1, <3>1, OrderPopped
    <3>2. CASE Signs(x) /\ Done' = Append(Done, x.of)
      BY <1>1, <2>1, <3>2, OrderSigned
    <3> QED
      BY <1>2, <3>1, <3>2
  <2> QED
    BY <1>2, <2>2 DEF SignInv, OrderInv
<1>7. QuietInv'
  <2>1. ASSUME pc \in Ops, ~crossed, waits
        PROVE  inbox' = <<>> /\ \E a : answers' = <<a>> /\ Own(a)'
    <3>1. inbox = <<apdu>> /\ answers = <<>>
      BY <2>1 DEF SignInv, QuietInv, Nothing
    <3>2. apdu = inbox[1] /\ Tail(inbox) = <<>>
      <4>1. PICK y : y = apdu
        OBVIOUS
      <4>2. inbox = <<y>>
        BY <3>1, <4>1
      <4> QED
        BY <4>1, <4>2
    <3> QED
      BY <1>2, <2>1, <3>1, <3>2, WorksOwn
  <2>2. ASSUME pc \in Ops, ~crossed, waits
        PROVE  (inbox = <<>> /\ Len(answers) = 1 /\ Own(answers[1]))'
    <3>1. PICK a : answers' = <<a>> /\ Own(a)'
      BY <2>1, <2>2
    <3>2. answers'[1] = a /\ Len(answers') = 1
      BY <3>1
    <3> QED
      BY <2>1, <2>2, <3>1, <3>2
  <2> QED
    BY <1>2, <2>2 DEF SignInv, QuietInv, Nothing
<1>8. ReadInv'
  <2>1. ASSUME pc = "read", ~crossed PROVE UNCHANGED <<signed, held>> /\ Done' = Done
    <3>1. inbox = <<apdu>> /\ apdu.op = "read"
      BY <2>1 DEF SignInv, QuietInv, Nothing, Ops, apdu
    <3>2. x = apdu
      <4>1. PICK y : y = apdu
        OBVIOUS
      <4>2. inbox = <<y>>
        BY <3>1, <4>1
      <4> QED
        BY <1>1, <4>1, <4>2
    <3> QED
      BY <1>2, <3>1, <3>2 DEF Signs
  <2> QED
    BY <1>2, <1>3, <2>1 DEF SignInv, ReadInv
<1> QED
  BY <1>2, <1>4, <1>5, <1>6, <1>7, <1>8

LEMMA RestartsStep ==
  ASSUME SignInv, DeviceRestarts
  PROVE  (WaitInv /\ LineInv /\ SignedInv /\ OrderInv /\ QuietInv /\ ReadInv /\ RawIsWhole)'
<1>1. /\ inbox' = <<>> /\ answers' = <<>> /\ held' = <<>> /\ started' = FALSE /\ complete' = FALSE
      /\ UNCHANGED <<pc, jobs, times, total, room, raw, result, waits, signed, short, abandoned, crossed>>
  BY DEF DeviceRestarts, Forgets, host, history
<1>2. Done' = Done /\ SignedInv'
  BY <1>1, DoneSame DEF SignInv
<1>3. apdu' = apdu /\ Sends' = Sends /\ Mine' = Mine
  BY <1>1 DEF apdu, le, more, request, Sends, Mine
<1>4. WaitInv' /\ RawIsWhole'
  BY <1>1, <1>3 DEF SignInv, WaitInv, RawIsWhole, request, Whole
<1>5. Len(inbox') = 0
  BY <1>1
<1>6. LineInv'
  <2>1. \A y : Expected(jobs, <<>>, FALSE, FALSE, buf', y)
    BY ForgetsReady DEF Expected
  <2>2. Box(jobs, inbox', started', complete', buf')
    BY <1>1, <1>5 DEF Box
  <2> QED
    BY <1>1, <1>3, <2>1, <2>2 DEF SignInv, LineInv
<1>7. OrderInv'
  BY <1>1, <1>2, <1>5 DEF SignInv, OrderInv, Ordered, Unsigned
<1>8. QuietInv'
  BY <1>1 DEF SignInv, QuietInv, Nothing
<1>9. ReadInv'
  BY <1>1, <1>2, <1>3 DEF SignInv, ReadInv
<1> QED
  BY <1>2, <1>4, <1>6, <1>7, <1>8, <1>9

-----------------------------------------------------------------------------
(* The theorems.                                                           *)
LEMMA SignInvInit == Init => SignInv
<1> SUFFICES ASSUME Init PROVE SignInv
  OBVIOUS
<1>1. /\ pc = "idle" /\ jobs = <<>> /\ times = 0 /\ total = 0 /\ room = 0 /\ raw = <<>>
      /\ result = "none" /\ waits = FALSE /\ inbox = <<>> /\ answers = <<>>
      /\ signed = <<>> /\ abandoned = FALSE /\ crossed = FALSE
  BY DEF Init
<1>2. Len(signed) = 0 /\ Len(inbox) = 0 /\ Len(Done) = 0 /\ "idle" \notin Ops
  BY <1>1 DEF Done, Ops, TLVs
<1>3. WaitInv /\ SignedInv /\ RawIsWhole
  BY <1>1, <1>2 DEF WaitInv, SignedInv, RawIsWhole
<1>4. LineInv
  BY <1>1, <1>2 DEF LineInv, Box, Loads, Ops
<1>5. OrderInv
  BY <1>1, <1>2 DEF OrderInv, Ordered, Loads, TLVs
<1>6. QuietInv
  BY <1>1, <1>2 DEF QuietInv, Nothing
<1>7. ReadInv
  BY <1>1 DEF ReadInv, Loads, TLVs
<1> QED
  BY <1>3, <1>4, <1>5, <1>6, <1>7, TypeInit DEF SignInv

LEMMA SignInvStep == SignInv /\ [Next]_vars => SignInv'
<1> SUFFICES ASSUME SignInv, [Next]_vars PROVE SignInv'
  OBVIOUS
<1> DEFINE I == WaitInv /\ LineInv /\ SignedInv /\ OrderInv /\ QuietInv /\ ReadInv /\ RawIsWhole
<1>1. TypeOK'
  BY TypeStep DEF SignInv
<1>2. ASSUME SignTX PROVE I'
  BY <1>2, SignTXStep
<1>3. ASSUME NotSupported PROVE I'
  <2>1. /\ pc = "unsupported" /\ Ends("error") /\ UNCHANGED Changed
        /\ UNCHANGED <<waits, answers, abandoned>>
    BY <1>3 DEF NotSupported, Changed, device, link, history
  <2>2. ~waits /\ waits \in BOOLEAN
    BY <2>1 DEF SignInv, WaitInv, TypeOK, Sends, TLVs, le
  <2>3. ~abandoned' => ~crossed /\ Nothing'
    BY <2>1, <2>2 DEF SignInv, QuietInv, Nothing, Changed
  <2>4. RawIsWhole'
    BY <2>1 DEF Ends, RawIsWhole
  <2> QED
    BY <2>1, <2>2, <2>3, <2>4, Leaves
<1>4. ASSUME _SendApdu PROVE I'
  BY <1>4, SendStep
<1>5. ASSUME GivesUp PROVE I'
  BY <1>5, GivesUpStep
<1>6. ASSUME NobodyWaits PROVE I'
  BY <1>6, NobodyWaitsStep
<1>7. ASSUME FirstPack PROVE I'
  BY <1>7, FirstPackStep
<1>8. ASSUME _TranPack PROVE I'
  BY <1>8, TranPackStep
<1>9. ASSUME SignTransactions PROVE I'
  BY <1>9, SignTransactionsStep
<1>10. ASSUME ReadPiece PROVE I'
  BY <1>10, ReadPieceStep
<1>11. ASSUME ReadRest PROVE I'
  BY <1>11, ReadRestStep
<1>12. ASSUME NothingLeft PROVE I'
  BY <1>12, NothingLeftStep
<1>13. ASSUME SignETH PROVE I'
  BY <1>13, SignETHStep
<1>14. ASSUME inbox # <<>> /\ DeviceWorks(Head(inbox)) PROVE I'
  <2>1. inbox[1] = Head(inbox)
    BY <1>14, TailIs DEF SignInv, TypeOK
  <2> QED
    BY <1>14, <2>1, DeviceStep
<1>15. ASSUME DeviceRestarts PROVE I'
  BY <1>15, RestartsStep
<1>16. ASSUME UNCHANGED vars PROVE I'
  <2>1. UNCHANGED <<pc, jobs, times, total, room, raw, result, started, buf, complete, held, signed,
                    waits, inbox, answers, short, abandoned, crossed>>
    BY <1>16 DEF vars, host, device, link, history
  <2>2. Done' = Done /\ SignedInv'
    BY <2>1, DoneSame DEF SignInv
  <2>3. apdu' = apdu /\ Sends' = Sends /\ le' = le /\ Mine' = Mine
    BY <2>1 DEF apdu, le, more, request, Sends, Mine
  <2>4. \A a : Own(a)' = Own(a)
    BY <2>1, <2>2, <2>3 DEF Own
  <2> QED
    BY <2>1, <2>2, <2>3, <2>4
    DEF SignInv, WaitInv, LineInv, OrderInv, QuietInv, ReadInv, RawIsWhole, Nothing, request, Whole
<1>17. I'
  BY <1>2, <1>3, <1>4, <1>5, <1>6, <1>7, <1>8, <1>9, <1>10, <1>11, <1>12, <1>13, <1>14, <1>15, <1>16
  DEF Next
<1> QED
  BY <1>1, <1>17 DEF SignInv

(* The invariant holds of every behaviour.                                 *)
THEOREM SignInvHolds == Spec => []SignInv
  BY SignInvInit, SignInvStep, PTL DEF Spec

(* Type correctness: the state of the signing thread, of the APDUs and of  *)
(* the device stays within its types.                                      *)
THEOREM SignTypeCorrect == Spec => []TypeOK
<1>1. SignInv => TypeOK
  BY DEF SignInv
<1> QED
  BY <1>1, SignInvHolds, PTL

(* SignTX returns all of what the device signed for the request, in order, *)
(* when no piece came short and the call was not crossed by an earlier one.*)
THEOREM RawWhole == Spec => []RawIsWhole
<1>1. SignInv => RawIsWhole
  BY DEF SignInv
<1> QED
  BY <1>1, SignInvHolds, PTL

-----------------------------------------------------------------------------
(* The refinement.                                                         *)
Signed == [i \in 1 .. Len(signed) |-> RequestOf(signed[i])]

LEMMA Mapped == Signed = Done /\ request = Len(jobs)
  BY WholeIs DEF Signed, Done

LEMMA MappedNext == Signed' = Done' /\ request' = Len(jobs')
<1>1. (Signed = Done /\ request = Len(jobs))'
  BY Mapped, PTL
<1> QED
  BY <1>1

LEMMA AbstractActions ==
  /\ Abstract!Ask <=> /\ result # "busy" /\ request' = request + 1 /\ result' = "busy"
                      /\ crossed' = FALSE /\ Signed' = Signed /\ abandoned' = abandoned
  /\ \A r : Abstract!Sign(r) <=>
              /\ \A i \in 1 .. Len(Signed) : Signed[i] < r
              /\ r = request /\ ~crossed => result \notin {"ok", "cancelled"}
              /\ Signed' = Append(Signed, r)
              /\ UNCHANGED <<request, result, abandoned, crossed>>
  /\ Abstract!Cross <=> /\ result = "busy" /\ abandoned /\ crossed' = TRUE
                        /\ request' = request /\ Signed' = Signed /\ result' = result /\ abandoned' = abandoned
  /\ Abstract!Return <=> /\ result = "busy" /\ (Has(Signed, request) \/ crossed) /\ result' = "ok"
                         /\ request' = request /\ Signed' = Signed
                         /\ abandoned' = abandoned /\ crossed' = crossed
  /\ Abstract!Cancel <=> /\ result = "busy" /\ (~Has(Signed, request) \/ crossed) /\ result' = "cancelled"
                         /\ request' = request /\ Signed' = Signed
                         /\ abandoned' = abandoned /\ crossed' = crossed
  /\ Abstract!Fail <=> /\ result = "busy" /\ result' = "error" /\ abandoned' \in {abandoned, TRUE}
                       /\ request' = request /\ Signed' = Signed /\ crossed' = crossed
  BY DEF Abstract!Ask, Abstract!Sign, Abstract!Cross, Abstract!Return, Abstract!Cancel, Abstract!Fail,
         Abstract!Has, Has, Signed

(* A step of Signing, or one it does not see.                              *)
AbstractStep ==
  \/ Abstract!Next
  \/ UNCHANGED <<request, Signed, result, abandoned, crossed>>

LEMMA QuietRefines ==
  ASSUME UNCHANGED <<jobs, signed, result, abandoned, crossed>>
  PROVE  AbstractStep
<1>1. request' = request /\ Signed' = Signed
  BY DoneSame, Mapped, MappedNext
<1> QED
  BY <1>1 DEF AbstractStep

LEMMA EndsRefines ==
  ASSUME SignInv, pc # "idle", NEW e \in {"ok", "error", "cancelled"}, Ends(e),
         UNCHANGED <<jobs, signed, crossed>>,
         abandoned' = abandoned \/ (e = "error" /\ abandoned' = TRUE),
         e = "ok" /\ ~crossed => Has(Done, Len(jobs)),
         e = "cancelled" /\ ~crossed => ~Has(Done, Len(jobs))
  PROVE  AbstractStep
<1>1. request' = request /\ Signed' = Signed /\ Signed = Done /\ request = Len(jobs)
  BY DoneSame, Mapped, MappedNext
<1>2. result = "busy" /\ result' = e
  BY DEF SignInv, WaitInv, Ends
<1>3. CASE e = "ok"
  BY <1>1, <1>2, <1>3, AbstractActions DEF AbstractStep, Abstract!Next
<1>4. CASE e = "cancelled"
  BY <1>1, <1>2, <1>4, AbstractActions DEF AbstractStep, Abstract!Next
<1>5. CASE e = "error"
  BY <1>1, <1>2, <1>5, AbstractActions DEF AbstractStep, Abstract!Next
<1> QED
  BY <1>3, <1>4, <1>5

LEMMA AskRefines == ASSUME SignInv, SignTX PROVE AbstractStep
<1>1. PICK j \in Job : jobs' = Append(jobs, j)
  BY SignTXIs
<1>2. /\ result' = "busy" /\ crossed' = FALSE /\ signed' = signed /\ abandoned' = abandoned /\ result # "busy"
  BY DEF SignTX, device, SignInv, WaitInv
<1>3. Signed' = Signed
  BY <1>1, <1>2, DoneAsks, Mapped, MappedNext DEF SignInv
<1>4. request' = request + 1
  <2>1. jobs \in Seq(Job)
    BY DEF SignInv, TypeOK, Job
  <2> QED
    BY <1>1, <2>1, MoreJobs, Mapped, MappedNext
<1> QED
  BY <1>2, <1>3, <1>4, AbstractActions DEF AbstractStep, Abstract!Next

LEMMA SendRefines == ASSUME SignInv, _SendApdu PROVE AbstractStep
<1>1. /\ ~waits /\ pc # "idle" /\ result = "busy" /\ UNCHANGED <<jobs, signed, abandoned>>
      /\ crossed \in BOOLEAN
  BY DEF _SendApdu, Sends, device, TLVs, le, SignInv, WaitInv, TypeOK
<1>2. CASE Ends("error") /\ UNCHANGED <<inbox, waits, crossed>>
  BY <1>1, <1>2, EndsRefines
<1>3. CASE UNCHANGED <<result, crossed>>
  BY <1>1, <1>3, QuietRefines
<1>4. CASE result' = result /\ crossed' = TRUE /\ ~Nothing
  <2>1. abandoned
    BY <1>1, <1>4 DEF SignInv, QuietInv
  <2>2. request' = request /\ Signed' = Signed
    BY <1>1, DoneSame, Mapped, MappedNext
  <2> QED
    BY <1>1, <1>4, <2>1, <2>2, AbstractActions DEF AbstractStep, Abstract!Next
<1> QED
  BY <1>1, <1>2, <1>3, <1>4 DEF _SendApdu, Nothing

LEMMA AnswersRefine ==
  ASSUME SignInv, FirstPack \/ _TranPack \/ SignTransactions \/ ReadPiece \/ ReadRest \/ SignETH
  PROVE  AbstractStep
<1>1. /\ Answered /\ pc # "idle" /\ UNCHANGED <<jobs, signed, abandoned, crossed>>
  BY DEF FirstPack, _TranPack, SignTransactions, ReadPiece, ReadRest, SignETH, device, history, TLVs
<1>2. CASE result' = result
  BY <1>1, <1>2, QuietRefines
<1>3. CASE Ends("error")
  BY <1>1, <1>3, EndsRefines
<1>4. CASE pc = "sign" /\ answer.sw = "cancelled" /\ Ends("cancelled")
  <2>1. ASSUME ~crossed PROVE ~Has(Done, Len(jobs))
    <3>1. Unsigned(Done, <<>>, Len(jobs))
      BY <1>1, <1>4, <2>1, AnswerIsOwn DEF Own
    <3>2. \A i \in 1 .. Len(Done) : Done[i] \in Nat
      BY DoneIs DEF SignInv
    <3> QED
      BY <3>1, <3>2 DEF Unsigned, Has
  <2> QED
    BY <1>1, <1>4, <2>1, EndsRefines
<1>5. CASE pc = "read" /\ Ends("ok")
  <2>1. ~crossed => Has(Done, Len(jobs))
    BY <1>5 DEF SignInv, ReadInv
  <2> QED
    BY <1>1, <1>5, <2>1, EndsRefines
<1>6. CASE pc = "eth" /\ answer.sw = "ok" /\ Ends("ok")
  <2>1. ~crossed => Has(Done, Len(jobs))
    BY <1>1, <1>6, AnswerIsOwn DEF Own
  <2> QED
    BY <1>1, <1>6, <2>1, EndsRefines
<1> QED
  BY <1>2, <1>3, <1>4, <1>5, <1>6
  DEF FirstPack, _TranPack, SignTransactions, ReadPiece, ReadRest, SignETH, Refused

LEMMA DeviceRefines ==
  ASSUME SignInv, inbox # <<>>, DeviceWorks(inbox[1])
  PROVE  AbstractStep
<1> DEFINE x == inbox[1]
           n == Len(jobs)
<1>1. /\ UNCHANGED <<jobs, result, abandoned, crossed>> /\ x.of \in 1 .. n
      /\ \/ UNCHANGED <<signed, held>> /\ Done' = Done
         \/ Signs(x) /\ Done' = Append(Done, x.of)
  BY WorksSigns DEF host, history, Placed
<1>2. CASE signed' = signed
  BY <1>1, <1>2, QuietRefines
<1>3. CASE Signs(x) /\ Done' = Append(Done, x.of)
  <2>1. 1 \in 1 .. Len(inbox) /\ x.op # "read"
    BY <1>3, TailIs DEF SignInv, TypeOK, Signs
  <2>2. \A i \in 1 .. Len(Done) : Done[i] \in Nat /\ Done[i] < x.of
    BY <2>1, DoneIs DEF SignInv, OrderInv, Ordered
  <2>3. ASSUME x.of = n, ~crossed PROVE result \notin {"ok", "cancelled"}
    <3>1. ~Has(Done, n)
      BY <2>2, <2>3 DEF Has
    <3>2. ~Unsigned(Done, inbox, n)
      <4>1. n \in Nat
        BY DoneIs DEF SignInv
      <4> QED
        BY <1>3, <2>1, <2>3, <4>1 DEF Unsigned
    <3> QED
      BY <2>3, <3>1, <3>2 DEF SignInv, OrderInv
  <2>4. Signed = Done /\ Signed' = Append(Signed, x.of) /\ request = n /\ request' = n
    BY <1>1, <1>3, Mapped, MappedNext
  <2>5. Abstract!Sign(x.of)
    BY <1>1, <2>2, <2>3, <2>4, AbstractActions
  <2> QED
    BY <1>1, <2>4, <2>5 DEF AbstractStep, Abstract!Next
<1> QED
  BY <1>1, <1>2, <1>3

LEMMA SignProtocolStep == SignInv /\ [Next]_vars => AbstractStep
<1> SUFFICES ASSUME SignInv, [Next]_vars PROVE AbstractStep
  OBVIOUS
<1>1. CASE DeviceRestarts \/ NobodyWaits \/ UNCHANGED vars
  BY <1>1, QuietRefines DEF DeviceRestarts, NobodyWaits, vars, host, device, history
<1>2. CASE GivesUp
  <2>1. pc # "idle"
    BY <1>2 DEF GivesUp, SignInv, WaitInv, Sends, TLVs, le
  <2> QED
    BY <1>2, <2>1, EndsRefines DEF GivesUp, device
<1>3. CASE NotSupported
  BY <1>3, EndsRefines DEF NotSupported, device, history
<1>4. CASE NothingLeft
  <2>1. ~crossed => Has(Done, Len(jobs))
    BY <1>4 DEF NothingLeft, SignInv, ReadInv
  <2> QED
    BY <1>4, <2>1, EndsRefines DEF NothingLeft, device, history
<1>5. CASE inbox # <<>> /\ DeviceWorks(Head(inbox))
  <2>1. inbox[1] = Head(inbox)
    BY <1>5, TailIs DEF SignInv, TypeOK
  <2> QED
    BY <1>5, <2>1, DeviceRefines
<1> QED
  BY <1>1, <1>2, <1>3, <1>4, <1>5, AskRefines, SendRefines, AnswersRefine DEF Next

(* The protocol implements signing: each request is signed at most once,   *)
(* in order and whole, whatever the lengths are and wherever APDUs are     *)
(* given up, carried out late and the device restarts; one that was        *)
(* refused is not signed, and a caller who gets his transaction gets a     *)
(* signed one, unless his call was crossed by an earlier one.              *)
THEOREM SigningImplemented == Spec => ImplementsSigning
<1>1. Init => Abstract!Init
  <2> SUFFICES ASSUME Init PROVE Abstract!Init
    OBVIOUS
  <2>1. signed = <<>> /\ jobs = <<>> /\ result = "none" /\ abandoned = FALSE /\ crossed = FALSE
    BY DEF Init
  <2>2. request = 0 /\ Signed = <<>>
    BY <2>1 DEF request, Signed
  <2> QED
    BY <2>1, <2>2 DEF Abstract!Init, Signed
<1>2. SignInv /\ [Next]_vars
        => [Abstract!Next]_<<request, [i \in 1 .. Len(signed) |-> RequestOf(signed[i])],
                             result, abandoned, crossed>>
  BY SignProtocolStep DEF AbstractStep, Signed
<1> QED
  BY <1>1, <1>2, SignInvHolds, PTL DEF Spec, ImplementsSigning, Abstract!Spec
=============================================================================
