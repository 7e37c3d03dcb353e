-------------------------- MODULE SettlementProofs --------------------------
(***************************************************************************)
(* What holds of documents and their amounts.                              *)
(*                                                                         *)
(* Settlement: one book's invoices, bills, payments and credit, for any    *)
(* number of processes, documents, parties, lines and amounts, while calls *)
(* are kept apart: no two on one document, no two spending one credit.     *)
(* Then what a call has read is still so when it writes; when they are     *)
(* not, TLC shows the credit spent twice.                                  *)
(*                                                                         *)
(* Money: line totals are nearest, texts exact, and no sum that wrapped    *)
(* reaches an entry, for any range of amounts.  Numerals are recursive     *)
(* functions; what they compute follows by induction over the naturals,    *)
(* from the well-foundedness of their order.                               *)
(***************************************************************************)
EXTENDS Settlement, Money, SumProofs, SequenceTheorems

Line == [amount : LineAmount, kept : BOOLEAN]
Issued == [doc : Doc, leg : Int, reversed : Nat]
Calls == [at : Stage, doc : Doc \cup {NoDoc}, arg : Int, seen : Int]

\* The shapes, those of the calls included.
Shape ==
  /\ TypeOK
  /\ lines \in [Doc -> Seq(Line)]
  /\ call \in [Proc -> Calls]
  /\ \A p \in Proc : IF call[p].at = "idle" THEN call[p] = Idle ELSE call[p].doc \in Doc

Editing == {"add", "remove", "update", "gather", "issue"}
Paying == {"size", "pay", "remaining", "available", "credit"}

\* What call c has read and checked of its document is still so.
Fresh(c) ==
  /\ c.at \in Editing => status[c.doc] = "DRAFT"
  /\ c.at = "add" => c.arg \in LineAmount
  /\ c.at = "issue" => c.seen = Total(c.doc) /\ Kept(c.doc) # {}
  /\ c.at \in Paying => status[c.doc] \in Payable /\ c.arg \in PayAmount
  /\ c.at = "pay" => c.seen = Portion(c.doc, c.arg)
  /\ c.at \in {"available", "credit"} => c.arg <= Remaining(c.doc)
  /\ c.at \in {"reverse", "mark"} => status[c.doc] = "OPEN" /\ c.seen = entryOf[c.doc]
StillSo == \A p \in Proc : Fresh(call[p])

\* A document past DRAFT has the entry that posted its total, and one before
\* that has none.
EntryOfTotal == \A d \in Doc :
  IF status[d] \in {"ABSENT", "DRAFT"} THEN entryOf[d] = 0
  ELSE /\ entryOf[d] \in DOMAIN issues
       /\ issues[entryOf[d]].doc = d
       /\ Owed(PoolOf[d], issues[entryOf[d]].leg) = Total(d)

IndInv ==
  /\ Shape /\ StillSo /\ EntryOfTotal
  /\ reworded = {}
-----------------------------------------------------------------------------
\* A total is an integer, as its lines are.
LEMMA TotalType ==
  ASSUME Shape, NEW d \in Doc
  PROVE  Total(d) \in Int /\ Remaining(d) \in Int
<1> DEFINE f == [i \in Kept(d) |-> lines[d][i].amount]
<1>1. IsFiniteSet(Kept(d)) /\ \A i \in Kept(d) : lines[d][i] \in Line
  <2>1. lines[d] \in Seq(Line) /\ DOMAIN lines[d] = 1 .. Len(lines[d]) /\ Len(lines[d]) \in Nat
    BY LenProperties DEF Shape
  <2>2. IsFiniteSet(DOMAIN lines[d])
    BY <2>1, FS_Interval
  <2>3. Kept(d) \subseteq DOMAIN lines[d]
    BY DEF Kept
  <2>4. \A i \in DOMAIN lines[d] : lines[d][i] \in Line
    BY <2>1, ElementOfSeq
  <2> QED
    BY <2>2, <2>3, <2>4, FS_Subset
<1>2. DOMAIN f = Kept(d) /\ \A i \in Kept(d) : f[i] \in LineAmount
  BY <1>1 DEF Line
<1>3. Total(d) = SumFunction(f)
  BY DEF Total
<1> HIDE DEF f
<1>4. Total(d) \in Int
  BY <1>1, <1>2, <1>3, SumType, AmountAssumption
<1>5. settled[d] \in Nat
  BY DEF Shape, TypeOK
<1> QED
  BY <1>4, <1>5 DEF Remaining

\* A document whose lines stay has the total it had.
LEMMA TotalKept ==
  ASSUME NEW d \in Doc, lines'[d] = lines[d]
  PROVE  Kept(d)' = Kept(d) /\ Total(d)' = Total(d)
BY DEF Kept, Total

\* A new book has no documents, entries or calls.
LEMMA InitInv ==
  ASSUME Init
  PROVE  IndInv
<1>1. /\ status = [d \in Doc |-> "ABSENT"] /\ lines = [d \in Doc |-> << >>] /\ reworded = {}
      /\ issues = << >> /\ entryOf = [d \in Doc |-> 0] /\ settled = [d \in Doc |-> 0]
      /\ applied = [q \in Pool |-> 0] /\ paid = [q \in Pool |-> 0]
      /\ control = [q \in Pool |-> 0] /\ manual = [q \in Pool |-> 0]
      /\ cut = [d \in Doc |-> 0] /\ call = [p \in Proc |-> Idle]
  BY DEF Init
<1>2. Idle \in Calls /\ Idle.at = "idle"
  BY DEF Idle, At, Calls, Stage
<1>3. /\ << >> \in Seq(Line) /\ << >> \in Seq(Issued) /\ Len(<< >>) = 0
  OBVIOUS
<1>4. lines \in [Doc -> Seq(Line)] /\ call \in [Proc -> Calls] /\ \A p \in Proc : call[p] = Idle
  BY <1>1, <1>2, <1>3
<1>5. /\ status \in [Doc -> Status] /\ entryOf \in [Doc -> 0 .. Len(issues)] /\ settled \in [Doc -> Nat]
      /\ applied \in [Pool -> Nat] /\ paid \in [Pool -> Nat]
      /\ control \in [Pool -> Int] /\ manual \in [Pool -> Int] /\ cut \in [Doc -> Nat]
  BY <1>1, <1>3 DEF Status
<1>6. TypeOK
  BY <1>1, <1>2, <1>3, <1>4, <1>5 DEF TypeOK, Line, Issued, Calls
<1>7. Shape
  BY <1>2, <1>4, <1>6 DEF Shape
<1>8. StillSo
  BY <1>2, <1>4 DEF StillSo, Fresh, Editing, Paying
<1>9. EntryOfTotal /\ reworded = {}
  BY <1>1 DEF EntryOfTotal
<1> QED
  BY <1>7, <1>8, <1>9 DEF IndInv
-----------------------------------------------------------------------------
(* Calls kept apart *)

\* No two calls are under way on one document.
DocumentsApart == \A p, r \in Proc :
  p # r /\ call[p].at # "idle" /\ call[r].at # "idle" => call[p].doc # call[r].doc

\* No two calls have found the credit of one pool and not yet applied it.
CreditApart == \A p, r \in Proc :
  p # r /\ call[p].at = "credit" /\ call[r].at = "credit" =>
    PoolOf[call[p].doc] # PoolOf[call[r].doc]

Apart == DocumentsApart /\ CreditApart

\* One process, as when the app runs without an MCP server, keeps its calls apart.
LEMMA OneProcessIsApart ==
  ASSUME \A p, r \in Proc : p = r
  PROVE  Apart
BY DEF Apart, DocumentsApart, CreditApart

\* The steps that only read, check or give up.
Looks(p) ==
  \/ \E d \in Doc : EditDraft(p, "update", d, 0) \/ EditDraft(p, "gather", d, 0)
  \/ \E d \in Doc, a \in LineAmount : EditDraft(p, "add", d, a)
  \/ \E d \in Doc : \E i \in Kept(d) : EditDraft(p, "remove", d, i)
  \/ \E d \in Doc, a \in PayAmount : PayableCheck(p, "size", d, a) \/ PayableCheck(p, "remaining", d, a)
  \/ \E d \in Doc : VoidCheck(p, d, Row(d))
  \/ call[p].at = "gather" /\ Gather(p)
  \/ PaySize(p) \/ CreditRemaining(p) \/ CreditAvailable(p)
  \/ call[p].at # "mark" /\ Fail(p)

\* The steps that write, and the one that leaves a void half written.
Lapses(p) == call[p].at = "mark" /\ Fail(p)
Posts(p) == call[p].at = "issue" /\ \E leg \in {call[p].seen, -call[p].seen} :
  Owed(PoolOf[call[p].doc], leg) = call[p].seen /\ PostDocument(p, leg)
Writes(p) ==
  \/ \E d \in Doc : Create(p, d)
  \/ call[p].at = "add" /\ InsertLine(p)
  \/ call[p].at = "remove" /\ DeleteLine(p)
  \/ call[p].at = "update" /\ Rewrite(p)
  \/ Posts(p) \/ Pay(p) \/ Credit(p) \/ VoidReverse(p)
  \/ call[p].at = "mark" /\ MarkVoid(p)
  \/ Lapses(p)
  \/ \E q \in Pool, a \in ManualAmount : ManualPost(p, q, a)

\* Every step of the specification looks or writes.
LEMMA NextCases ==
  ASSUME Shape, Next
  PROVE  \E p \in Proc : Looks(p) \/ Writes(p)
<1>1. PICK p \in Proc :
        \/ InvoiceCall(p) \/ BillCall(p) \/ PaymentCall(p) \/ VoidReverse(p)
        \/ \E q \in Pool, a \in ManualAmount : ManualPost(p, q, a)
        \/ Fail(p)
  BY DEF Next
<1>2. Invoice \subseteq Doc /\ Bill \subseteq Doc
  BY DEF Doc
<1>3. CASE InvoiceCall(p)
  <2>1. CASE InvoiceIssue(p)
    <3>1. call[p].at = "issue" /\ call[p].doc \in Invoice /\ PostDocument(p, call[p].seen)
      BY <2>1 DEF InvoiceIssue, On
    <3>2. PoolOf[call[p].doc][1] = "INVOICE"
      BY <1>2, <3>1, DocAssumption DEF PoolOf, Kind
    <3> QED
      BY <3>1, <3>2 DEF Writes, Posts, Owed
  <2>2. CASE ~InvoiceIssue(p)
    BY <1>2, <1>3, <2>2 DEF InvoiceCall, InvoiceCreate, InvoiceUpdateCheck, InvoiceIssueCheck,
       InvoiceVoidCheck, InvoiceAddLineCheck, InvoiceRemoveLineCheck, InvoiceAddLine,
       InvoiceRemoveLine, InvoiceUpdate, InvoiceGather, InvoiceVoid, InvoiceGet, On, Looks, Writes
  <2> QED
    BY <2>1, <2>2
<1>4. CASE BillCall(p)
  <2>1. CASE BillEnter(p)
    <3>1. call[p].at = "issue" /\ call[p].doc \in Bill /\ PostDocument(p, -call[p].seen)
      BY <2>1 DEF BillEnter, On
    <3>2. PoolOf[call[p].doc][1] = "BILL" /\ call[p].seen \in Int
      BY <1>2, <3>1 DEF PoolOf, Kind, Shape, Calls
    <3>3. Owed(PoolOf[call[p].doc], -call[p].seen) = call[p].seen
      BY <3>2 DEF Owed
    <3> QED
      BY <3>1, <3>3 DEF Writes, Posts
  <2>2. CASE ~BillEnter(p)
    BY <1>2, <1>4, <2>2 DEF BillCall, BillCreate, BillUpdateCheck, BillEnterCheck,
       BillVoidCheck, BillAddLineCheck, BillRemoveLineCheck, BillAddLine,
       BillRemoveLine, BillUpdate, BillGather, BillVoid, BillGet, On, Looks, Writes
  <2> QED
    BY <2>1, <2>2
<1>5. CASE PaymentCall(p)
  BY <1>5 DEF PaymentCall, PayCheck, CreditCheck, Looks, Writes
<1> QED
  BY <1>1, <1>3, <1>4, <1>5 DEF Looks, Writes, Lapses

\* A call that goes on to c, having written nothing.
LEMMA MoveKeeps ==
  ASSUME IndInv, NEW p \in Proc, UNCHANGED rows, cut' \in [Doc -> Nat], NEW c \in Calls,
         call' = [call EXCEPT ![p] = c], Fresh(c),
         IF c.at = "idle" THEN c = Idle ELSE c.doc \in Doc
  PROVE  IndInv'
<1>1. /\ UNCHANGED <<status, lines, reworded, issues, entryOf, settled, applied, paid, control, manual>>
      /\ call' \in [Proc -> Calls] /\ call'[p] = c /\ \A r \in Proc : r # p => call'[r] = call[r]
  BY DEF rows, IndInv, Shape
<1>2. \A d \in Doc : Kept(d)' = Kept(d) /\ Total(d)' = Total(d) /\ Remaining(d)' = Remaining(d)
  BY <1>1 DEF Kept, Total, Remaining
<1>3. Shape'
  <2>1. \A q \in Proc : call'[q] \in Calls
                       /\ IF call'[q].at = "idle" THEN call'[q] = Idle ELSE call'[q].doc \in Doc
    BY <1>1 DEF IndInv, Shape
  <2>2. \A q \in Proc : call'[q].at \in Stage /\ (call'[q] # Idle => call'[q].doc \in Doc)
    BY <2>1 DEF Calls
  <2>3. TypeOK'
    BY <1>1, <2>2 DEF IndInv, Shape, TypeOK
  <2> QED
    BY <1>1, <2>1, <2>3 DEF IndInv, Shape
<1>4. StillSo'
  <2>1. ASSUME NEW k, Fresh(k)
        PROVE  Fresh(k)'
    BY <1>1, <2>1 DEF Fresh, Available, Portion, Remaining, Kept, Total
  <2>2. ASSUME NEW r \in Proc
        PROVE  Fresh(call[r])'
    <3>1. CASE r = p
      BY <1>1, <2>1, <3>1
    <3>2. CASE r # p
      BY <1>1, <2>1, <3>2 DEF IndInv, StillSo
    <3> QED
      BY <3>1, <3>2
  <2> QED
    BY <2>2 DEF StillSo
<1>5. EntryOfTotal' /\ reworded' = {}
  BY <1>1, <1>2 DEF IndInv, EntryOfTotal, Owed
<1> QED
  BY <1>3, <1>4, <1>5 DEF IndInv

\* A count of voids cut short stays one.
LEMMA LapseTyped ==
  ASSUME Shape, NEW p \in Proc, Fail(p)
  PROVE  cut' \in [Doc -> Nat]
<1>1. cut \in [Doc -> Nat] /\ cut' = IF call[p].at = "mark" THEN [cut EXCEPT ![call[p].doc] = @ + 1] ELSE cut
  BY DEF Fail, Shape, TypeOK
<1>2. call[p].at = "mark" => cut[call[p].doc] + 1 \in Nat
  BY <1>1 DEF Shape
<1> QED
  BY <1>1, <1>2

\* So does a call that ends with an error, wherever it stands.
LEMMA FailKeeps ==
  ASSUME IndInv, NEW p \in Proc, Fail(p)
  PROVE  IndInv'
<1>1. Idle \in Calls /\ Idle.at = "idle" /\ Fresh(Idle)
  BY DEF Idle, At, Calls, Stage, Fresh, Editing, Paying
<1>2. call' = [call EXCEPT ![p] = Idle] /\ UNCHANGED rows /\ cut' \in [Doc -> Nat]
  BY LapseTyped DEF Fail, Return, IndInv
<1> QED
  BY <1>1, <1>2, MoveKeeps

\* Steps that only read, check or give up keep the invariant.
LEMMA LooksKeep ==
  ASSUME IndInv, NEW p \in Proc, Looks(p)
  PROVE  IndInv'
<1>1. call[p] \in Calls /\ Fresh(call[p]) /\ call \in [Proc -> Calls]
      /\ IF call[p].at = "idle" THEN call[p] = Idle ELSE call[p].doc \in Doc
  BY DEF IndInv, Shape, StillSo
<1>2. PayAmount \subseteq Nat /\ LineAmount \subseteq Int /\ 0 \in Int /\ Nat \subseteq Int
  BY AmountAssumption
<1>3. ASSUME NEW c \in Calls, call' = [call EXCEPT ![p] = c], UNCHANGED books, Fresh(c),
             IF c.at = "idle" THEN c = Idle ELSE c.doc \in Doc
      PROVE  IndInv'
  <2>1. UNCHANGED rows /\ cut' \in [Doc -> Nat]
    BY <1>3 DEF books, IndInv, Shape, TypeOK
  <2> QED
    BY <1>3, <2>1, MoveKeeps
<1>4. ASSUME NEW d \in Doc, NEW w \in {"update", "gather", "add", "remove"}, NEW a \in Int,
             EditDraft(p, w, d, a), w = "add" => a \in LineAmount
      PROVE  IndInv'
  <2> DEFINE c == At(w, d, a, 0)
  <2>1. c \in Calls /\ c.at = w /\ c.doc = d /\ c.arg = a /\ w # "idle"
    BY <1>2 DEF At, Calls, Stage
  <2>2. call' = [call EXCEPT ![p] = c] /\ UNCHANGED books /\ status[d] = "DRAFT"
    BY <1>4 DEF EditDraft, Start
  <2> HIDE DEF c
  <2>3. Fresh(c)
    BY <1>4, <2>1, <2>2 DEF Fresh, Editing, Paying
  <2> QED
    BY <1>3, <2>1, <2>2, <2>3
<1>5. ASSUME NEW d \in Doc, NEW w \in {"size", "remaining"}, NEW a \in PayAmount, PayableCheck(p, w, d, a)
      PROVE  IndInv'
  <2> DEFINE c == At(w, d, a, 0)
  <2>1. c \in Calls /\ c.at = w /\ c.doc = d /\ c.arg = a /\ w # "idle"
    BY <1>2 DEF At, Calls, Stage
  <2>2. call' = [call EXCEPT ![p] = c] /\ UNCHANGED books /\ status[d] \in Payable
    BY <1>5 DEF PayableCheck, Start
  <2> HIDE DEF c
  <2>3. Fresh(c)
    BY <1>5, <2>1, <2>2 DEF Fresh, Editing, Paying
  <2> QED
    BY <1>3, <2>1, <2>2, <2>3
<1>6. ASSUME NEW d \in Doc, VoidCheck(p, d, Row(d))
      PROVE  IndInv'
  <2> DEFINE c == At("reverse", d, 0, entryOf[d])
  <2>1. c \in Calls /\ c.at = "reverse" /\ c.doc = d /\ c.seen = entryOf[d]
    <3>1. entryOf[d] \in Int
      BY LenProperties DEF IndInv, Shape, TypeOK
    <3> QED
      BY <1>2, <3>1 DEF At, Calls, Stage
  <2>2. call' = [call EXCEPT ![p] = c] /\ UNCHANGED books /\ status[d] = "OPEN"
    BY <1>6 DEF VoidCheck, Row, Start
  <2> HIDE DEF c
  <2>3. Fresh(c)
    BY <2>1, <2>2 DEF Fresh, Editing, Paying
  <2> QED
    BY <1>3, <2>1, <2>2, <2>3
<1> DEFINE d == call[p].doc
           go(w, v) == [call[p] EXCEPT !.at = w, !.seen = v]
<1>7. \A w \in Stage, v \in Int :
        /\ go(w, v) \in Calls /\ go(w, v).at = w /\ go(w, v).doc = d
        /\ go(w, v).arg = call[p].arg /\ go(w, v).seen = v
  BY <1>1 DEF Calls
<1>8. ASSUME NEW w \in Stage, NEW v \in Int, Goto(p, w, v), UNCHANGED books, call[p].at # "idle", w # "idle",
             Fresh(go(w, v))
      PROVE  IndInv'
  <2>1. call' = [call EXCEPT ![p] = go(w, v)]
    BY <1>1, <1>8 DEF Goto
  <2>2. go(w, v) \in Calls /\ go(w, v).at = w /\ go(w, v).doc = d
    BY <1>7
  <2> HIDE DEF go
  <2> QED
    BY <1>1, <1>3, <1>8, <2>1, <2>2
<1>9. CASE call[p].at = "gather" /\ Gather(p)
  <2>1. d \in Doc /\ Goto(p, "issue", Total(d)) /\ UNCHANGED books /\ Kept(d) # {}
    BY <1>1, <1>9 DEF Gather
  <2>2. Total(d) \in Int /\ "issue" \in Stage
    BY <2>1, TotalType DEF IndInv, Stage
  <2> DEFINE c == go("issue", Total(d))
  <2>3. c.at = "issue" /\ c.doc = d /\ c.seen = Total(d) /\ status[d] = "DRAFT"
    <3>1. status[d] = "DRAFT"
      BY <1>1, <1>9 DEF Fresh, Editing
    <3> DEFINE v == Total(d)
    <3>2. v \in Int
      BY <2>2
    <3> HIDE DEF v, go
    <3>3. go("issue", v).at = "issue" /\ go("issue", v).doc = d /\ go("issue", v).seen = v
      BY <1>7, <2>2, <3>2
    <3> QED
      BY <3>1, <3>3 DEF v
  <2> HIDE DEF d, go
  <2>4. Fresh(c)
    <3> HIDE DEF c
    <3> QED
      BY <2>1, <2>3 DEF Fresh, Editing, Paying
  <2> QED
    BY <1>8, <1>9, <2>1, <2>2, <2>4
<1>10. CASE PaySize(p)
  <2>1. call[p].at = "size" /\ d \in Doc /\ Goto(p, "pay", Portion(d, call[p].arg)) /\ UNCHANGED books
    BY <1>1, <1>10 DEF PaySize
  <2>2. Portion(d, call[p].arg) \in Int /\ "pay" \in Stage
    <3>1. Remaining(d) \in Int /\ call[p].arg \in Int
      BY <1>1, <2>1, TotalType DEF IndInv, Calls
    <3> QED
      BY <3>1 DEF Portion, Lesser, AtLeastZero, Stage
  <2> DEFINE c == go("pay", Portion(d, call[p].arg))
  <2>3. c.at = "pay" /\ c.doc = d /\ c.arg = call[p].arg /\ c.seen = Portion(d, call[p].arg)
        /\ status[d] \in Payable /\ call[p].arg \in PayAmount
    <3>1. status[d] \in Payable /\ call[p].arg \in PayAmount
      BY <1>1, <2>1 DEF Fresh, Paying
    <3> DEFINE v == Portion(d, call[p].arg)
    <3>2. v \in Int
      BY <2>2
    <3> HIDE DEF v, go
    <3>3. go("pay", v).at = "pay" /\ go("pay", v).doc = d /\ go("pay", v).arg = call[p].arg /\ go("pay", v).seen = v
      BY <1>7, <2>2, <3>2
    <3> QED
      BY <3>1, <3>3 DEF v
  <2> HIDE DEF d, go
  <2>4. Fresh(c)
    <3> HIDE DEF c
    <3> QED
      BY <2>1, <2>3 DEF Fresh, Editing, Paying
  <2> QED
    BY <1>8, <2>1, <2>2, <2>4
<1>11. CASE CreditRemaining(p)
  <2>1. call[p].at = "remaining" /\ d \in Doc /\ Goto(p, "available", 0) /\ UNCHANGED books
        /\ call[p].arg <= Remaining(d)
    BY <1>1, <1>11 DEF CreditRemaining
  <2>2. "available" \in Stage
    BY DEF Stage
  <2> DEFINE c == go("available", 0)
  <2>3. c.at = "available" /\ c.doc = d /\ c.arg = call[p].arg
        /\ status[d] \in Payable /\ call[p].arg \in PayAmount
    BY <1>1, <1>2, <1>7, <2>1, <2>2 DEF Fresh, Paying
  <2> HIDE DEF d, go
  <2>4. Fresh(c)
    <3> HIDE DEF c
    <3> QED
      BY <2>1, <2>3 DEF Fresh, Editing, Paying
  <2> QED
    BY <1>2, <1>8, <2>1, <2>2, <2>4
<1>12. CASE CreditAvailable(p)
  <2>1. call[p].at = "available" /\ d \in Doc /\ Goto(p, "credit", 0) /\ UNCHANGED books
        /\ call[p].arg <= Available(PoolOf[d])
    BY <1>1, <1>12 DEF CreditAvailable
  <2>2. "credit" \in Stage
    BY DEF Stage
  <2> DEFINE c == go("credit", 0)
  <2>3. c.at = "credit" /\ c.doc = d /\ c.arg = call[p].arg
        /\ status[d] \in Payable /\ call[p].arg \in PayAmount /\ call[p].arg <= Remaining(d)
    BY <1>1, <1>2, <1>7, <2>1, <2>2 DEF Fresh, Paying
  <2> HIDE DEF d, go
  <2>4. Fresh(c)
    <3> HIDE DEF c
    <3> QED
      BY <2>1, <2>3 DEF Fresh, Editing, Paying
  <2> QED
    BY <1>2, <1>8, <2>1, <2>2, <2>4
<1>13. CASE Fail(p)
  BY <1>13, FailKeeps
<1>14. \A e \in Doc : \A i \in Kept(e) : i \in Int
  <2>1. \A e \in Doc : DOMAIN lines[e] = 1 .. Len(lines[e])
    BY LenProperties DEF IndInv, Shape
  <2> QED
    BY <2>1 DEF Kept
<1> QED
  BY <1>2, <1>4, <1>5, <1>6, <1>9, <1>10, <1>11, <1>12, <1>13, <1>14 DEF Looks

\* A call that returns leaves the others where they are.
LEMMA Returns ==
  ASSUME Shape, NEW p \in Proc, Return(p)
  PROVE  /\ call' \in [Proc -> Calls] /\ call'[p] = Idle /\ Idle.at = "idle"
         /\ \A r \in Proc : r # p => call'[r] = call[r]
<1>1. Idle \in Calls /\ Idle.at = "idle"
  BY DEF Idle, At, Calls, Stage
<1> QED
  BY <1>1 DEF Return, Shape

\* The calls are well shaped after a step of process p if its own is.
ShapedCalls ==
  /\ call \in [Proc -> Calls]
  /\ \A r \in Proc : /\ call[r].at \in Stage /\ (call[r] # Idle => call[r].doc \in Doc)
                     /\ IF call[r].at = "idle" THEN call[r] = Idle ELSE call[r].doc \in Doc
LEMMA StepShaped ==
  ASSUME Shape, NEW p \in Proc, call' \in [Proc -> Calls],
         \A r \in Proc : r # p => call'[r] = call[r],
         IF call'[p].at = "idle" THEN call'[p] = Idle ELSE call'[p].doc \in Doc
  PROVE  ShapedCalls'
<1> SUFFICES ASSUME NEW r \in Proc
             PROVE  /\ call'[r].at \in Stage /\ (call'[r] # Idle => call'[r].doc \in Doc)
                    /\ IF call'[r].at = "idle" THEN call'[r] = Idle ELSE call'[r].doc \in Doc
  BY DEF ShapedCalls
<1>1. call'[r].at \in Stage
  BY DEF Calls
<1>2. IF call'[r].at = "idle" THEN call'[r] = Idle ELSE call'[r].doc \in Doc
  BY DEF Shape
<1> QED
  BY <1>1, <1>2
LEMMA ReturnsShaped ==
  ASSUME Shape, NEW p \in Proc, Return(p)
  PROVE  ShapedCalls'
BY Returns, StepShaped

\* A write by process p touches no document but its own.
OneDocument(p) == \A e \in Doc : e # call[p].doc =>
  /\ status'[e] = status[e] /\ lines'[e] = lines[e]
  /\ settled'[e] = settled[e] /\ entryOf'[e] = entryOf[e]

\* Then what calls on other documents have read is still so.
LEMMA OthersStill ==
  ASSUME Shape, StillSo, DocumentsApart, NEW p \in Proc, call[p].at # "idle", OneDocument(p),
         \A r \in Proc : r # p => call'[r] = call[r], Fresh(call[p])'
  PROVE  StillSo'
<1> SUFFICES ASSUME NEW r \in Proc, r # p
             PROVE  Fresh(call[r])'
  BY DEF StillSo
<1>1. call'[r] = call[r] /\ Fresh(call[r])
  BY DEF StillSo
<1>2. CASE call[r].at = "idle"
  BY <1>1, <1>2 DEF Fresh, Editing, Paying
<1>3. CASE call[r].at # "idle"
  <2> PICK c, e : c = call[r] /\ e = c.doc
    OBVIOUS
  <2>1. e \in Doc /\ e # call[p].doc
    BY <1>3 DEF Shape, DocumentsApart
  <2>2. status'[e] = status[e] /\ entryOf'[e] = entryOf[e] /\ settled'[e] = settled[e] /\ lines'[e] = lines[e]
    BY <2>1 DEF OneDocument
  <2>3. Total(e)' = Total(e) /\ Kept(e)' = Kept(e) /\ Remaining(e)' = Remaining(e)
    BY <2>1, <2>2, TotalKept DEF Remaining
  <2>4. call'[r] = c
    BY <1>1
  <2>5. \A a : Portion(e, a)' = Portion(e, a)
    BY <2>3 DEF Portion
  <2> QED
    BY <1>1, <2>2, <2>3, <2>4, <2>5 DEF Fresh
<1> QED
  BY <1>2, <1>3

\* So too when process p's call returns.
LEMMA OthersStillAfter ==
  ASSUME Shape, StillSo, DocumentsApart, NEW p \in Proc, call[p].at # "idle", OneDocument(p), Return(p)
  PROVE  StillSo'
<1>1. call'[p] = Idle /\ Idle.at = "idle" /\ \A r \in Proc : r # p => call'[r] = call[r]
  BY Returns
<1>2. Fresh(call[p])'
  BY <1>1 DEF Fresh, Editing, Paying
<1> QED
  BY <1>1, <1>2, OthersStill

\* An edit leaves lines, and those of other documents as they were.
LEMMA LinesTyped ==
  ASSUME Shape, NEW p \in Proc, call[p].doc \in Doc, call[p].at = "add" => call[p].arg \in LineAmount,
         \/ call[p].at = "add" /\ InsertLine(p)
         \/ call[p].at = "remove" /\ DeleteLine(p)
         \/ call[p].at = "update" /\ Rewrite(p)
  PROVE  /\ lines' \in [Doc -> Seq(Line)] /\ \A e \in Doc : e # call[p].doc => lines'[e] = lines[e]
         /\ DOMAIN lines' = Doc
         /\ \A e \in Doc : lines'[e] \in Seq([amount : LineAmount, kept : BOOLEAN])
<1> DEFINE d == call[p].doc
           i == call[p].arg
<1>1. lines' \in [Doc -> Seq(Line)] /\ \A e \in Doc : e # d => lines'[e] = lines[e]
  <2>1. lines \in [Doc -> Seq(Line)] /\ lines[d] \in Seq(Line)
    BY DEF Shape
  <2>2. CASE call[p].at = "add" /\ InsertLine(p)
    <3>1. [amount |-> i, kept |-> TRUE] \in Line
      BY <2>2 DEF Line
    <3>2. Append(lines[d], [amount |-> i, kept |-> TRUE]) \in Seq(Line)
      BY <2>1, <3>1, AppendProperties
    <3> QED
      BY <2>1, <2>2, <3>2 DEF InsertLine
  <2>3. CASE call[p].at = "remove" /\ DeleteLine(p)
    <3>1. CASE i \in Kept(d)
      <4>1. i \in 1 .. Len(lines[d]) /\ lines[d][i] \in Line
        BY <2>1, <3>1, LenProperties, ElementOfSeq DEF Kept
      <4>2. [lines[d][i] EXCEPT !.kept = FALSE] \in Line
        BY <4>1 DEF Line
      <4>3. [lines[d] EXCEPT ![i] = [lines[d][i] EXCEPT !.kept = FALSE]] \in Seq(Line)
        BY <2>1, <4>1, <4>2, ExceptSeq
      <4>4. lines' = [lines EXCEPT ![d] = [lines[d] EXCEPT ![i] = [lines[d][i] EXCEPT !.kept = FALSE]]]
        BY <2>3, <3>1 DEF DeleteLine
      <4> QED
        BY <2>1, <4>3, <4>4
    <3>2. CASE i \notin Kept(d)
      BY <2>1, <2>3, <3>2 DEF DeleteLine
    <3> QED
      BY <3>1, <3>2
  <2>4. CASE call[p].at = "update" /\ Rewrite(p)
    BY <2>1, <2>4 DEF Rewrite
  <2> QED
    BY <2>2, <2>3, <2>4
<1> QED
  BY <1>1 DEF Line

\* Adding a line, removing one or rewriting the header of a draft.
LEMMA EditsKeep ==
  ASSUME IndInv, DocumentsApart, NEW p \in Proc,
         \/ call[p].at = "add" /\ InsertLine(p)
         \/ call[p].at = "remove" /\ DeleteLine(p)
         \/ call[p].at = "update" /\ Rewrite(p)
  PROVE  IndInv'
<1> DEFINE d == call[p].doc
           i == call[p].arg
<1>1. d \in Doc /\ status[d] = "DRAFT"
  BY DEF IndInv, Shape, StillSo, Fresh, Editing
<1>2. /\ Return(p) /\ UNCHANGED <<status, issues, entryOf, settled, applied, paid, control, manual, cut>>
      /\ reworded' = {}
  BY <1>1 DEF InsertLine, DeleteLine, Rewrite, IndInv
<1>3. /\ lines' \in [Doc -> Seq(Line)] /\ (\A e \in Doc : e # d => lines'[e] = lines[e])
      /\ DOMAIN lines' = Doc /\ \A e \in Doc : lines'[e] \in Seq([amount : LineAmount, kept : BOOLEAN])
  <2>1. call[p].at = "add" => i \in LineAmount
    BY DEF IndInv, StillSo, Fresh
  <2> QED
    BY <1>1, <2>1, LinesTyped DEF IndInv
<1>4. StillSo' /\ ShapedCalls'
  <2>1. OneDocument(p)
    BY <1>2, <1>3 DEF OneDocument
  <2> QED
    BY <1>2, <2>1, OthersStillAfter, ReturnsShaped DEF IndInv
<1>5. Shape'
  <2>1. TypeOK'
    BY <1>2, <1>3, <1>4 DEF IndInv, Shape, TypeOK, ShapedCalls
  <2> QED
    BY <1>3, <1>4, <2>1 DEF Shape, ShapedCalls
<1> HIDE DEF d
<1>6. EntryOfTotal'
  <2>1. \A e \in Doc : e # d => Total(e)' = Total(e)
    BY <1>3, TotalKept
  <2> QED
    BY <1>1, <1>2, <2>1 DEF IndInv, EntryOfTotal, Owed
<1> QED
  BY <1>2, <1>4, <1>5, <1>6 DEF IndInv

\* A new draft.
LEMMA CreateKeeps ==
  ASSUME IndInv, NEW p \in Proc, NEW d \in Doc, Create(p, d)
  PROVE  IndInv'
<1>1. /\ status' = [status EXCEPT ![d] = "DRAFT"] /\ status[d] = "ABSENT" /\ call[p] = Idle
      /\ UNCHANGED <<lines, reworded, issues, entryOf, settled, applied, paid, control, manual, cut, call>>
  BY DEF Create
<1>2. /\ status' \in [Doc -> Status] /\ status'[d] = "DRAFT"
      /\ \A e \in Doc : e # d => status'[e] = status[e]
  BY <1>1 DEF IndInv, Shape, TypeOK, Status
<1>3. \A e \in Doc : Total(e)' = Total(e) /\ Kept(e)' = Kept(e)
  BY <1>1, TotalKept
<1>4. Shape'
  <2>1. TypeOK'
    BY <1>1, <1>2 DEF IndInv, Shape, TypeOK
  <2> QED
    BY <1>1, <2>1 DEF IndInv, Shape
<1>5. StillSo'
  <2>1. ASSUME NEW q \in Proc
        PROVE  Fresh(call[q])'
    <3>1. call[q].at = "idle" \/ call[q].doc \in Doc
      BY DEF IndInv, Shape
    <3>2. CASE call[q].at = "idle"
      BY <1>1, <3>2 DEF Fresh, Editing, Paying
    <3>3. CASE call[q].at # "idle" /\ call[q].doc \in Doc
      <4>1. Fresh(call[q])
        BY DEF IndInv, StillSo
      <4>2. call[q].at \in Editing \cup Paying \cup {"reverse", "mark"}
        BY <3>3 DEF IndInv, Shape, TypeOK, Stage, Editing, Paying
      <4>3. call[q].doc # d
        BY <1>1, <4>1, <4>2 DEF Fresh, Payable
      <4>4. status'[call[q].doc] = status[call[q].doc]
        BY <1>2, <3>3, <4>3
      <4> QED
        BY <1>1, <1>3, <3>3, <4>1, <4>4 DEF Fresh, Available, Portion, Remaining
    <3> QED
      BY <3>1, <3>2, <3>3
  <2> QED
    BY <1>1, <2>1 DEF StillSo
<1>6. EntryOfTotal' /\ reworded' = {}
  BY <1>1, <1>2, <1>3 DEF IndInv, EntryOfTotal, Owed
<1> QED
  BY <1>4, <1>5, <1>6 DEF IndInv

\* The entry that issues document d.
LEMMA PostKeeps ==
  ASSUME IndInv, DocumentsApart, NEW p \in Proc, Posts(p)
  PROVE  IndInv'
<1> DEFINE d == call[p].doc
           v == call[p].seen
           L == Len(issues)
<1>1. PICK leg \in {v, -v} : Owed(PoolOf[d], leg) = v /\ PostDocument(p, leg)
  BY DEF Posts
<1>2. d \in Doc /\ status[d] = "DRAFT" /\ v = Total(d) /\ v \in Int /\ leg \in Int /\ entryOf[d] = 0
      /\ PoolOf[d] \in Pool
  BY DEF Posts, IndInv, Shape, StillSo, Fresh, Editing, Calls, EntryOfTotal, PoolOf, Pool, Kind
<1> DEFINE e == [doc |-> d, leg |-> leg, reversed |-> 0]
<1>3. /\ control' = [control EXCEPT ![PoolOf[d]] = @ + leg]
      /\ issues' = Append(issues, e) /\ status' = [status EXCEPT ![d] = "OPEN"]
      /\ entryOf' = [entryOf EXCEPT ![d] = L + 1] /\ Return(p)
      /\ UNCHANGED <<lines, reworded, settled, applied, paid, manual, cut>>
  BY <1>1 DEF PostDocument
<1>4. /\ issues \in Seq(Issued) /\ e \in Issued /\ e.doc = d /\ e.leg = leg /\ L \in Nat
      /\ DOMAIN issues = 1 .. L
  <2>1. issues \in Seq(Issued)
    BY DEF IndInv, Shape, TypeOK, Issued
  <2> QED
    BY <1>2, <2>1, LenProperties DEF Issued
<1> HIDE DEF d, v, e, L
<1>5. PICK k \in Nat : k = L + 1
  BY <1>4
<1>6. /\ issues' \in Seq(Issued) /\ Len(issues') = k /\ DOMAIN issues' = 1 .. k
      /\ \A i \in 1 .. L : issues'[i] = issues[i]
      /\ issues'[k] = e
  <2>1. /\ Append(issues, e) \in Seq(Issued) /\ Len(Append(issues, e)) = L + 1
        /\ \A i \in 1 .. L : Append(issues, e)[i] = issues[i]
        /\ Append(issues, e)[L + 1] = e
    BY <1>4, AppendProperties DEF L
  <2> QED
    BY <1>3, <1>5, <2>1, LenProperties
<1>7. ShapedCalls'
  BY <1>3, ReturnsShaped DEF IndInv
<1>8. /\ status' \in [Doc -> Status] /\ status'[d] = "OPEN"
      /\ \A g \in Doc : g # d => status'[g] = status[g]
      /\ control' \in [Pool -> Int]
  BY <1>2, <1>3 DEF IndInv, Shape, TypeOK, Status
<1>9. /\ entryOf' \in [Doc -> 0 .. k] /\ entryOf'[d] = k
      /\ \A g \in Doc : g # d => entryOf'[g] = entryOf[g]
  <2>1. entryOf \in [Doc -> 0 .. L]
    BY DEF IndInv, Shape, TypeOK, L
  <2>2. k \in 0 .. k /\ \A n \in 0 .. L : n \in 0 .. k
    BY <1>4, <1>5
  <2> QED
    BY <1>2, <1>3, <1>5, <2>1, <2>2
<1>10. Shape'
  <2>1. TypeOK'
    BY <1>3, <1>6, <1>7, <1>8, <1>9 DEF IndInv, Shape, TypeOK, Issued, ShapedCalls
  <2> QED
    BY <1>3, <1>7, <2>1 DEF IndInv, Shape, ShapedCalls
<1>11. EntryOfTotal'
  <2>1. \A g \in Doc : Total(g)' = Total(g)
    BY <1>3, TotalKept
  <2>2. ASSUME NEW g \in Doc, g # d, status[g] \notin {"ABSENT", "DRAFT"}
        PROVE  /\ entryOf'[g] \in DOMAIN issues' /\ issues'[entryOf'[g]].doc = g
               /\ Owed(PoolOf[g], issues'[entryOf'[g]].leg) = Total(g)
    <3>1. /\ entryOf[g] \in 1 .. L /\ issues[entryOf[g]].doc = g
          /\ Owed(PoolOf[g], issues[entryOf[g]].leg) = Total(g)
      BY <1>4, <2>2 DEF IndInv, EntryOfTotal
    <3> QED
      BY <1>4, <1>5, <1>6, <1>9, <2>2, <3>1
  <2>3. k \in DOMAIN issues' /\ issues'[k].doc = d /\ Owed(PoolOf[d], issues'[k].leg) = Total(d)
    <3>1. k \in 1 .. k
      BY <1>4, <1>5
    <3> QED
      BY <1>1, <1>2, <1>4, <1>6, <3>1 DEF d, v
  <2>4. \A q, a : Owed(q, a)' = Owed(q, a)
    BY DEF Owed
  <2> QED
    BY <1>2, <1>8, <1>9, <2>1, <2>2, <2>3 DEF IndInv, EntryOfTotal, Owed
<1>12. reworded' = {}
  BY <1>3 DEF IndInv
<1>13. StillSo'
  <2>1. OneDocument(p)
    BY <1>3, <1>8, <1>9 DEF OneDocument, d
  <2>2. call[p].at # "idle"
    BY DEF Posts
  <2> QED
    BY <1>3, <2>1, <2>2, OthersStillAfter DEF IndInv
<1> QED
  BY <1>10, <1>11, <1>12, <1>13 DEF IndInv

\* What a payment and a credit have in common: x is allocated to the document,
\* no more than remains of it and nothing only if nothing does; cash counts
\* against the balance.
Settles(p, d, x) ==
  /\ d \in Doc /\ d = call[p].doc /\ status[d] \in Payable
  /\ x \in Nat /\ x <= AtLeastZero(Remaining(d)) /\ (x = 0 => Remaining(d) <= 0)
  /\ Allocate(d, x) /\ Return(p) /\ call[p].at \in {"pay", "credit"}
  /\ paid' \in [Pool -> Nat] /\ control' \in [Pool -> Int]
  /\ \A q \in Pool : /\ paid[q] <= paid'[q] /\ (q # PoolOf[d] => UNCHANGED <<paid[q], control[q]>>)
                     /\ Owed(q, control'[q]) + paid'[q] = Owed(q, control[q]) + paid[q]
  /\ UNCHANGED <<lines, reworded, issues, entryOf, manual, cut>>

\* A document's pool is on the document's side.
LEMMA PoolFacts ==
  ASSUME NEW d \in Doc
  PROVE  PoolOf[d] \in Pool /\ PoolOf[d][1] = Kind(d)
BY DEF PoolOf, Pool, Kind

\* mb_payment_record allocates the portion it sized.
LEMMA PaySettles ==
  ASSUME IndInv, NEW p \in Proc, Pay(p)
  PROVE  Settles(p, call[p].doc, call[p].seen)
         /\ paid' = [paid EXCEPT ![PoolOf[call[p].doc]] = @ + call[p].arg]
         /\ call[p].arg \in Nat \ {0} /\ call[p].seen = Portion(call[p].doc, call[p].arg)
<1> DEFINE d == call[p].doc
           a == call[p].arg
           x == call[p].seen
           q == PoolOf[d]
<1>1. /\ call[p].at = "pay" /\ Allocate(d, x) /\ Return(p)
      /\ control' = [control EXCEPT ![q] = @ + PaymentLeg(d, a)]
      /\ paid' = [paid EXCEPT ![q] = @ + a]
      /\ UNCHANGED <<lines, reworded, issues, entryOf, manual, cut>>
  BY DEF Pay
<1>2. d \in Doc /\ status[d] \in Payable /\ a \in PayAmount /\ x = Portion(d, a)
  BY <1>1 DEF IndInv, Shape, StillSo, Fresh, Paying
<1>3. /\ a \in Nat /\ a > 0 /\ Remaining(d) \in Int /\ q \in Pool /\ q[1] = Kind(d)
      /\ control \in [Pool -> Int] /\ paid \in [Pool -> Nat] /\ applied \in [Pool -> Nat]
  <2>1. Remaining(d) \in Int
    BY <1>2, TotalType DEF IndInv
  <2>2. q \in Pool /\ q[1] = Kind(d)
    BY <1>2, PoolFacts
  <2>3. \A z \in PayAmount : z \in Nat /\ z > 0
    BY AmountAssumption
  <2>4. control \in [Pool -> Int] /\ paid \in [Pool -> Nat] /\ applied \in [Pool -> Nat]
    BY DEF IndInv, Shape, TypeOK
  <2> QED
    BY <1>2, <2>1, <2>2, <2>3, <2>4
<1> HIDE DEF d, a, q, x
<1>4. x \in Nat /\ x <= AtLeastZero(Remaining(d)) /\ (x = 0 => Remaining(d) <= 0) /\ x <= a
  BY <1>2, <1>3 DEF Portion, Lesser, AtLeastZero
<1>5. /\ PaymentLeg(d, a) \in Int
      /\ \A b \in Int : Owed(q, b + PaymentLeg(d, a)) = Owed(q, b) - a
  BY <1>3 DEF PaymentLeg, Owed
<1> DEFINE l == PaymentLeg(d, a)
<1> HIDE DEF l
<1>6. /\ control' \in [Pool -> Int] /\ paid' \in [Pool -> Nat]
      /\ control'[q] = control[q] + l /\ paid'[q] = paid[q] + a
      /\ \A r \in Pool : r # q => control'[r] = control[r] /\ paid'[r] = paid[r]
  BY <1>1, <1>3, <1>5 DEF l
<1>7. ASSUME NEW r \in Pool
      PROVE  /\ paid[r] <= paid'[r] /\ (r # q => UNCHANGED <<paid[r], control[r]>>)
             /\ Owed(r, control'[r]) + paid'[r] = Owed(r, control[r]) + paid[r]
  <2>1. CASE r = q
    <3>1. Owed(q, control[q] + l) = Owed(q, control[q]) - a
      BY <1>3, <1>5 DEF l
    <3>2. Owed(q, control[q]) \in Int
      BY <1>3 DEF Owed
    <3>3. control[q] + l = control'[q]
      BY <1>6
    <3>4. Owed(q, control'[q]) = Owed(q, control[q]) - a
      BY <3>1, <3>3
    <3> QED
      BY <1>3, <1>6, <2>1, <3>2, <3>4
  <2>2. CASE r # q
    BY <1>3, <1>6, <2>2
  <2> QED
    BY <2>1, <2>2
<1>8. Settles(p, d, x)
  BY <1>1, <1>2, <1>4, <1>6, <1>7 DEF Settles, q, d
<1> QED
  BY <1>1, <1>2, <1>3, <1>8 DEF d, a, q, x

\* mb_credit_apply allocates what remains of the document, and moves no cash.
LEMMA CreditSettles ==
  ASSUME IndInv, NEW p \in Proc, Credit(p)
  PROVE  Settles(p, call[p].doc, call[p].arg) /\ call[p].arg \in Nat /\ UNCHANGED <<paid, control>>
<1> DEFINE d == call[p].doc
           x == call[p].arg
           q == PoolOf[d]
<1>1. /\ call[p].at = "credit" /\ Allocate(d, x) /\ Return(p)
      /\ UNCHANGED <<lines, reworded, issues, entryOf, paid, control, manual, cut>>
  BY DEF Credit
<1>2. /\ d \in Doc /\ status[d] \in Payable /\ x \in PayAmount /\ x <= Remaining(d)
  BY <1>1 DEF IndInv, Shape, StillSo, Fresh, Paying
<1>3. /\ x \in Nat /\ x > 0 /\ Remaining(d) \in Int /\ q \in Pool
      /\ control \in [Pool -> Int] /\ paid \in [Pool -> Nat] /\ applied \in [Pool -> Nat]
  <2>1. Remaining(d) \in Int
    BY <1>2, TotalType DEF IndInv
  <2>2. q \in Pool
    BY <1>2, PoolFacts
  <2>3. \A z \in PayAmount : z \in Nat /\ z > 0
    BY AmountAssumption
  <2>4. control \in [Pool -> Int] /\ paid \in [Pool -> Nat] /\ applied \in [Pool -> Nat]
    BY DEF IndInv, Shape, TypeOK
  <2> QED
    BY <1>2, <2>1, <2>2, <2>3, <2>4
<1> HIDE DEF d, x, q
<1>4. x <= AtLeastZero(Remaining(d)) /\ x # 0
  BY <1>2, <1>3 DEF AtLeastZero
<1>5. Settles(p, d, x)
  BY <1>1, <1>2, <1>3, <1>4 DEF Settles, q, d
<1> QED
  BY <1>1, <1>3, <1>5 DEF d, x

\* A payment or a credit keeps the invariant.
LEMMA SettlesKeeps ==
  ASSUME IndInv, DocumentsApart, NEW p \in Proc, NEW d, NEW x, Settles(p, d, x)
  PROVE  IndInv'
<1> DEFINE q == PoolOf[d]
           st == Recomputed(d, settled[d] + x)
<1>1. /\ d \in Doc /\ d = call[p].doc /\ status[d] \in Payable /\ x \in Nat /\ Return(p)
      /\ settled' = [settled EXCEPT ![d] = @ + x] /\ applied' = [applied EXCEPT ![q] = @ + x]
      /\ status' = [status EXCEPT ![d] = st]
      /\ paid' \in [Pool -> Nat] /\ control' \in [Pool -> Int]
      /\ UNCHANGED <<lines, reworded, issues, entryOf, manual, cut>>
  BY DEF Settles, Allocate
<1>2. q \in Pool /\ st \in {"PAID", "PARTIAL"}
  BY <1>1, PoolFacts DEF Recomputed
<1> HIDE DEF q, st
<1>3. /\ settled' \in [Doc -> Nat] /\ applied' \in [Pool -> Nat] /\ status' \in [Doc -> Status]
      /\ status'[d] \in {"PAID", "PARTIAL"} /\ \A e \in Doc : e # d => status'[e] = status[e]
      /\ applied'[q] = applied[q] + x /\ \A r \in Pool : r # q => applied'[r] = applied[r]
  <2>1. settled \in [Doc -> Nat] /\ applied \in [Pool -> Nat] /\ status \in [Doc -> Status]
    BY DEF IndInv, Shape, TypeOK
  <2>2. settled' \in [Doc -> Nat] /\ applied' \in [Pool -> Nat]
    BY <1>1, <1>2, <2>1
  <2>3. st \in Status
    BY <1>2 DEF Status
  <2> QED
    BY <1>1, <1>2, <2>1, <2>2, <2>3
<1>4. StillSo' /\ ShapedCalls'
  <2>1. \A e \in Doc : e # d => settled'[e] = settled[e]
    BY <1>1 DEF IndInv, Shape, TypeOK
  <2>2. OneDocument(p)
    BY <1>1, <1>3, <2>1 DEF OneDocument
  <2>3. call[p].at # "idle"
    BY DEF Settles
  <2> QED
    BY <1>1, <2>2, <2>3, OthersStillAfter, ReturnsShaped DEF IndInv
<1>5. Shape'
  <2>1. TypeOK'
    BY <1>1, <1>3, <1>4 DEF IndInv, Shape, TypeOK, ShapedCalls
  <2> QED
    BY <1>1, <1>4, <2>1 DEF IndInv, Shape, ShapedCalls
<1>6. EntryOfTotal'
  <2>1. \A e \in Doc : Total(e)' = Total(e)
    BY <1>1, TotalKept
  <2>2. status[d] \notin {"ABSENT", "DRAFT"} /\ status'[d] \notin {"ABSENT", "DRAFT"}
    BY <1>1, <1>3 DEF Payable
  <2> QED
    BY <1>1, <1>3, <2>1, <2>2 DEF IndInv, EntryOfTotal, Owed
<1> QED
  BY <1>1, <1>4, <1>5, <1>6 DEF IndInv

\* Reversing an entry leaves entries, of the same documents and postings.
LEMMA ReversedTyped ==
  ASSUME Shape, NEW i \in DOMAIN issues, issues' = [issues EXCEPT ![i].reversed = @ + 1]
  PROVE  /\ issues' \in Seq(Issued) /\ Len(issues') = Len(issues) /\ DOMAIN issues' = DOMAIN issues
         /\ \A j \in DOMAIN issues : issues'[j].doc = issues[j].doc /\ issues'[j].leg = issues[j].leg
         /\ issues[i].leg \in Int
<1>1. issues \in Seq(Issued) /\ DOMAIN issues = 1 .. Len(issues) /\ i \in 1 .. Len(issues)
      /\ issues[i] \in Issued
  <2>1. issues \in Seq(Issued) /\ DOMAIN issues = 1 .. Len(issues)
    BY LenProperties DEF Shape, TypeOK, Issued
  <2> QED
    BY <2>1, ElementOfSeq
<1> DEFINE e == [issues[i] EXCEPT !.reversed = @ + 1]
<1>2. e \in Issued /\ e.doc = issues[i].doc /\ e.leg = issues[i].leg /\ issues' = [issues EXCEPT ![i] = e]
      /\ issues[i].leg \in Int
  <2>1. e \in Issued /\ e.doc = issues[i].doc /\ e.leg = issues[i].leg /\ issues[i].leg \in Int
    <3> DEFINE o == issues[i]
    <3>1. o \in Issued
      BY <1>1
    <3> HIDE DEF o
    <3> SUFFICES LET n == [o EXCEPT !.reversed = @ + 1]
                 IN  n \in Issued /\ n.doc = o.doc /\ n.leg = o.leg /\ o.leg \in Int
      BY DEF o
    <3>2. o.reversed + 1 \in Nat
      BY <3>1 DEF Issued
    <3> QED
      BY <3>1, <3>2 DEF Issued
  <2>2. issues' = [issues EXCEPT ![i] = e]
    OBVIOUS
  <2> QED
    BY <2>1, <2>2
<1> HIDE DEF e
<1>3. /\ issues' \in Seq(Issued) /\ Len(issues') = Len(issues) /\ DOMAIN issues' = DOMAIN issues
      /\ \A j \in DOMAIN issues : issues'[j].doc = issues[j].doc /\ issues'[j].leg = issues[j].leg
  <2>1. /\ issues' \in Seq(Issued) /\ Len(issues') = Len(issues)
        /\ \A j \in 1 .. Len(issues) : issues'[j] = IF j = i THEN e ELSE issues[j]
    BY <1>1, <1>2, ExceptSeq
  <2> QED
    BY <1>1, <1>2, <2>1, LenProperties
<1> QED
  BY <1>2, <1>3

\* The reversing entry of a void keeps the invariant.
LEMMA ReverseKeeps ==
  ASSUME IndInv, DocumentsApart, NEW p \in Proc, VoidReverse(p)
  PROVE  IndInv'
<1> DEFINE d == call[p].doc
           i == call[p].seen
           q == PoolOf[d]
<1>1. /\ call[p].at = "reverse" /\ control' = [control EXCEPT ![q] = @ - issues[i].leg]
      /\ issues' = [issues EXCEPT ![i].reversed = @ + 1]
      /\ call' = [call EXCEPT ![p] = [@ EXCEPT !.at = "mark", !.seen = i]]
      /\ UNCHANGED <<status, lines, reworded, entryOf, settled, applied, paid, manual, cut>>
  BY DEF VoidReverse, Goto
<1>2. d \in Doc /\ status[d] = "OPEN" /\ i = entryOf[d] /\ call[p] \in Calls /\ q \in Pool
  BY <1>1, PoolFacts DEF IndInv, Shape, StillSo, Fresh
<1>3. /\ i \in DOMAIN issues /\ issues[i].leg \in Int
      /\ issues' \in Seq(Issued) /\ Len(issues') = Len(issues) /\ DOMAIN issues' = DOMAIN issues
      /\ \A j \in DOMAIN issues : issues'[j].doc = issues[j].doc /\ issues'[j].leg = issues[j].leg
  <2>1. i \in DOMAIN issues
    BY <1>2 DEF IndInv, EntryOfTotal
  <2> QED
    BY <1>1, <2>1, ReversedTyped DEF IndInv
<1> DEFINE c == [call[p] EXCEPT !.at = "mark", !.seen = i]
<1>4. c \in Calls /\ c.at = "mark" /\ c.doc = d /\ c.seen = i
  BY <1>2 DEF Calls, Stage
<1> HIDE DEF c, d, i, q
<1>5. ShapedCalls' /\ call'[p] = c /\ \A r \in Proc : r # p => call'[r] = call[r]
  <2>1. call' = [call EXCEPT ![p] = c] /\ call \in [Proc -> Calls]
    BY <1>1 DEF c, i, IndInv, Shape
  <2>2. call' \in [Proc -> Calls] /\ call'[p] = c /\ \A r \in Proc : r # p => call'[r] = call[r]
    BY <1>4, <2>1
  <2> QED
    BY <1>2, <1>4, <2>2, StepShaped DEF IndInv
<1>6. control' \in [Pool -> Int]
  <2>1. control \in [Pool -> Int]
    BY DEF IndInv, Shape, TypeOK
  <2>2. control[q] - issues[i].leg \in Int
    BY <1>2, <1>3, <2>1
  <2> QED
    BY <1>1, <2>1, <2>2
<1>7. Shape'
  <2>1. TypeOK'
    BY <1>1, <1>3, <1>5, <1>6 DEF IndInv, Shape, TypeOK, Issued, ShapedCalls
  <2> QED
    BY <1>1, <1>5, <2>1 DEF IndInv, Shape, ShapedCalls
<1>8. StillSo'
  <2>1. OneDocument(p)
    BY <1>1 DEF OneDocument
  <2>2. Fresh(call[p])'
    BY <1>1, <1>2, <1>4, <1>5 DEF Fresh, Editing, Paying
  <2>3. call[p].at # "idle"
    BY <1>1
  <2> QED
    BY <1>5, <2>1, <2>2, <2>3, OthersStill DEF IndInv
<1>9. EntryOfTotal'
  <2>1. \A g \in Doc : Total(g)' = Total(g)
    BY <1>1, TotalKept
  <2> QED
    BY <1>1, <1>3, <2>1 DEF IndInv, EntryOfTotal, Owed
<1>10. reworded' = {}
  BY <1>1 DEF IndInv
<1> QED
  BY <1>7, <1>8, <1>9, <1>10 DEF IndInv

\* So does marking the document VOID.
LEMMA MarkKeeps ==
  ASSUME IndInv, DocumentsApart, NEW p \in Proc, call[p].at = "mark", MarkVoid(p)
  PROVE  IndInv'
<1> DEFINE d == call[p].doc
<1>1. /\ status' = [status EXCEPT ![d] = "VOID"] /\ Return(p)
      /\ UNCHANGED <<lines, reworded, issues, entryOf, settled, applied, paid, control, manual, cut>>
  BY DEF MarkVoid
<1>2. d \in Doc /\ status[d] = "OPEN"
  BY DEF IndInv, Shape, StillSo, Fresh
<1>3. /\ status' \in [Doc -> Status] /\ status'[d] = "VOID"
      /\ \A e \in Doc : e # d => status'[e] = status[e]
  BY <1>1, <1>2 DEF IndInv, Shape, TypeOK, Status
<1>4. StillSo' /\ ShapedCalls'
  <2>1. OneDocument(p)
    BY <1>1, <1>3 DEF OneDocument
  <2> QED
    BY <1>1, <2>1, OthersStillAfter, ReturnsShaped DEF IndInv
<1> HIDE DEF d
<1>5. Shape'
  <2>1. TypeOK'
    BY <1>1, <1>3, <1>4 DEF IndInv, Shape, TypeOK, ShapedCalls
  <2> QED
    BY <1>1, <1>4, <2>1 DEF IndInv, Shape, ShapedCalls
<1>6. EntryOfTotal'
  <2>1. \A e \in Doc : Total(e)' = Total(e)
    BY <1>1, TotalKept
  <2> QED
    BY <1>1, <1>2, <1>3, <2>1 DEF IndInv, EntryOfTotal, Owed
<1>7. reworded' = {}
  BY <1>1 DEF IndInv
<1> QED
  BY <1>4, <1>5, <1>6, <1>7 DEF IndInv

\* So does a posting by hand on a control account.
LEMMA ManualKeeps ==
  ASSUME IndInv, NEW p \in Proc, NEW q \in Pool, NEW a \in ManualAmount, ManualPost(p, q, a)
  PROVE  IndInv'
<1>1. /\ control' = [control EXCEPT ![q] = @ + a] /\ manual' = [manual EXCEPT ![q] = @ + a]
      /\ UNCHANGED <<status, lines, reworded, issues, entryOf, settled, applied, paid, cut, call>>
  BY DEF ManualPost
<1>2. control' \in [Pool -> Int] /\ manual' \in [Pool -> Int]
  BY <1>1, AmountAssumption DEF IndInv, Shape, TypeOK
<1>3. Shape'
  BY <1>1, <1>2 DEF IndInv, Shape, TypeOK
<1>4. \A e \in Doc : Total(e)' = Total(e) /\ Kept(e)' = Kept(e)
  BY <1>1, TotalKept
<1>5. StillSo'
  <2>1. \A r \in Proc : call[r].at = "idle" \/ call[r].doc \in Doc
    BY DEF IndInv, Shape
  <2>2. ASSUME NEW r \in Proc
        PROVE  Fresh(call[r])'
    <3>1. CASE call[r].at = "idle"
      BY <1>1, <3>1 DEF Fresh, Editing, Paying
    <3>2. CASE call[r].doc \in Doc
      BY <1>1, <1>4, <3>2 DEF IndInv, StillSo, Fresh, Available, Portion, Remaining
    <3> QED
      BY <2>1, <3>1, <3>2
  <2> QED
    BY <1>1, <2>2 DEF StillSo
<1>6. EntryOfTotal' /\ reworded' = {}
  BY <1>1, <1>4 DEF IndInv, EntryOfTotal, Owed
<1> QED
  BY <1>3, <1>5, <1>6 DEF IndInv

\* Every step keeps the invariant while documents are kept apart.
LEMMA StepKeeps ==
  ASSUME IndInv, DocumentsApart, Next
  PROVE  IndInv'
<1>1. PICK p \in Proc : Looks(p) \/ Writes(p)
  BY NextCases DEF IndInv
<1>2. CASE Looks(p)
  BY <1>2, LooksKeep
<1>3. CASE Writes(p)
  BY <1>3, CreateKeeps, EditsKeep, PostKeeps, PaySettles, CreditSettles, SettlesKeeps,
     ReverseKeeps, MarkKeeps, ManualKeeps, FailKeeps
     DEF Writes, Lapses
<1> QED
  BY <1>1, <1>2, <1>3

\* So does no step at all.
LEMMA StutterKeeps ==
  ASSUME IndInv, UNCHANGED vars
  PROVE  IndInv'
<1>1. UNCHANGED <<status, lines, reworded, issues, entryOf, settled, applied, paid, control, manual, cut, call>>
  BY DEF vars, books, rows
<1>2. \A e \in Doc : Total(e)' = Total(e) /\ Kept(e)' = Kept(e)
  BY <1>1, TotalKept
<1>3. Shape'
  BY <1>1 DEF IndInv, Shape, TypeOK
<1>4. StillSo'
  <2>1. ASSUME NEW r \in Proc
        PROVE  Fresh(call[r])'
    <3>1. Fresh(call[r])
      BY DEF IndInv, StillSo
    <3> QED
      BY <1>1, <3>1 DEF Fresh, Available, Portion, Remaining, Total, Kept
  <2> QED
    BY <1>1, <2>1 DEF StillSo
<1>5. EntryOfTotal' /\ reworded' = {}
  BY <1>1, <1>2 DEF IndInv, EntryOfTotal, Owed
<1> QED
  BY <1>3, <1>4, <1>5 DEF IndInv
-----------------------------------------------------------------------------
(* Credit.  It needs no more than that no two calls of a pool stand        *)
(* between its check and its use, however calls on documents overlap.      *)

\* What call c holds is fit to be written, and credit it has found is there.
Sound(c) ==
  /\ c.at = "add" => c.arg \in LineAmount
  /\ c.at \in Paying => c.arg \in PayAmount
  /\ c.at = "pay" => c.seen \in 0 .. c.arg
  /\ c.at = "credit" => c.arg <= Available(PoolOf[c.doc])
  /\ c.at = "reverse" => c.seen \in DOMAIN issues

CreditInv == Shape /\ (\A p \in Proc : Sound(call[p])) /\ CreditNeverNegative

\* A call that goes on to c, having written nothing.
LEMMA MoveKeepsCredit ==
  ASSUME CreditInv, NEW p \in Proc, UNCHANGED rows, cut' \in [Doc -> Nat], NEW c \in Calls, Sound(c),
         call' = [call EXCEPT ![p] = c], IF c.at = "idle" THEN c = Idle ELSE c.doc \in Doc
  PROVE  CreditInv'
<1>1. /\ UNCHANGED <<status, lines, reworded, issues, entryOf, settled, applied, paid, control, manual>>
      /\ call' \in [Proc -> Calls] /\ call'[p] = c /\ \A r \in Proc : r # p => call'[r] = call[r]
  BY DEF rows, CreditInv, Shape
<1>2. ShapedCalls'
  BY <1>1, StepShaped DEF CreditInv
<1>3. Shape'
  <2>1. TypeOK'
    BY <1>1, <1>2 DEF CreditInv, Shape, TypeOK, ShapedCalls
  <2> QED
    BY <1>1, <1>2, <2>1 DEF CreditInv, Shape, ShapedCalls
<1>4. ASSUME NEW r \in Proc
      PROVE  Sound(call[r])'
  <2>1. ASSUME NEW k, Sound(k)
        PROVE  Sound(k)'
    BY <1>1, <2>1 DEF Sound, Available
  <2>2. CASE r = p
    BY <1>1, <2>1, <2>2
  <2>3. CASE r # p
    BY <1>1, <2>1, <2>3 DEF CreditInv
  <2> QED
    BY <2>2, <2>3
<1> QED
  BY <1>1, <1>3, <1>4 DEF CreditInv, CreditNeverNegative

\* So does a call that ends with an error, wherever it stands.
LEMMA FailKeepsCredit ==
  ASSUME CreditInv, NEW p \in Proc, Fail(p)
  PROVE  CreditInv'
<1>1. Idle \in Calls /\ Idle.at = "idle" /\ Sound(Idle)
  BY DEF Idle, At, Calls, Stage, Sound, Paying
<1>2. call' = [call EXCEPT ![p] = Idle] /\ UNCHANGED rows /\ cut' \in [Doc -> Nat]
  BY LapseTyped DEF Fail, Return, CreditInv
<1> QED
  BY <1>1, <1>2, MoveKeepsCredit

\* Steps that only read, check or give up hold nothing unfit.
LEMMA LooksKeepCredit ==
  ASSUME CreditInv, NEW p \in Proc, Looks(p)
  PROVE  CreditInv'
<1>1. /\ call[p] \in Calls /\ Sound(call[p]) /\ call \in [Proc -> Calls]
      /\ IF call[p].at = "idle" THEN call[p] = Idle ELSE call[p].doc \in Doc
  BY DEF CreditInv, Shape
<1>2. PayAmount \subseteq Nat \ {0} /\ LineAmount \subseteq Int
  BY AmountAssumption
<1> UNCHANGED books => UNCHANGED rows /\ cut' \in [Doc -> Nat]
  BY DEF books, CreditInv, Shape, TypeOK
<1>3. ASSUME NEW w \in {"add", "remove", "update", "gather", "size", "remaining", "reverse"}, NEW d \in Doc,
             NEW a \in Int, NEW v \in Int, Start(p, w, d, a, v), UNCHANGED books,
             w = "add" => a \in LineAmount, w \in {"size", "remaining"} => a \in PayAmount,
             w = "reverse" => v \in DOMAIN issues
      PROVE  CreditInv'
  <2> DEFINE c == At(w, d, a, v)
  <2>1. /\ c \in Calls /\ c.at = w /\ c.doc = d /\ c.arg = a /\ c.seen = v
        /\ w \notin {"idle", "pay", "credit", "available"}
    BY <1>3 DEF At, Calls, Stage
  <2>2. call' = [call EXCEPT ![p] = c]
    BY <1>3 DEF Start
  <2> HIDE DEF c
  <2>3. Sound(c)
    BY <1>3, <2>1 DEF Sound, Paying
  <2> QED
    BY <1>3, <2>1, <2>2, <2>3, MoveKeepsCredit
<1> DEFINE d == call[p].doc
           a == call[p].arg
<1>4. ASSUME NEW w \in {"issue", "pay", "available", "credit"}, NEW v \in Int, Goto(p, w, v), UNCHANGED books,
             d \in Doc, w # "issue" => a \in PayAmount, w = "pay" => v \in 0 .. a,
             w = "credit" => a <= Available(PoolOf[d])
      PROVE  CreditInv'
  <2> DEFINE c == [call[p] EXCEPT !.at = w, !.seen = v]
  <2>1. c \in Calls /\ c.at = w /\ c.doc = d /\ c.arg = a /\ c.seen = v /\ w \notin {"idle", "add", "reverse"}
    BY <1>1 DEF Calls, Stage
  <2>2. call' = [call EXCEPT ![p] = c]
    BY <1>1, <1>4 DEF Goto
  <2> HIDE DEF c, d, a
  <2>3. Sound(c)
    BY <1>4, <2>1 DEF Sound, Paying
  <2> QED
    BY <1>4, <2>1, <2>2, <2>3, MoveKeepsCredit
<1>5. CASE \E e \in Doc : EditDraft(p, "update", e, 0) \/ EditDraft(p, "gather", e, 0)
  BY <1>3, <1>5 DEF EditDraft
<1>6. CASE \E e \in Doc, b \in LineAmount : EditDraft(p, "add", e, b)
  BY <1>2, <1>3, <1>6 DEF EditDraft
<1>7. CASE \E e \in Doc : \E i \in Kept(e) : EditDraft(p, "remove", e, i)
  <2>1. \A e \in Doc : DOMAIN lines[e] = 1 .. Len(lines[e])
    BY LenProperties DEF CreditInv, Shape
  <2>2. \A e \in Doc : \A i \in Kept(e) : i \in Int
    BY <2>1 DEF Kept
  <2> QED
    BY <1>3, <1>7, <2>2 DEF EditDraft
<1>8. CASE \E e \in Doc, b \in PayAmount : PayableCheck(p, "size", e, b) \/ PayableCheck(p, "remaining", e, b)
  BY <1>2, <1>3, <1>8 DEF PayableCheck
<1>9. CASE \E e \in Doc : VoidCheck(p, e, Row(e))
  <2>1. PICK e \in Doc : Start(p, "reverse", e, 0, entryOf[e]) /\ UNCHANGED books /\ entryOf[e] # 0
    BY <1>9 DEF VoidCheck, Row
  <2>2. entryOf[e] \in DOMAIN issues /\ entryOf[e] \in Int
    <3>1. entryOf[e] \in 0 .. Len(issues) /\ DOMAIN issues = 1 .. Len(issues) /\ Len(issues) \in Nat
      BY LenProperties DEF CreditInv, Shape, TypeOK
    <3> QED
      BY <2>1, <3>1
  <2> QED
    BY <1>3, <2>1, <2>2
<1>10. CASE call[p].at = "gather" /\ Gather(p)
  <2>1. d \in Doc /\ Goto(p, "issue", Total(d)) /\ UNCHANGED books
    BY <1>1, <1>10 DEF Gather
  <2>2. Total(d) \in Int
    BY <2>1, TotalType DEF CreditInv
  <2> QED
    BY <1>4, <2>1, <2>2
<1>11. CASE PaySize(p)
  <2>1. d \in Doc /\ a \in PayAmount /\ Goto(p, "pay", Portion(d, a)) /\ UNCHANGED books
    BY <1>1, <1>11 DEF PaySize, Sound, Paying
  <2>2. Portion(d, a) \in Int /\ Portion(d, a) \in 0 .. a
    <3>1. Remaining(d) \in Int /\ a \in Nat
      BY <1>2, <2>1, TotalType DEF CreditInv
    <3> QED
      BY <3>1 DEF Portion, Lesser, AtLeastZero
  <2> QED
    BY <1>4, <2>1, <2>2
<1>12. CASE CreditRemaining(p) \/ CreditAvailable(p)
  <2>1. d \in Doc /\ a \in PayAmount /\ UNCHANGED books
    BY <1>1, <1>12 DEF CreditRemaining, CreditAvailable, Sound, Paying
  <2> QED
    BY <1>4, <1>12, <2>1 DEF CreditRemaining, CreditAvailable
<1>13. CASE Fail(p)
  BY <1>13, FailKeepsCredit
<1> QED
  BY <1>5, <1>6, <1>7, <1>8, <1>9, <1>10, <1>11, <1>12, <1>13 DEF Looks

\* What calls hold stays fit after a write by process p that takes no credit
\* but from its own pool.
LEMMA WriteStaysSound ==
  ASSUME CreditInv, CreditApart, NEW p \in Proc, \A r \in Proc : r # p => call'[r] = call[r],
         Sound(call[p])', DOMAIN issues \subseteq DOMAIN issues',
         \A q \in Pool, a \in PayAmount :
           a <= Available(q) /\ ~(call[p].at = "credit" /\ q = PoolOf[call[p].doc]) => a <= Available(q)'
  PROVE  \A r \in Proc : Sound(call[r])'
<1> SUFFICES ASSUME NEW r \in Proc, r # p
             PROVE  Sound(call[r])'
  OBVIOUS
<1> PICK c : c = call[r]
  OBVIOUS
<1>1. call'[r] = c /\ Sound(c) /\ (c.at = "idle" \/ c.doc \in Doc)
  BY DEF CreditInv, Shape
<1>2. ASSUME c.at = "credit"
      PROVE  c.arg <= Available(PoolOf[c.doc])'
  <2>1. c.doc \in Doc /\ c.arg \in PayAmount /\ c.arg <= Available(PoolOf[c.doc])
    BY <1>1, <1>2 DEF Sound, Paying
  <2>2. ~(call[p].at = "credit" /\ PoolOf[c.doc] = PoolOf[call[p].doc])
    BY <1>2 DEF CreditApart
  <2> QED
    BY <2>1, <2>2, PoolFacts
<1>3. Sound(c)'
  BY <1>1, <1>2 DEF Sound
<1> QED
  BY <1>1, <1>3

\* Drafts, edits, issues and marks move no cash or credit.
LEMMA PaperKeepsCredit ==
  ASSUME CreditInv, CreditApart, NEW p \in Proc,
         \/ \E d \in Doc : Create(p, d)
         \/ call[p].at = "add" /\ InsertLine(p)
         \/ call[p].at = "remove" /\ DeleteLine(p)
         \/ call[p].at = "update" /\ Rewrite(p)
         \/ call[p].at = "mark" /\ MarkVoid(p)
  PROVE  CreditInv'
<1>1. /\ UNCHANGED <<issues, entryOf, settled, applied, paid, control, manual, cut>>
      /\ call[p].at # "credit"
  BY DEF Create, InsertLine, DeleteLine, Rewrite, MarkVoid, Idle, At
<1>2. /\ \A r \in Proc : r # p => call'[r] = call[r]
      /\ ShapedCalls' /\ Sound(call[p])'
  <2>1. CASE \E d \in Doc : Create(p, d)
    <3>1. call' = call /\ call[p] = Idle /\ Idle.at = "idle"
      BY <2>1 DEF Create, Idle, At
    <3>2. ShapedCalls'
      BY <3>1, StepShaped DEF CreditInv, Shape
    <3> QED
      BY <3>1, <3>2 DEF Sound, Paying
  <2>2. CASE Return(p)
    BY <2>2, Returns, ReturnsShaped DEF CreditInv, Sound, Paying
  <2> QED
    BY <2>1, <2>2 DEF InsertLine, DeleteLine, Rewrite, MarkVoid
<1>3. /\ lines' \in [Doc -> Seq(Line)] /\ DOMAIN lines' = Doc
      /\ \A e \in Doc : lines'[e] \in Seq([amount : LineAmount, kept : BOOLEAN])
  <2>1. CASE lines' = lines
    BY <2>1 DEF CreditInv, Shape, TypeOK
  <2>2. CASE (call[p].at = "add" /\ InsertLine(p)) \/ (call[p].at = "remove" /\ DeleteLine(p))
    <3>1. call[p].doc \in Doc /\ (call[p].at = "add" => call[p].arg \in LineAmount)
      BY <2>2 DEF CreditInv, Shape, Sound
    <3> QED
      BY <2>2, <3>1, LinesTyped DEF CreditInv
  <2> QED
    BY <2>1, <2>2 DEF Create, Rewrite, MarkVoid
<1>4. status' \in [Doc -> Status] /\ reworded' \subseteq Doc
  <2>1. status \in [Doc -> Status] /\ reworded \subseteq Doc /\ (call[p].at = "update" => call[p].doc \in Doc)
    BY DEF CreditInv, Shape, TypeOK
  <2> QED
    BY <2>1 DEF Create, InsertLine, DeleteLine, Rewrite, MarkVoid, Status
<1>5. Shape'
  <2>1. TypeOK'
    BY <1>1, <1>2, <1>3, <1>4 DEF CreditInv, Shape, TypeOK, ShapedCalls
  <2> QED
    BY <1>2, <1>3, <2>1 DEF Shape, ShapedCalls
<1>6. \A r \in Proc : Sound(call[r])'
  BY <1>1, <1>2, WriteStaysSound DEF Available, AtLeastZero
<1> QED
  BY <1>1, <1>5, <1>6 DEF CreditInv, CreditNeverNegative

\* Nor do entries, of an issue, a void or by hand.
LEMMA EntriesKeepCredit ==
  ASSUME CreditInv, CreditApart, NEW p \in Proc,
         Posts(p) \/ VoidReverse(p) \/ \E q \in Pool, a \in ManualAmount : ManualPost(p, q, a)
  PROVE  CreditInv'
<1> DEFINE L == Len(issues)
<1>1. /\ UNCHANGED <<lines, reworded, settled, applied, paid, cut>> /\ call[p].at # "credit"
  BY DEF Posts, PostDocument, VoidReverse, ManualPost, Idle, At
<1>2. /\ issues \in Seq(Issued) /\ L \in Nat /\ DOMAIN issues = 1 .. L
      /\ status \in [Doc -> Status] /\ entryOf \in [Doc -> 0 .. L]
      /\ control \in [Pool -> Int] /\ manual \in [Pool -> Int] /\ call \in [Proc -> Calls]
  BY LenProperties DEF CreditInv, Shape, TypeOK, Issued
<1>3. ASSUME /\ issues' \in Seq(Issued) /\ status' \in [Doc -> Status] /\ entryOf' \in [Doc -> 0 .. Len(issues')]
             /\ control' \in [Pool -> Int] /\ manual' \in [Pool -> Int]
             /\ DOMAIN issues \subseteq DOMAIN issues' /\ ShapedCalls'
             /\ (\A r \in Proc : r # p => call'[r] = call[r]) /\ Sound(call[p])'
      PROVE  CreditInv'
  <2>1. TypeOK'
    BY <1>1, <1>3 DEF CreditInv, Shape, TypeOK, ShapedCalls, Issued
  <2>2. Shape'
    BY <1>1, <1>3, <2>1 DEF CreditInv, Shape, ShapedCalls
  <2>3. \A r \in Proc : Sound(call[r])'
    BY <1>1, <1>3, WriteStaysSound DEF Available, AtLeastZero
  <2> QED
    BY <1>1, <2>2, <2>3 DEF CreditInv, CreditNeverNegative
<1> DEFINE d == call[p].doc
<1>4. CASE Posts(p)
  <2>1. PICK leg \in {call[p].seen, -call[p].seen} : PostDocument(p, leg)
    BY <1>4 DEF Posts
  <2> DEFINE e == [doc |-> d, leg |-> leg, reversed |-> 0]
  <2>2. /\ control' = [control EXCEPT ![PoolOf[d]] = @ + leg] /\ issues' = Append(issues, e)
        /\ status' = [status EXCEPT ![d] = "OPEN"] /\ entryOf' = [entryOf EXCEPT ![d] = L + 1]
        /\ Return(p) /\ manual' = manual
    BY <2>1 DEF PostDocument
  <2>3. d \in Doc /\ leg \in Int /\ e \in Issued
    BY <1>4 DEF Posts, CreditInv, Shape, Calls, Issued
  <2> HIDE DEF d, e
  <2>4. issues' \in Seq(Issued) /\ Len(issues') = L + 1
    BY <1>2, <2>2, <2>3, AppendProperties
  <2> HIDE DEF L
  <2>5. /\ DOMAIN issues' = 1 .. L + 1 /\ DOMAIN issues \subseteq DOMAIN issues'
        /\ entryOf' \in [Doc -> 0 .. L + 1]
    <3>1. DOMAIN issues' = 1 .. L + 1
      BY <2>4, LenProperties
    <3> QED
      BY <1>2, <2>2, <2>3, <3>1
  <2>6. control' \in [Pool -> Int] /\ status' \in [Doc -> Status]
    <3>1. control[PoolOf[d]] + leg \in Int
      BY <1>2, <2>3, PoolFacts
    <3>2. control' \in [Pool -> Int]
      BY <1>2, <2>2, <3>1
    <3>3. "OPEN" \in Status
      BY DEF Status
    <3> QED
      BY <1>2, <2>2, <3>2, <3>3
  <2>7. ShapedCalls' /\ (\A r \in Proc : r # p => call'[r] = call[r]) /\ Sound(call[p])'
    BY <2>2, Returns, ReturnsShaped DEF CreditInv, Sound, Paying
  <2> QED
    BY <1>2, <1>3, <2>2, <2>4, <2>5, <2>6, <2>7
<1>5. CASE VoidReverse(p)
  <2> DEFINE i == call[p].seen
             c == [call[p] EXCEPT !.at = "mark", !.seen = i]
  <2>1. /\ call[p].at = "reverse" /\ control' = [control EXCEPT ![PoolOf[d]] = @ - issues[i].leg]
        /\ issues' = [issues EXCEPT ![i].reversed = @ + 1] /\ call' = [call EXCEPT ![p] = c]
        /\ UNCHANGED <<status, entryOf, manual, cut>>
    BY <1>2, <1>5 DEF VoidReverse, Goto
  <2>2. i \in DOMAIN issues /\ d \in Doc /\ call[p] \in Calls
    BY <2>1 DEF CreditInv, Shape, Sound
  <2>3. /\ issues' \in Seq(Issued) /\ Len(issues') = L /\ DOMAIN issues' = DOMAIN issues
        /\ issues[i].leg \in Int
    BY <2>1, <2>2, ReversedTyped DEF CreditInv
  <2>4. c \in Calls /\ c.at = "mark" /\ c.doc = d
    BY <2>2 DEF Calls, Stage
  <2> HIDE DEF c, L, i
  <2>5. control' \in [Pool -> Int]
    <3>1. control[PoolOf[d]] - issues[i].leg \in Int
      BY <1>2, <2>2, <2>3, PoolFacts
    <3> QED
      BY <1>2, <2>1, <3>1
  <2>6. call' \in [Proc -> Calls] /\ call'[p] = c /\ \A r \in Proc : r # p => call'[r] = call[r]
    BY <1>2, <2>1, <2>4
  <2>7. ShapedCalls' /\ Sound(call[p])'
    BY <2>2, <2>4, <2>6, StepShaped DEF CreditInv, Sound, Paying
  <2> QED
    BY <1>2, <1>3, <2>1, <2>3, <2>5, <2>6, <2>7
<1>6. CASE \E q \in Pool, a \in ManualAmount : ManualPost(p, q, a)
  <2>1. PICK q \in Pool, a \in ManualAmount : ManualPost(p, q, a)
    BY <1>6
  <2>2. /\ control' = [control EXCEPT ![q] = @ + a] /\ manual' = [manual EXCEPT ![q] = @ + a]
        /\ call[p] = Idle /\ UNCHANGED <<status, issues, entryOf, cut, call>>
    BY <2>1 DEF ManualPost
  <2>3. control' \in [Pool -> Int] /\ manual' \in [Pool -> Int]
    BY <1>2, <2>2, AmountAssumption
  <2>4. ShapedCalls' /\ Sound(call[p])'
    <3>1. call' = call /\ Idle.at = "idle"
      BY <2>2 DEF Idle, At
    <3>2. ShapedCalls'
      BY <3>1, StepShaped DEF CreditInv, Shape
    <3> QED
      BY <2>2, <3>1, <3>2 DEF Sound, Paying
  <2> QED
    BY <1>2, <1>3, <2>2, <2>3, <2>4
<1> QED
  BY <1>4, <1>5, <1>6

\* A payment allocates no more than it brings, and a credit what it has found.
LEMMA AllocationsKeepCredit ==
  ASSUME CreditInv, CreditApart, NEW p \in Proc, Pay(p) \/ Credit(p)
  PROVE  CreditInv'
<1> PICK d, q, x : d = call[p].doc /\ q = PoolOf[d] /\ x = (IF Pay(p) THEN call[p].seen ELSE call[p].arg)
  OBVIOUS
<1>1. /\ settled \in [Doc -> Nat] /\ applied \in [Pool -> Nat] /\ paid \in [Pool -> Nat]
      /\ control \in [Pool -> Int] /\ status \in [Doc -> Status]
      /\ \A r \in Pool : applied[r] <= paid[r]
  BY DEF CreditInv, Shape, TypeOK, CreditNeverNegative
<1>2. d \in Doc /\ q \in Pool /\ call[p].at \in {"pay", "credit"} /\ call[p].arg \in PayAmount
  BY PoolFacts DEF Pay, Credit, CreditInv, Shape, Sound, Paying
<1>3. call[p].arg \in Nat
  BY <1>2, AmountAssumption
<1>4. /\ Allocate(d, x) /\ Return(p) /\ UNCHANGED <<lines, reworded, issues, entryOf, manual, cut>>
      /\ call[p].at = "credit" => ~Pay(p)
  BY DEF Pay, Credit
<1>5. /\ x \in Nat /\ paid' \in [Pool -> Nat] /\ control' \in [Pool -> Int]
      /\ \A r \in Pool : r # q => paid'[r] = paid[r]
      /\ applied[q] + x <= paid'[q]
      /\ call[p].at = "pay" => paid[q] + x <= paid'[q]
  <2>1. CASE Pay(p)
    <3>1. /\ call[p].at = "pay" /\ x \in 0 .. call[p].arg
          /\ paid' = [paid EXCEPT ![q] = @ + call[p].arg]
          /\ control' = [control EXCEPT ![q] = @ + PaymentLeg(d, call[p].arg)]
      BY <2>1 DEF Pay, CreditInv, Sound
    <3>2. PaymentLeg(d, call[p].arg) \in Int
      BY <1>3 DEF PaymentLeg
    <3> QED
      BY <1>1, <1>2, <1>3, <3>1, <3>2
  <2>2. CASE ~Pay(p)
    <3>1. Credit(p) /\ call[p].at = "credit" /\ x = call[p].arg /\ UNCHANGED <<paid, control>>
      BY <2>2 DEF Credit
    <3>2. x <= AtLeastZero(paid[q] - applied[q]) /\ x > 0
      BY <1>2, <3>1, AmountAssumption DEF CreditInv, Sound, Available
    <3> QED
      BY <1>1, <1>2, <1>3, <3>1, <3>2 DEF AtLeastZero
  <2> QED
    BY <2>1, <2>2
<1>6. /\ settled' \in [Doc -> Nat] /\ applied' \in [Pool -> Nat] /\ status' \in [Doc -> Status]
      /\ applied'[q] = applied[q] + x /\ \A r \in Pool : r # q => applied'[r] = applied[r]
  <2>1. /\ settled' = [settled EXCEPT ![d] = @ + x] /\ applied' = [applied EXCEPT ![q] = @ + x]
        /\ status' = [status EXCEPT ![d] = Recomputed(d, settled[d] + x)]
    BY <1>4 DEF Allocate
  <2>2. Recomputed(d, settled[d] + x) \in Status
    BY DEF Recomputed, Status
  <2> QED
    BY <1>1, <1>2, <1>5, <2>1, <2>2
<1>7. ShapedCalls' /\ (\A r \in Proc : r # p => call'[r] = call[r]) /\ Sound(call[p])'
  BY <1>4, Returns, ReturnsShaped DEF CreditInv, Sound, Paying
<1>8. Shape'
  <2>1. TypeOK'
    BY <1>4, <1>5, <1>6, <1>7 DEF CreditInv, Shape, TypeOK, ShapedCalls
  <2> QED
    BY <1>4, <1>7, <2>1 DEF CreditInv, Shape, ShapedCalls
<1>9. ASSUME NEW r \in Pool
      PROVE  /\ applied'[r] <= paid'[r]
             /\ ~(call[p].at = "credit" /\ r = q) => paid[r] - applied[r] <= paid'[r] - applied'[r]
  BY <1>1, <1>2, <1>5, <1>6
<1>10. ASSUME NEW r \in Pool, NEW a \in PayAmount, a <= Available(r), ~(call[p].at = "credit" /\ r = q)
       PROVE  a <= Available(r)'
  <2>1. /\ applied[r] \in Nat /\ paid[r] \in Nat /\ applied'[r] \in Nat /\ paid'[r] \in Nat
        /\ paid[r] - applied[r] <= paid'[r] - applied'[r]
    BY <1>1, <1>5, <1>6, <1>9, <1>10
  <2>2. Available(r) = AtLeastZero(paid[r] - applied[r]) /\ Available(r)' = AtLeastZero(paid'[r] - applied'[r])
    BY DEF Available, AtLeastZero
  <2>3. a \in Nat
    BY AmountAssumption
  <2> QED
    BY <1>10, <2>1, <2>2, <2>3 DEF AtLeastZero
<1>11. \A r \in Proc : Sound(call[r])'
  BY <1>4, <1>7, <1>10, WriteStaysSound
<1> QED
  BY <1>8, <1>9, <1>11 DEF CreditInv, CreditNeverNegative

\* So credit is never overspent while calls that use it are kept apart.
LEMMA CreditKeeps ==
  ASSUME CreditInv, CreditApart, [Next]_vars
  PROVE  CreditInv'
<1>1. CASE Next
  <2>1. PICK p \in Proc : Looks(p) \/ Writes(p)
    BY <1>1, NextCases DEF CreditInv
  <2> QED
    BY <2>1, LooksKeepCredit, PaperKeepsCredit, EntriesKeepCredit, AllocationsKeepCredit,
       FailKeepsCredit DEF Writes, Lapses
<1>2. CASE UNCHANGED vars
  <2>1. UNCHANGED <<status, lines, reworded, issues, entryOf, settled, applied, paid, control, manual, cut, call>>
    BY <1>2 DEF vars, books, rows
  <2>2. Shape'
    BY <2>1 DEF CreditInv, Shape, TypeOK
  <2> QED
    BY <2>1, <2>2 DEF CreditInv, Sound, Available, CreditNeverNegative
<1> QED
  BY <1>1, <1>2

\* A new book has no credit.
LEMMA InitCredit ==
  ASSUME Init
  PROVE  CreditInv
<1>1. Shape
  BY InitInv DEF IndInv
<1>2. /\ applied = [q \in Pool |-> 0] /\ paid = [q \in Pool |-> 0]
      /\ \A p \in Proc : call[p].at = "idle"
  BY DEF Init, Idle, At
<1> QED
  BY <1>1, <1>2 DEF CreditInv, CreditNeverNegative, Sound, Paying
-----------------------------------------------------------------------------
(* Documents: their status says what was settled, and their entry is       *)
(* reversed when they are void                                             *)

\* A document is half voided when a void of it is between its writes.
LEMMA HalfMoves ==
  ASSUME Shape, DocumentsApart, NEW p \in Proc, call[p].at # "idle",
         \A r \in Proc : r # p => call'[r] = call[r],
         call'[p].at = "mark" => call'[p].doc = call[p].doc
  PROVE  \A e \in Doc :
           IF e = call[p].doc THEN /\ HalfVoided(e) <=> call[p].at = "mark"
                                   /\ HalfVoided(e)' <=> call'[p].at = "mark"
                              ELSE HalfVoided(e)' <=> HalfVoided(e)
<1> TAKE e \in Doc
<1>1. CASE e = call[p].doc
  <2>1. \A r \in Proc : r # p => call[r].at # "mark" \/ call[r].doc # e
    BY <1>1 DEF DocumentsApart
  <2> QED
    BY <1>1, <2>1 DEF HalfVoided
<1>2. CASE e # call[p].doc
  <2>1. \A r \in Proc : (call'[r].at = "mark" /\ call'[r].doc = e) <=> (call[r].at = "mark" /\ call[r].doc = e)
    BY <1>2
  <2> QED
    BY <1>2, <2>1 DEF HalfVoided
<1> QED
  BY <1>1, <1>2

\* When the call returns, its document is half voided no more.
LEMMA HalfAfter ==
  ASSUME Shape, DocumentsApart, NEW p \in Proc, call[p].at # "idle", Return(p)
  PROVE  \A e \in Doc :
           IF e = call[p].doc THEN (HalfVoided(e) <=> call[p].at = "mark") /\ ~HalfVoided(e)'
                              ELSE HalfVoided(e)' <=> HalfVoided(e)
<1>1. call'[p].at = "idle" /\ \A r \in Proc : r # p => call'[r] = call[r]
  BY Returns
<1> QED
  BY <1>1, HalfMoves

\* How often the entry of a document is to stand reversed.
Times(d) == Undone(d) + (IF status[d] = "VOID" THEN 1 ELSE 0)

\* It is a number, and that of a document no void touched stays what it is.
LEMMA UndoneType ==
  ASSUME Shape, NEW d \in Doc
  PROVE  Undone(d) \in Nat /\ Times(d) \in Nat
BY DEF Undone, Times, Shape, TypeOK
LEMMA SameUndone ==
  ASSUME NEW d \in Doc, cut'[d] = cut[d], HalfVoided(d)' <=> HalfVoided(d)
  PROVE  Undone(d)' = Undone(d)
BY DEF Undone

\* A void that ends between its writes leaves the reversal, and is counted for it.
LEMMA LapseFacts ==
  ASSUME IndInv, DocumentsApart, NEW p \in Proc, Lapses(p), NEW d, d = call[p].doc
  PROVE  /\ d \in Doc /\ status[d] = "OPEN" /\ HalfVoided(d) /\ ~HalfVoided(d)'
         /\ \A e \in Doc : Undone(e)' = Undone(e) /\ (e # d => (HalfVoided(e)' <=> HalfVoided(e)))
         /\ UNCHANGED <<status, lines, reworded, issues, entryOf, settled, applied, paid, control, manual>>
<1>1. /\ call[p].at = "mark" /\ Return(p) /\ cut' = [cut EXCEPT ![d] = @ + 1] /\ cut \in [Doc -> Nat]
      /\ UNCHANGED <<status, lines, reworded, issues, entryOf, settled, applied, paid, control, manual>>
  BY DEF Lapses, Fail, rows, IndInv, Shape, TypeOK
<1>2. d \in Doc /\ status[d] = "OPEN"
  BY <1>1 DEF IndInv, Shape, StillSo, Fresh
<1>3. \A e \in Doc : IF e = d THEN HalfVoided(e) /\ ~HalfVoided(e)' ELSE HalfVoided(e)' <=> HalfVoided(e)
  BY <1>1, HalfAfter DEF IndInv
<1>4. ASSUME NEW e \in Doc
      PROVE  Undone(e)' = Undone(e)
  <2>1. CASE e = d
    <3>1. cut'[e] = cut[e] + 1 /\ cut[e] \in Nat /\ HalfVoided(e) /\ ~HalfVoided(e)'
      BY <1>1, <1>3, <2>1
    <3> QED
      BY <3>1 DEF Undone
  <2>2. CASE e # d
    BY <1>1, <1>3, <2>2, SameUndone
  <2> QED
    BY <2>1, <2>2
<1> QED
  BY <1>1, <1>2, <1>3, <1>4

\* A step that only looks writes nothing, and no void starts or ends its writes.
LEMMA LooksFacts ==
  ASSUME IndInv, NEW p \in Proc, Looks(p)
  PROVE  UNCHANGED books /\ \A d \in Doc : HalfVoided(d)' <=> HalfVoided(d)
<1>1. call \in [Proc -> Calls] /\ (call[p].at # "idle" \/ call[p] = Idle)
  BY DEF IndInv, Shape
<1>2. UNCHANGED books /\ call[p].at # "mark" /\ call'[p].at # "mark"
  <2>0. Idle.at = "idle"
    BY DEF Idle, At
  <2>1. ASSUME NEW d, NEW w \in {"update", "gather", "add", "remove"}, NEW a, EditDraft(p, w, d, a)
        PROVE  UNCHANGED books /\ call[p].at # "mark" /\ call'[p].at # "mark"
    BY <1>1, <2>0, <2>1 DEF EditDraft, Start, At
  <2>2. ASSUME NEW d, NEW w \in {"size", "remaining"}, NEW a, PayableCheck(p, w, d, a)
        PROVE  UNCHANGED books /\ call[p].at # "mark" /\ call'[p].at # "mark"
    BY <1>1, <2>0, <2>2 DEF PayableCheck, Start, At
  <2>3. ASSUME NEW d, NEW row, VoidCheck(p, d, row)
        PROVE  UNCHANGED books /\ call[p].at # "mark" /\ call'[p].at # "mark"
    BY <1>1, <2>0, <2>3 DEF VoidCheck, Start, At
  <2>4. ASSUME NEW w \in {"issue", "pay", "available", "credit"}, NEW v, Goto(p, w, v)
        PROVE  call'[p].at # "mark"
    BY <1>1, <2>4 DEF Goto, Calls
  <2>5. CASE (call[p].at = "gather" /\ Gather(p)) \/ PaySize(p) \/ CreditRemaining(p) \/ CreditAvailable(p)
    BY <2>4, <2>5 DEF Gather, PaySize, CreditRemaining, CreditAvailable
  <2>6. CASE call[p].at # "mark" /\ Fail(p)
    BY <1>1, <2>0, <2>6 DEF Fail, Return, books
  <2> QED
    BY <2>1, <2>2, <2>3, <2>5, <2>6 DEF Looks
<1>3. \A r \in Proc : r # p => call'[r] = call[r]
  BY <1>1 DEF Looks, EditDraft, PayableCheck, VoidCheck, Start, Gather, PaySize, CreditRemaining,
     CreditAvailable, Goto, Fail, Return
<1>4. \A r \in Proc : IF r = p THEN call[r].at # "mark" /\ call'[r].at # "mark" ELSE call'[r] = call[r]
  BY <1>2, <1>3
<1>5. ASSUME NEW d \in Doc
      PROVE  HalfVoided(d)' <=> HalfVoided(d)
  <2>1. \A r \in Proc : (call'[r].at = "mark" /\ call'[r].doc = d) <=> (call[r].at = "mark" /\ call[r].doc = d)
    BY <1>4
  <2> QED
    BY <2>1 DEF HalfVoided
<1> QED
  BY <1>2, <1>5

\* Every write leaves a document's status saying what was settled of it.
LEMMA MatchKeeps ==
  ASSUME IndInv, StatusMatchesMoney, NEW p \in Proc, Writes(p)
  PROVE  StatusMatchesMoney'
<1>1. status \in [Doc -> Status] /\ settled \in [Doc -> Nat] /\ \A e \in Doc : Total(e) \in Int
  BY TotalType DEF IndInv, Shape, TypeOK
<1>2. ASSUME UNCHANGED <<status, settled, lines>>
      PROVE  StatusMatchesMoney'
  <2>1. \A e \in Doc : Total(e)' = Total(e)
    BY <1>2, TotalKept
  <2> QED
    BY <1>2, <2>1 DEF StatusMatchesMoney
<1>3. ASSUME NEW d \in Doc, settled[d] = 0, settled' = settled,
             status'[d] \in {"DRAFT", "OPEN", "VOID"},
             \A e \in Doc : e # d => status'[e] = status[e] /\ lines'[e] = lines[e]
      PROVE  StatusMatchesMoney'
  <2>1. \A e \in Doc : e # d => Total(e)' = Total(e)
    BY <1>3, TotalKept
  <2> QED
    BY <1>3, <2>1 DEF StatusMatchesMoney
<1>4. \A e \in Doc : status[e] \in {"ABSENT", "DRAFT", "OPEN"} => settled[e] = 0
  BY DEF StatusMatchesMoney
<1>5. CASE \E d \in Doc : Create(p, d)
  <2>1. PICK d \in Doc : Create(p, d)
    BY <1>5
  <2> QED
    BY <1>1, <1>3, <1>4, <2>1 DEF Create
<1>6. CASE (call[p].at = "add" /\ InsertLine(p)) \/ (call[p].at = "remove" /\ DeleteLine(p))
  <2>1. call[p].doc \in Doc /\ status[call[p].doc] = "DRAFT"
    BY <1>6 DEF IndInv, Shape, StillSo, Fresh, Editing
  <2>2. \A e \in Doc : e # call[p].doc => lines'[e] = lines[e]
    BY <1>6 DEF InsertLine, DeleteLine, IndInv, Shape
  <2>3. UNCHANGED <<status, settled>>
    BY <1>6 DEF InsertLine, DeleteLine
  <2> QED
    BY <1>3, <1>4, <2>1, <2>2, <2>3
<1>7. CASE (call[p].at = "update" /\ Rewrite(p)) \/ VoidReverse(p)
           \/ (\E q \in Pool, a \in ManualAmount : ManualPost(p, q, a))
  BY <1>2, <1>7 DEF Rewrite, VoidReverse, ManualPost
<1>11. CASE Lapses(p)
  BY <1>2, <1>11 DEF Lapses, Fail, rows
<1>8. CASE Posts(p)
  <2>1. call[p].doc \in Doc /\ status[call[p].doc] = "DRAFT"
    BY <1>8 DEF Posts, IndInv, Shape, StillSo, Fresh, Editing
  <2>2. /\ status' = [status EXCEPT ![call[p].doc] = "OPEN"] /\ UNCHANGED <<settled, lines>>
    BY <1>8 DEF Posts, PostDocument
  <2> QED
    BY <1>1, <1>3, <1>4, <2>1, <2>2
<1>9. CASE call[p].at = "mark" /\ MarkVoid(p)
  <2>1. call[p].doc \in Doc /\ status[call[p].doc] = "OPEN"
    BY <1>9 DEF IndInv, Shape, StillSo, Fresh
  <2>2. /\ status' = [status EXCEPT ![call[p].doc] = "VOID"] /\ UNCHANGED <<settled, lines>>
    BY <1>9 DEF MarkVoid
  <2> QED
    BY <1>1, <1>3, <1>4, <2>1, <2>2
<1>10. ASSUME NEW d, NEW x, Settles(p, d, x)
       PROVE  StatusMatchesMoney'
  <2>1. /\ d \in Doc /\ status[d] \in Payable /\ x \in Nat /\ x <= AtLeastZero(Remaining(d))
        /\ x = 0 => Remaining(d) <= 0
        /\ settled' = [settled EXCEPT ![d] = @ + x]
        /\ status' = [status EXCEPT ![d] = Recomputed(d, settled[d] + x)]
        /\ UNCHANGED lines
    BY <1>10 DEF Settles, Allocate
  <2>2. \A e \in Doc : Total(e)' = Total(e)
    BY <2>1, TotalKept
  <2>3. /\ settled'[d] = settled[d] + x
        /\ status'[d] = IF settled[d] + x >= Total(d) THEN "PAID" ELSE "PARTIAL"
        /\ \A e \in Doc : e # d => settled'[e] = settled[e] /\ status'[e] = status[e]
    BY <1>1, <2>1 DEF Recomputed
  <2> DEFINE T == Total(d)
             s == settled[d]
  <2>4. /\ T \in Int /\ s \in Nat /\ x \in Nat /\ (s = 0 \/ (0 < s /\ s < T))
        /\ x <= AtLeastZero(T - s) /\ (x = 0 => T - s <= 0)
    BY <1>1, <2>1 DEF StatusMatchesMoney, Payable, Remaining
  <2>7. status'[d] = (IF s + x >= T THEN "PAID" ELSE "PARTIAL") /\ settled'[d] = s + x /\ Total(d)' = T
    BY <2>1, <2>2, <2>3
  <2>8. ASSUME NEW e \in Doc, e # d
        PROVE  CASE status'[e] = "PARTIAL" -> 0 < settled'[e] /\ settled'[e] < Total(e)'
                 [] status'[e] = "PAID"    -> settled'[e] = AtLeastZero(Total(e)')
                 [] OTHER                  -> settled'[e] = 0
    BY <2>2, <2>3, <2>8 DEF StatusMatchesMoney
  <2>5. CASE s + x >= T
    <3> HIDE DEF T, s
    <3>1. s + x = AtLeastZero(T)
      BY <2>4, <2>5 DEF AtLeastZero
    <3>2. status'[d] = "PAID" /\ settled'[d] = AtLeastZero(Total(d)')
      BY <2>5, <2>7, <3>1
    <3> QED
      BY <2>8, <3>2 DEF StatusMatchesMoney, AtLeastZero
  <2>6. CASE ~(s + x >= T)
    <3> HIDE DEF T, s
    <3>1. 0 < s + x /\ s + x < T
      BY <2>4, <2>6 DEF AtLeastZero
    <3>2. status'[d] = "PARTIAL" /\ 0 < settled'[d] /\ settled'[d] < Total(d)'
      BY <2>6, <2>7, <3>1
    <3> QED
      BY <2>8, <3>2 DEF StatusMatchesMoney, AtLeastZero
  <2> QED
    BY <2>5, <2>6
<1> QED
  BY <1>5, <1>6, <1>7, <1>8, <1>9, <1>10, <1>11, PaySettles, CreditSettles DEF Writes

\* A document that was not issued had no void.
Uncut == \A d \in Doc : status[d] \in {"ABSENT", "DRAFT"} => cut[d] = 0

\* Every write leaves each document posted once, and reversed as its voids did.
LEMMA PostedKeeps ==
  ASSUME IndInv, PostedOnce, Uncut, DocumentsApart, NEW p \in Proc, Writes(p)
  PROVE  PostedOnce'
<1>1. /\ call \in [Proc -> Calls]
      /\ issues \in Seq(Issued) /\ DOMAIN issues = 1 .. Len(issues) /\ Len(issues) \in Nat
      /\ status \in [Doc -> Status] /\ entryOf \in [Doc -> 0 .. Len(issues)]
      /\ \A i \in DOMAIN issues : issues[i] \in Issued /\ issues[i].doc \in Doc
  <2>1. issues \in Seq(Issued)
    BY DEF IndInv, Shape, TypeOK, Issued
  <2>2. \A i \in 1 .. Len(issues) : issues[i] \in Issued
    BY <2>1, ElementOfSeq
  <2>3. DOMAIN issues = 1 .. Len(issues) /\ Len(issues) \in Nat
    BY <2>1, LenProperties
  <2> QED
    BY <2>1, <2>2, <2>3 DEF IndInv, Shape, TypeOK, Issued
<1>2. ASSUME Return(p), call[p].at # "idle"
      PROVE  \A e \in Doc :
               IF e = call[p].doc THEN (HalfVoided(e) <=> call[p].at = "mark") /\ ~HalfVoided(e)'
                                  ELSE HalfVoided(e)' <=> HalfVoided(e)
  BY <1>2, HalfAfter DEF IndInv
\* entries and voids as they were
<1>5. ASSUME UNCHANGED <<issues, entryOf>>,
             \A d \in Doc : Times(d)' = Times(d)
      PROVE  PostedOnce'
  <2> SUFFICES ASSUME NEW i \in DOMAIN issues, NEW d \in Doc, d = issues[i].doc
               PROVE  entryOf[d] = i /\ issues[i].reversed = Times(d)'
    BY <1>1, <1>5 DEF PostedOnce, Times, Undone, HalfVoided
  <2> QED
    BY <1>5 DEF PostedOnce, Times
\* a write that is no void's leaves the voids as they were
<1>3. ASSUME UNCHANGED cut, \A e \in Doc : HalfVoided(e)' <=> HalfVoided(e),
             \A e \in Doc : status'[e] = "VOID" <=> status[e] = "VOID"
      PROVE  \A e \in Doc : Times(e)' = Times(e)
  BY <1>3, SameUndone DEF Times
<1>6. CASE (\E d \in Doc : Create(p, d)) \/ (\E q \in Pool, a \in ManualAmount : ManualPost(p, q, a))
  <2>1. UNCHANGED <<issues, entryOf, call, cut>>
    BY <1>6 DEF Create, ManualPost
  <2>2. \A d \in Doc : status'[d] = "VOID" <=> status[d] = "VOID"
    BY <1>1, <1>6 DEF Create, ManualPost
  <2>3. \A d \in Doc : HalfVoided(d)' <=> HalfVoided(d)
    BY <2>1 DEF HalfVoided
  <2> QED
    BY <1>3, <1>5, <2>1, <2>2, <2>3
<1>7. CASE (call[p].at = "add" /\ InsertLine(p)) \/ (call[p].at = "remove" /\ DeleteLine(p))
           \/ (call[p].at = "update" /\ Rewrite(p))
  <2>1. UNCHANGED <<issues, entryOf, status, cut>> /\ Return(p) /\ call[p].at \notin {"idle", "mark"}
    BY <1>7 DEF InsertLine, DeleteLine, Rewrite
  <2>2. \A e \in Doc : HalfVoided(e)' <=> HalfVoided(e)
    BY <1>2, <2>1
  <2> QED
    BY <1>3, <1>5, <2>1, <2>2
<1>8. ASSUME NEW d, NEW x, Settles(p, d, x)
      PROVE  PostedOnce'
  <2>1. /\ d \in Doc /\ status[d] \in Payable /\ call[p].at \in {"pay", "credit"} /\ Return(p)
        /\ UNCHANGED <<issues, entryOf, cut>>
        /\ status' = [status EXCEPT ![d] = Recomputed(d, settled[d] + x)]
    BY <1>8 DEF Settles, Allocate
  <2>2. \A e \in Doc : HalfVoided(e)' <=> HalfVoided(e)
    BY <1>2, <2>1
  <2>3. \A e \in Doc : status'[e] = "VOID" <=> status[e] = "VOID"
    BY <1>1, <2>1 DEF Recomputed, Payable
  <2> QED
    BY <1>3, <1>5, <2>1, <2>2, <2>3
<1> DEFINE d == call[p].doc
<1>9. CASE call[p].at = "mark" /\ MarkVoid(p)
  <2>1. d \in Doc /\ status[d] = "OPEN" /\ UNCHANGED <<issues, entryOf, cut>> /\ Return(p)
        /\ status' = [status EXCEPT ![d] = "VOID"] /\ cut \in [Doc -> Nat]
    BY <1>9 DEF MarkVoid, IndInv, Shape, TypeOK, StillSo, Fresh
  <2>2. \A e \in Doc : IF e = d THEN HalfVoided(e) /\ ~HalfVoided(e)' ELSE HalfVoided(e)' <=> HalfVoided(e)
    BY <1>2, <1>9, <2>1
  <2> HIDE DEF d
  <2>3. \A e \in Doc : Times(e)' = Times(e)
    BY <1>1, <2>1, <2>2 DEF Times, Undone
  <2> QED
    BY <1>5, <2>1, <2>3
<1>12. CASE Lapses(p)
  BY <1>5, <1>12, LapseFacts DEF Times
<1>10. CASE VoidReverse(p)
  <2> DEFINE i == call[p].seen
  <2>1. /\ call[p].at = "reverse" /\ issues' = [issues EXCEPT ![i].reversed = @ + 1]
        /\ call' = [call EXCEPT ![p] = [@ EXCEPT !.at = "mark", !.seen = i]]
        /\ UNCHANGED <<status, entryOf, cut>> /\ cut \in [Doc -> Nat]
    BY <1>10 DEF VoidReverse, Goto, IndInv, Shape, TypeOK
  <2>2. d \in Doc /\ status[d] = "OPEN" /\ i = entryOf[d] /\ i \in DOMAIN issues /\ issues[i].doc = d
    BY <2>1 DEF IndInv, Shape, StillSo, Fresh, EntryOfTotal
  <2>3. \A e \in Doc : IF e = d THEN ~HalfVoided(e) /\ HalfVoided(e)' ELSE HalfVoided(e)' <=> HalfVoided(e)
    <3>1. call'[p].at = "mark" /\ call'[p].doc = d /\ \A r \in Proc : r # p => call'[r] = call[r]
      BY <1>1, <2>1 DEF Calls
    <3> QED
      BY <2>1, <3>1, HalfMoves DEF IndInv
  <2> HIDE DEF d, i
  <2>4. /\ DOMAIN issues' = DOMAIN issues
        /\ \A j \in DOMAIN issues : issues'[j].doc = issues[j].doc
        /\ issues'[i].reversed = issues[i].reversed + 1
        /\ \A j \in DOMAIN issues : j # i => issues'[j] = issues[j]
    BY <1>1, <2>1, <2>2 DEF Issued
  <2>5. \A j \in DOMAIN issues : entryOf[issues[j].doc] = j
    BY DEF PostedOnce
  <2>6. \A e \in Doc : Times(e)' = Times(e) + (IF e = d THEN 1 ELSE 0)
    BY <2>1, <2>2, <2>3, UndoneType DEF Times, Undone, IndInv
  <2>7. ASSUME NEW j \in DOMAIN issues, NEW e \in Doc, e = issues[j].doc
        PROVE  entryOf'[e] = j /\ issues'[j].reversed = Times(e)'
    <3>1. issues[j].reversed = Times(e) /\ entryOf[e] = j
      BY <2>7 DEF PostedOnce, Times
    <3>2. Times(e) \in Nat /\ (j = i <=> e = d)
      BY <2>2, <2>5, <2>7, UndoneType DEF IndInv
    <3>3. CASE j = i
      BY <2>1, <2>4, <2>6, <3>1, <3>2, <3>3
    <3>4. CASE j # i
      <4>1. issues'[j] = issues[j] /\ Times(e)' = Times(e)
        BY <2>4, <2>6, <3>2, <3>4
      <4> QED
        BY <2>1, <3>1, <4>1
    <3> QED
      BY <3>3, <3>4
  <2>8. ASSUME NEW j \in DOMAIN issues'
        PROVE  /\ entryOf'[issues'[j].doc] = j
               /\ issues'[j].reversed = Times(issues[j].doc)'
    <3>1. j \in DOMAIN issues /\ issues'[j].doc = issues[j].doc
      BY <2>4
    <3>2. PICK e \in Doc : e = issues[j].doc
      BY <1>1, <3>1
    <3>3. \A b \in Doc : b = issues'[j].doc => Times(b)' = Times(issues[j].doc)'
      BY DEF Times, Undone, HalfVoided
    <3> QED
      BY <2>7, <3>1, <3>2, <3>3
  <2> QED
    BY <2>8 DEF PostedOnce, Times
<1>11. CASE Posts(p)
  <2> DEFINE L == Len(issues)
  <2>1. PICK leg : PostDocument(p, leg)
    BY <1>11 DEF Posts
  <2> DEFINE e == [doc |-> d, leg |-> leg, reversed |-> 0]
  <2>2. /\ d \in Doc /\ status[d] = "DRAFT" /\ entryOf[d] = 0 /\ call[p].at = "issue"
    BY <1>11 DEF Posts, IndInv, Shape, StillSo, Fresh, Editing, EntryOfTotal
  <2>3. /\ issues' = Append(issues, e) /\ status' = [status EXCEPT ![d] = "OPEN"]
        /\ entryOf' = [entryOf EXCEPT ![d] = L + 1] /\ Return(p) /\ UNCHANGED cut
    BY <2>1 DEF PostDocument
  <2>4. \A g \in Doc : IF g = d THEN ~HalfVoided(g)' ELSE HalfVoided(g)' <=> HalfVoided(g)
    BY <1>2, <2>2, <2>3
  <2>5. e.doc = d /\ e.reversed = 0
    OBVIOUS
  <2>6. /\ DOMAIN issues' = 1 .. L + 1 /\ \A i \in 1 .. L : issues'[i] = issues[i]
        /\ issues'[L + 1] = e
    <3> HIDE DEF e
    <3>1. DOMAIN issues' = 1 .. L + 1
      BY <1>1, <2>3
    <3> QED
      BY <1>1, <2>3, <3>1
  <2> HIDE DEF d, e, L
  <2>7. PICK k \in Nat : k = L + 1
    BY <1>1 DEF L
  <2>8. \A j \in 1 .. L : issues[j].doc # d /\ entryOf[issues[j].doc] = j /\ issues[j].doc \in Doc
                         /\ j # 0
    BY <1>1, <2>2 DEF PostedOnce, L
  <2>9. \A g \in Doc : Times(g)' = IF g = d THEN 0 ELSE Times(g)
    <3>1. cut[d] = 0
      BY <2>2 DEF Uncut
    <3>2. \A g \in Doc : status'[g] = IF g = d THEN "OPEN" ELSE status[g]
      BY <1>1, <2>2, <2>3
    <3> QED
      BY <2>2, <2>3, <2>4, <3>1, <3>2 DEF Times, Undone
  <2>10. ASSUME NEW j \in DOMAIN issues'
         PROVE  /\ entryOf'[issues'[j].doc] = j
                /\ issues'[j].reversed = Times(issues[j].doc)'
    <3>1. \A g \in Doc : g = issues'[j].doc => Times(g)' = Times(issues[j].doc)'
      BY DEF Times, Undone, HalfVoided
    <3>2. CASE j = k
      <4>1. issues'[j].doc = d /\ issues'[j].reversed = 0 /\ entryOf'[d] = j
        BY <1>1, <2>2, <2>3, <2>5, <2>6, <2>7, <3>2 DEF L
      <4> QED
        BY <2>2, <2>9, <3>1, <4>1
    <3>3. CASE j # k
      <4>1. j \in 1 .. L /\ j \in DOMAIN issues
        BY <1>1, <2>6, <2>7, <3>3 DEF L
      <4>2. issues'[j] = issues[j] /\ entryOf'[issues[j].doc] = j
        BY <1>1, <2>2, <2>3, <2>6, <2>8, <4>1
      <4>3. PICK g \in Doc : g = issues[j].doc /\ g # d
        BY <2>8, <4>1
      <4>4. issues[j].reversed = Times(g)
        <5>1. \A b \in Doc : b = issues[j].doc => Times(b) = Times(issues[j].doc)
          BY DEF Times, Undone, HalfVoided
        <5>2. issues[j].reversed = Times(issues[j].doc)
          BY <4>1 DEF PostedOnce, Times
        <5> QED
          BY <4>3, <5>1, <5>2
      <4>5. Times(g)' = Times(g)
        BY <2>9, <4>3
      <4> QED
        BY <3>1, <4>2, <4>3, <4>4, <4>5
    <3> QED
      BY <3>2, <3>3
  <2> QED
    BY <2>10 DEF PostedOnce, Times
<1> QED
  BY <1>6, <1>7, <1>8, <1>9, <1>10, <1>11, <1>12, PaySettles, CreditSettles DEF Writes
-----------------------------------------------------------------------------
(* D26: the control account, the documents and the credit agree *)

\* What document d counts for in its pool: what is not settled of it, a negative
\* total that was forgiven too, less its total for each reversal too many.
Standing == Payable \cup {"PAID"}
Worth(d) == (IF status[d] \in Standing THEN Remaining(d) ELSE 0)
            - (IF Undone(d) = 0 THEN 0 ELSE Undone(d) * Total(d))

\* What the documents of a pool count for, and D26 for all of them.
WorthOf(q) == [d \in Doc |-> IF PoolOf[d] = q THEN Worth(d) ELSE 0]
Reconciled == \A q \in Pool : Balance(q) = SumFunction(WorthOf(q)) - (paid[q] - applied[q])

\* Each reversal more takes the total off once more.
LEMMA UndoneMore ==
  ASSUME NEW k \in Nat, NEW x \in Int
  PROVE  /\ (IF k = 0 THEN 0 ELSE k * x) = k * x /\ k * x \in Int
         /\ (k + 1) * x = k * x + x
OBVIOUS

\* These are integers, and so is their sum over a pool.
LEMMA WorthType ==
  ASSUME Shape, NEW q
  PROVE  /\ \A d \in Doc : Worth(d) \in Int /\ WorthOf(q)[d] \in Int
         /\ DOMAIN WorthOf(q) = Doc /\ SumFunction(WorthOf(q)) \in Int
<1>1. \A d \in Doc : Worth(d) \in Int
  BY TotalType, UndoneType, UndoneMore DEF Worth
<1>2. DOMAIN WorthOf(q) = Doc /\ \A d \in Doc : WorthOf(q)[d] \in Int
  BY <1>1 DEF WorthOf
<1>3. SumFunction(WorthOf(q)) \in Int
  BY <1>2, SumType, DocAssumption
<1> QED
  BY <1>1, <1>2, <1>3

\* When one document counts for x more, so does its pool.
LEMMA WorthMoves ==
  ASSUME Shape, NEW d \in Doc, NEW x \in Int, Worth(d)' = Worth(d) + x,
         \A e \in Doc : e # d => Worth(e)' = Worth(e),
         NEW q
  PROVE  SumFunction(WorthOf(q))' = SumFunction(WorthOf(q)) + (IF PoolOf[d] = q THEN x ELSE 0)
<1> DEFINE f == WorthOf(q)
           g == [e \in Doc |-> IF PoolOf[e] = q THEN Worth(e)' ELSE 0]
<1>1. WorthOf(q)' = g
  BY DEF WorthOf
<1>2. /\ DOMAIN f = Doc /\ DOMAIN g = Doc
      /\ \A e \in Doc : f[e] \in Int /\ g[e] \in Int /\ (e # d => f[e] = g[e])
      /\ g[d] = f[d] + (IF PoolOf[d] = q THEN x ELSE 0)
  <2>1. \A e \in Doc : Worth(e) \in Int /\ Worth(e)' \in Int
    BY WorthType
  <2> QED
    BY <2>1 DEF WorthOf
<1>3. SumFunction(f) \in Int
  BY WorthType
<1> HIDE DEF f, g
<1>4. SumFunction(g) - SumFunction(f) = g[d] - f[d]
  BY <1>2, SumDiffers, DocAssumption
<1>5. SumFunction(g) \in Int
  BY <1>2, SumType, DocAssumption
<1>6. SumFunction(g) = SumFunction(f) + (IF PoolOf[d] = q THEN x ELSE 0)
  BY <1>2, <1>3, <1>4, <1>5
<1> QED
  BY <1>1, <1>6 DEF f

\* A document nothing was done to counts for what it did.
LEMMA SameWorth ==
  ASSUME NEW d \in Doc, status'[d] = status[d], settled'[d] = settled[d], lines'[d] = lines[d],
         Undone(d)' = Undone(d)
  PROVE  Worth(d)' = Worth(d)
<1>1. Total(d)' = Total(d)
  BY TotalKept
<1> QED
  BY <1>1 DEF Worth, Remaining

\* What each write does to the documents, the balances and the credit: document
\* d, if any, counts for x more.
Moves(d, x) ==
  /\ d \in Doc /\ x \in Int /\ Worth(d)' = Worth(d) + x
  /\ \A e \in Doc : e # d => Worth(e)' = Worth(e)
  /\ \A q \in Pool : /\ Balance(q)' \in Int /\ paid'[q] \in Nat /\ applied'[q] \in Nat
                     /\ Balance(q)' - (paid[q] - applied[q]) =
                          Balance(q) - (paid'[q] - applied'[q]) + (IF PoolOf[d] = q THEN x ELSE 0)
Rests ==
  /\ \A e \in Doc : Worth(e)' = Worth(e)
  /\ \A q \in Pool : Balance(q)' = Balance(q) /\ UNCHANGED <<paid[q], applied[q]>>

\* The sums kept for a pool are integers.
LEMMA PoolTypes ==
  ASSUME Shape, NEW q \in Pool
  PROVE  control[q] \in Int /\ manual[q] \in Int /\ Balance(q) \in Int /\ paid[q] \in Nat /\ applied[q] \in Nat
BY DEF Shape, TypeOK, Balance, CounterpartyBalance, Owed

\* D26 survives a move of one document.
LEMMA MovesReconcile ==
  ASSUME Shape, Reconciled, NEW d, NEW x, Moves(d, x)
  PROVE  Reconciled'
<1> SUFFICES ASSUME NEW q \in Pool
             PROVE  Balance(q)' = SumFunction(WorthOf(q))' - (paid'[q] - applied'[q])
  BY DEF Reconciled
<1> DEFINE s == SumFunction(WorthOf(q))
           t == SumFunction(WorthOf(q))'
           y == IF PoolOf[d] = q THEN x ELSE 0
           b == Balance(q)
           c == Balance(q)'
<1>1. t = s + y /\ y \in Int
  BY WorthMoves DEF Moves
<1>2. s \in Int
  BY WorthType
<1>3. paid[q] \in Nat /\ applied[q] \in Nat /\ b \in Int /\ b = s - (paid[q] - applied[q])
  BY PoolTypes DEF Reconciled
<1>4. /\ c \in Int /\ paid'[q] \in Nat /\ applied'[q] \in Nat
      /\ c - (paid[q] - applied[q]) = b - (paid'[q] - applied'[q]) + y
  BY DEF Moves
<1> HIDE DEF s, t, y, b, c
<1>5. c = t - (paid'[q] - applied'[q])
  BY <1>1, <1>2, <1>3, <1>4
<1> QED
  BY <1>5 DEF c, t

\* D26 survives a write that moves no document, balance or credit.
LEMMA RestsReconcile ==
  ASSUME Reconciled, Rests
  PROVE  Reconciled'
<1>1. \A q \in Pool : WorthOf(q)' = WorthOf(q)
  BY DEF Rests, WorthOf
<1> QED
  BY <1>1 DEF Reconciled, Rests

\* Issuing a document of total x: it owes x, and so does its counterparty.
LEMMA PostMoves ==
  ASSUME IndInv, StatusMatchesMoney, DocumentsApart, NEW p \in Proc, Posts(p), NEW d, d = call[p].doc
  PROVE  LET x == Total(d)
         IN  /\ Moves(d, x) /\ entryOf[d] = 0 /\ ~HalfVoided(d)'
             /\ \A e \in Doc : Total(e)' = Total(e) /\ (e # d => (HalfVoided(e)' <=> HalfVoided(e)))
             /\ \A q \in Pool : Balance(q)' = Balance(q) + (IF q = PoolOf[d] THEN x ELSE 0)
             /\ UNCHANGED <<paid, applied>>
<1> DEFINE x == Total(d)
           r == PoolOf[d]
<1>1. PICK leg \in {call[p].seen, -call[p].seen} : Owed(r, leg) = call[p].seen /\ PostDocument(p, leg)
  BY DEF Posts
<1>2. /\ d \in Doc /\ status[d] = "DRAFT" /\ entryOf[d] = 0 /\ call[p].seen = x /\ Kept(d) # {}
      /\ call[p].at = "issue"
  BY DEF Posts, IndInv, Shape, StillSo, Fresh, Editing, EntryOfTotal
<1>3. x \in Int /\ leg \in Int /\ Owed(r, leg) = x /\ settled[d] = 0 /\ r \in Pool
  <2>1. x \in Int
    BY <1>2, TotalType DEF IndInv
  <2>2. settled[d] = 0 /\ r \in Pool
    BY <1>2, PoolFacts DEF StatusMatchesMoney
  <2> QED
    BY <1>1, <1>2, <2>1, <2>2
<1>4. /\ control' = [control EXCEPT ![r] = @ + leg] /\ status' = [status EXCEPT ![d] = "OPEN"]
      /\ Return(p) /\ UNCHANGED <<lines, reworded, settled, applied, paid, manual, cut>>
  BY <1>1 DEF PostDocument
<1>5. /\ status \in [Doc -> Status] /\ control \in [Pool -> Int] /\ manual \in [Pool -> Int]
      /\ paid \in [Pool -> Nat] /\ applied \in [Pool -> Nat]
  BY DEF IndInv, Shape, TypeOK
<1>6. \A e \in Doc : /\ Total(e)' = Total(e)
                     /\ IF e = d THEN ~HalfVoided(e) /\ ~HalfVoided(e)' ELSE HalfVoided(e)' <=> HalfVoided(e)
  BY <1>2, <1>4, HalfAfter, TotalKept DEF IndInv
<1>7. \A e \in Doc : Undone(e)' = Undone(e) /\ (e # d => Worth(e)' = Worth(e))
  BY <1>4, <1>5, <1>6, SameUndone, SameWorth
<1>8. Worth(d)' = Worth(d) + x
  <2> DEFINE u == IF Undone(d) = 0 THEN 0 ELSE Undone(d) * x
             t == Total(d)'
  <2>1. status'[d] = "OPEN" /\ settled'[d] = 0 /\ t = x
    BY <1>2, <1>3, <1>4, <1>5, <1>6
  <2>2. u \in Int
    BY <1>2, <1>3, UndoneType, UndoneMore DEF IndInv
  <2>3. Worth(d) = 0 - u
    BY <1>2 DEF Worth, Standing, Payable
  <2>4. Worth(d)' = (t - settled'[d]) - u
    BY <1>2, <1>7, <2>1 DEF Worth, Standing, Payable, Remaining
  <2> HIDE DEF u, t, x
  <2> QED
    BY <1>3, <2>1, <2>2, <2>3, <2>4
<1> HIDE DEF x, r
<1>9. ASSUME NEW q \in Pool
      PROVE  Balance(q)' = Balance(q) + (IF q = r THEN x ELSE 0) /\ Balance(q) \in Int
  <2>1. control'[q] = (IF q = r THEN control[q] + leg ELSE control[q]) /\ control[q] \in Int /\ manual[q] \in Int
    BY <1>3, <1>4, <1>5
  <2>2. Balance(q)' = Owed(q, control'[q] - manual[q])
    BY <1>4 DEF Balance, CounterpartyBalance, Owed
  <2> QED
    BY <1>3, <2>1, <2>2 DEF Balance, CounterpartyBalance, Owed
<1>10. Moves(d, x)
  <2>1. Worth(d)' = Worth(d) + x
    BY <1>8
  <2>2. \A q \in Pool : /\ Balance(q)' \in Int /\ paid'[q] \in Nat /\ applied'[q] \in Nat
                        /\ Balance(q)' - (paid[q] - applied[q]) =
                             Balance(q) - (paid'[q] - applied'[q]) + (IF r = q THEN x ELSE 0)
    <3> SUFFICES ASSUME NEW q \in Pool
                 PROVE  /\ Balance(q)' \in Int /\ paid'[q] \in Nat /\ applied'[q] \in Nat
                        /\ Balance(q)' - (paid[q] - applied[q]) =
                             Balance(q) - (paid'[q] - applied'[q]) + (IF r = q THEN x ELSE 0)
      OBVIOUS
    <3> DEFINE b == Balance(q)
               c == Balance(q)'
    <3>1. c = b + (IF q = r THEN x ELSE 0) /\ b \in Int
      BY <1>9
    <3> HIDE DEF b, c
    <3>2. /\ c \in Int /\ paid'[q] = paid[q] /\ applied'[q] = applied[q] /\ paid[q] \in Nat
          /\ applied[q] \in Nat
      BY <1>3, <1>4, <1>5, <3>1
    <3>3. c - (paid[q] - applied[q]) = b - (paid'[q] - applied'[q]) + (IF r = q THEN x ELSE 0)
      BY <1>3, <3>1, <3>2
    <3> QED
      BY <3>2, <3>3 DEF b, c
  <2> QED
    BY <1>2, <1>3, <1>7, <2>1, <2>2 DEF Moves, r
<1> QED
  BY <1>2, <1>4, <1>6, <1>9, <1>10 DEF x, r

\* Cash or credit of which x settles document d: it counts for x less.  The
\* pool's cash moves its balance, its allocations do not.
LEMMA SettleMoves ==
  ASSUME IndInv, StatusMatchesMoney, DocumentsApart, NEW p \in Proc, NEW d, NEW x, Settles(p, d, x)
  PROVE  /\ Moves(d, -x) /\ d \in Doc /\ entryOf[d] # 0
         /\ \A e \in Doc : /\ Total(e)' = Total(e)
                           /\ IF e = d THEN ~HalfVoided(e) /\ ~HalfVoided(e)' ELSE HalfVoided(e)' <=> HalfVoided(e)
         /\ \A q \in Pool : Balance(q)' + paid'[q] = Balance(q) + paid[q]
         /\ \A q \in Pool : applied'[q] = applied[q] + (IF q = PoolOf[d] THEN x ELSE 0)
<1> DEFINE r == PoolOf[d]
           R == Remaining(d)
<1>1. /\ d \in Doc /\ status[d] \in Payable /\ x \in Nat /\ x <= AtLeastZero(R)
      /\ d = call[p].doc /\ call[p].at \in {"pay", "credit"}
      /\ settled' = [settled EXCEPT ![d] = @ + x] /\ applied' = [applied EXCEPT ![r] = @ + x]
      /\ status' = [status EXCEPT ![d] = Recomputed(d, settled[d] + x)] /\ Return(p)
      /\ paid' \in [Pool -> Nat] /\ control' \in [Pool -> Int]
      /\ \A q \in Pool : Owed(q, control'[q]) + paid'[q] = Owed(q, control[q]) + paid[q]
      /\ UNCHANGED <<lines, reworded, issues, entryOf, manual, cut>>
  BY DEF Settles, Allocate
<1>2. /\ status \in [Doc -> Status] /\ control \in [Pool -> Int] /\ manual \in [Pool -> Int]
      /\ paid \in [Pool -> Nat] /\ applied \in [Pool -> Nat] /\ settled \in [Doc -> Nat] /\ r \in Pool
  BY <1>1, PoolFacts DEF IndInv, Shape, TypeOK
<1>3. \A e \in Doc : /\ Total(e)' = Total(e)
                     /\ IF e = d THEN ~HalfVoided(e) /\ ~HalfVoided(e)' ELSE HalfVoided(e)' <=> HalfVoided(e)
  BY <1>1, HalfAfter, TotalKept DEF IndInv
<1>4. \A e \in Doc : Undone(e)' = Undone(e) /\ (e # d => Worth(e)' = Worth(e))
  BY <1>1, <1>2, <1>3, SameUndone, SameWorth
<1> HIDE DEF r
<1>7. Worth(d)' = Worth(d) - x /\ Worth(d) \in Int
  <2> DEFINE t == Total(d)
             v == Total(d)'
             u == IF Undone(d) = 0 THEN 0 ELSE Undone(d) * t
  <2>1. t \in Int /\ v = t /\ u \in Int /\ settled[d] \in Nat
    BY <1>1, <1>2, <1>3, TotalType, UndoneType, UndoneMore DEF IndInv
  <2>2. settled'[d] = settled[d] + x /\ status'[d] \in Standing /\ status[d] \in Standing
    BY <1>1, <1>2 DEF Recomputed, Standing, Payable
  <2>3. Worth(d) = (t - settled[d]) - u
    BY <2>2 DEF Worth, Remaining
  <2>4. Worth(d)' = (v - settled'[d]) - u
    BY <1>1, <1>4, <2>1, <2>2 DEF Worth, Remaining
  <2> HIDE DEF t, u, v
  <2> QED
    BY <1>1, <2>1, <2>2, <2>3, <2>4
<1>8. ASSUME NEW q \in Pool
      PROVE  /\ Balance(q)' + paid'[q] = Balance(q) + paid[q] /\ Balance(q)' \in Int
             /\ applied'[q] = applied[q] + (IF q = r THEN x ELSE 0)
  <2>1. Balance(q)' = Owed(q, control'[q] - manual[q])
    BY <1>1 DEF Balance, CounterpartyBalance, Owed
  <2>2. control'[q] \in Int /\ control[q] \in Int /\ manual[q] \in Int /\ paid[q] \in Nat /\ paid'[q] \in Nat
        /\ Owed(q, control'[q]) + paid'[q] = Owed(q, control[q]) + paid[q]
    BY <1>1, <1>2
  <2>3. applied'[q] = applied[q] + (IF q = r THEN x ELSE 0)
    BY <1>1, <1>2
  <2> QED
    BY <2>1, <2>2, <2>3 DEF Balance, CounterpartyBalance, Owed
<1>9. ASSUME NEW q \in Pool
      PROVE  /\ Balance(q)' \in Int /\ paid'[q] \in Nat /\ applied'[q] \in Nat
             /\ Balance(q)' - (paid[q] - applied[q]) =
                  Balance(q) - (paid'[q] - applied'[q]) + (IF r = q THEN -x ELSE 0)
  <2> DEFINE b == Balance(q)
             c == Balance(q)'
  <2>1. c + paid'[q] = b + paid[q] /\ c \in Int /\ b \in Int
    BY <1>8, PoolTypes DEF IndInv
  <2>2. applied'[q] = applied[q] + (IF q = r THEN x ELSE 0) /\ applied[q] \in Nat /\ paid[q] \in Nat /\ paid'[q] \in Nat
    BY <1>1, <1>2, <1>8
  <2> HIDE DEF b, c
  <2>3. c - (paid[q] - applied[q]) = b - (paid'[q] - applied'[q]) + (IF r = q THEN -x ELSE 0)
    BY <1>1, <2>1, <2>2
  <2>4. applied'[q] \in Nat
    BY <1>1, <2>2
  <2> QED
    BY <2>1, <2>2, <2>3, <2>4 DEF b, c
<1>10. Moves(d, -x)
  <2>1. Worth(d)' = Worth(d) + (-x) /\ -x \in Int
    BY <1>1, <1>7
  <2> QED
    BY <1>1, <1>4, <1>9, <2>1 DEF Moves, r
<1>11. entryOf[d] # 0
  <2>1. entryOf[d] \in DOMAIN issues
    BY <1>1 DEF IndInv, EntryOfTotal, Payable
  <2> QED
    BY <2>1, LenProperties DEF IndInv, Shape, TypeOK
<1> QED
  BY <1>1, <1>3, <1>8, <1>10, <1>11 DEF r

\* The reversing entry of a void takes the total off.
LEMMA CancelMoves ==
  ASSUME IndInv, StatusMatchesMoney, DocumentsApart, NEW p \in Proc, VoidReverse(p), NEW d, d = call[p].doc
  PROVE  LET x == Total(d)
         IN  /\ Moves(d, -x) /\ d \in Doc /\ status[d] = "OPEN" /\ settled[d] = 0
             /\ \A e \in Doc : /\ Total(e)' = Total(e)
                               /\ IF e = d THEN ~HalfVoided(e) /\ HalfVoided(e)'
                                           ELSE HalfVoided(e)' <=> HalfVoided(e)
             /\ entryOf[d] # 0 /\ Owed(PoolOf[d], issues[entryOf[d]].leg) = x
             /\ \A q \in Pool : Balance(q)' = Balance(q) - (IF q = PoolOf[d] THEN x ELSE 0)
             /\ UNCHANGED <<paid, applied, entryOf>>
             /\ \A i \in DOMAIN issues : issues'[i].leg = issues[i].leg
<1> DEFINE i == call[p].seen
           x == Total(d)
           r == PoolOf[d]
           leg == issues[i].leg
<1>1. /\ call[p].at = "reverse" /\ control' = [control EXCEPT ![r] = @ - leg]
      /\ issues' = [issues EXCEPT ![i].reversed = @ + 1]
      /\ call' = [call EXCEPT ![p] = [@ EXCEPT !.at = "mark", !.seen = i]]
      /\ UNCHANGED <<status, lines, reworded, entryOf, settled, applied, paid, manual, cut>>
  BY DEF VoidReverse, Goto
<1>2. /\ d \in Doc /\ status[d] = "OPEN" /\ i = entryOf[d] /\ call[p] \in Calls /\ r \in Pool
      /\ i \in DOMAIN issues /\ Owed(r, leg) = x /\ settled[d] = 0
  BY <1>1, PoolFacts DEF IndInv, Shape, StillSo, Fresh, EntryOfTotal, StatusMatchesMoney
<1>3. issues \in Seq(Issued) /\ DOMAIN issues = 1 .. Len(issues) /\ Len(issues) \in Nat
  BY LenProperties DEF IndInv, Shape, TypeOK, Issued
<1>4. \A j \in DOMAIN issues : issues[j] \in Issued
  BY <1>3, ElementOfSeq
<1>5. i # 0 /\ leg \in Int /\ x \in Int /\ \A j \in DOMAIN issues : issues'[j].leg = issues[j].leg
  <2>1. \A j \in DOMAIN issues : issues'[j].leg = issues[j].leg
    BY <1>1, <1>2, <1>4 DEF Issued
  <2>2. x \in Int
    BY <1>2, TotalType DEF IndInv
  <2>3. leg \in Int
    BY <1>2, <1>4 DEF Issued
  <2>4. i # 0
    BY <1>2, <1>3
  <2> QED
    BY <2>1, <2>2, <2>3, <2>4
<1>6. /\ status \in [Doc -> Status] /\ control \in [Pool -> Int] /\ manual \in [Pool -> Int]
      /\ paid \in [Pool -> Nat] /\ applied \in [Pool -> Nat]
  BY DEF IndInv, Shape, TypeOK
<1>7. /\ \A e \in Doc : Total(e)' = Total(e)
      /\ call'[p].at = "mark" /\ call'[p].doc = d /\ \A q \in Proc : q # p => call'[q] = call[q]
  BY <1>1, <1>2, TotalKept DEF IndInv, Shape, Calls
<1>8. \A e \in Doc : IF e = d THEN ~HalfVoided(e) /\ HalfVoided(e)' ELSE HalfVoided(e)' <=> HalfVoided(e)
  BY <1>1, <1>7, HalfMoves DEF IndInv
<1>9. \A e \in Doc : /\ Undone(e)' = Undone(e) + (IF e = d THEN 1 ELSE 0)
                     /\ e # d => Worth(e)' = Worth(e)
  <2>1. cut \in [Doc -> Nat]
    BY DEF IndInv, Shape, TypeOK
  <2>2. \A e \in Doc : Undone(e)' = Undone(e) + (IF e = d THEN 1 ELSE 0)
    BY <1>1, <1>8, <2>1 DEF Undone
  <2>3. \A e \in Doc : e # d => Undone(e)' = Undone(e)
    BY <2>2, UndoneType DEF IndInv
  <2> QED
    BY <1>1, <2>2, <2>3, SameWorth
<1>10. Worth(d)' = Worth(d) - x /\ Worth(d) \in Int
  <2> DEFINE k == Undone(d)
             m == Undone(d)'
             y == Total(d)'
  <2>1. k \in Nat /\ m = k + 1 /\ y = x /\ settled[d] \in Nat
    BY <1>2, <1>7, <1>9, UndoneType DEF IndInv
  <2>2. status[d] \in Standing
    BY <1>2 DEF Standing, Payable
  <2>3. Worth(d) = (x - settled[d]) - (IF k = 0 THEN 0 ELSE k * x)
    BY <2>2 DEF Worth, Remaining
  <2>4. Worth(d)' = (y - settled[d]) - (IF m = 0 THEN 0 ELSE m * y)
    BY <1>1, <2>2 DEF Worth, Remaining
  <2> HIDE DEF k, m, x, y
  <2>5. k * x \in Int /\ (k + 1) * x = k * x + x /\ (IF k = 0 THEN 0 ELSE k * x) = k * x
    BY <1>5, <2>1, UndoneMore
  <2>6. Worth(d)' = (x - settled[d]) - (k + 1) * x
    BY <2>1, <2>4
  <2> QED
    BY <1>5, <2>1, <2>3, <2>5, <2>6
<1> HIDE DEF x, r, i, leg
<1>11. ASSUME NEW q \in Pool
      PROVE  Balance(q)' = Balance(q) - (IF q = r THEN x ELSE 0) /\ Balance(q) \in Int
  <2>1. control'[q] = (IF q = r THEN control[q] - leg ELSE control[q]) /\ control[q] \in Int /\ manual[q] \in Int
    BY <1>2, <1>1, <1>5, <1>6
  <2>2. Balance(q)' = Owed(q, control'[q] - manual[q])
    BY <1>1 DEF Balance, CounterpartyBalance, Owed
  <2> QED
    BY <1>2, <1>5, <2>1, <2>2 DEF Balance, CounterpartyBalance, Owed
<1>12. Moves(d, -x)
  <2>1. Worth(d)' = Worth(d) + (-x) /\ -x \in Int
    BY <1>5, <1>10
  <2>2. ASSUME NEW q \in Pool
        PROVE  /\ Balance(q)' \in Int /\ paid'[q] \in Nat /\ applied'[q] \in Nat
               /\ Balance(q)' - (paid[q] - applied[q]) =
                    Balance(q) - (paid'[q] - applied'[q]) + (IF r = q THEN -x ELSE 0)
    <3> DEFINE b == Balance(q)
               c == Balance(q)'
    <3>1. c = b - (IF q = r THEN x ELSE 0) /\ b \in Int
      BY <1>11
    <3> HIDE DEF b, c
    <3>2. /\ c \in Int /\ paid'[q] = paid[q] /\ applied'[q] = applied[q] /\ paid[q] \in Nat
          /\ applied[q] \in Nat
      BY <1>1, <1>5, <1>6, <3>1
    <3>3. c - (paid[q] - applied[q]) = b - (paid'[q] - applied'[q]) + (IF r = q THEN -x ELSE 0)
      BY <1>5, <3>1, <3>2
    <3> QED
      BY <3>2, <3>3 DEF b, c
  <2> QED
    BY <1>2, <1>9, <2>1, <2>2 DEF Moves, r
<1> QED
  BY <1>1, <1>2, <1>5, <1>7, <1>8, <1>11, <1>12 DEF x, r, i, leg

\* The other writes leave the money where it is.
LEMMA OthersRest ==
  ASSUME IndInv, StatusMatchesMoney, Uncut, DocumentsApart, NEW p \in Proc, Writes(p),
         ~Posts(p), ~Pay(p), ~Credit(p), ~VoidReverse(p)
  PROVE  Rests /\ UNCHANGED <<issues, entryOf, paid, applied>>
<1>1. /\ status \in [Doc -> Status] /\ settled \in [Doc -> Nat] /\ call \in [Proc -> Calls]
      /\ control \in [Pool -> Int] /\ manual \in [Pool -> Int]
  BY DEF IndInv, Shape, TypeOK
<1>2. ASSUME UNCHANGED <<paid, applied, control, manual>>, \A e \in Doc : Worth(e)' = Worth(e)
      PROVE  Rests
  BY <1>2 DEF Rests, Balance, CounterpartyBalance, Owed
\* a document that is not issued counts for nothing
<1>3. ASSUME NEW d \in Doc, status[d] \in {"ABSENT", "DRAFT"}, status'[d] = "DRAFT", UNCHANGED <<settled, cut>>,
             \A e \in Doc : e # d => status'[e] = status[e] /\ lines'[e] = lines[e],
             \A e \in Doc : HalfVoided(e)' <=> HalfVoided(e)
      PROVE  \A e \in Doc : Worth(e)' = Worth(e)
  <2>1. \A e \in Doc : Undone(e)' = Undone(e)
    BY <1>3, SameUndone
  <2>2. \A e \in Doc : e # d => Worth(e)' = Worth(e)
    BY <1>3, <2>1, SameWorth
  <2>3. ~HalfVoided(d)
    <3>1. \A r \in Proc : call[r].at = "mark" => status[call[r].doc] = "OPEN"
      BY DEF IndInv, StillSo, Fresh
    <3> QED
      BY <1>3, <3>1 DEF HalfVoided
  <2>4. Undone(d) = 0
    BY <1>3, <2>3 DEF Undone, Uncut
  <2>5. Worth(d) = 0 /\ Worth(d)' = 0
    BY <1>3, <2>1, <2>4 DEF Worth, Standing, Payable
  <2> QED
    BY <2>2, <2>5
<1>4. CASE \E d \in Doc : Create(p, d)
  <2>1. PICK d \in Doc : Create(p, d)
    BY <1>4
  <2>2. /\ status' = [status EXCEPT ![d] = "DRAFT"] /\ status[d] = "ABSENT"
        /\ UNCHANGED <<lines, issues, entryOf, settled, applied, paid, control, manual, cut, call>>
    BY <2>1 DEF Create
  <2>3. \A e \in Doc : HalfVoided(e)' <=> HalfVoided(e)
    BY <2>2 DEF HalfVoided
  <2>4. \A e \in Doc : status'[e] = IF e = d THEN "DRAFT" ELSE status[e]
    BY <1>1, <2>2
  <2> QED
    BY <1>2, <1>3, <2>2, <2>3, <2>4
<1>5. CASE (call[p].at = "add" /\ InsertLine(p)) \/ (call[p].at = "remove" /\ DeleteLine(p))
           \/ (call[p].at = "update" /\ Rewrite(p))
  <2> PICK d \in Doc : d = call[p].doc /\ status[d] = "DRAFT"
    BY <1>5 DEF IndInv, Shape, StillSo, Fresh, Editing
  <2>1. \A e \in Doc : e # d => lines'[e] = lines[e]
    BY <1>5 DEF InsertLine, DeleteLine, Rewrite, IndInv, Shape
  <2>2. UNCHANGED <<status, issues, entryOf, settled, applied, paid, control, manual, cut>> /\ Return(p)
    BY <1>5 DEF InsertLine, DeleteLine, Rewrite
  <2>3. \A e \in Doc : HalfVoided(e)' <=> HalfVoided(e)
    BY <1>5, <2>2, HalfAfter DEF IndInv
  <2> QED
    BY <1>2, <1>3, <2>1, <2>2, <2>3
<1>6. CASE call[p].at = "mark" /\ MarkVoid(p)
  <2> PICK d \in Doc : d = call[p].doc /\ status[d] = "OPEN"
    BY <1>6 DEF IndInv, Shape, StillSo, Fresh
  <2>1. /\ status' = [status EXCEPT ![d] = "VOID"] /\ Return(p)
        /\ UNCHANGED <<lines, issues, entryOf, settled, applied, paid, control, manual, cut>>
    BY <1>6 DEF MarkVoid
  <2>2. \A e \in Doc : IF e = d THEN HalfVoided(e) /\ ~HalfVoided(e)' ELSE HalfVoided(e)' <=> HalfVoided(e)
    BY <1>6, <2>1, HalfAfter DEF IndInv
  <2>3. \A e \in Doc : e # d => Worth(e)' = Worth(e)
    BY <1>1, <2>1, <2>2, SameUndone, SameWorth
  <2>4. Worth(d)' = Worth(d)
    <3> DEFINE k == Undone(d)'
               x == Total(d)
               y == Total(d)'
    <3>1. k \in Nat /\ Undone(d) = k + 1
      <4>1. cut[d] \in Nat
        BY DEF IndInv, Shape, TypeOK
      <4> QED
        BY <2>1, <2>2, <4>1 DEF Undone
    <3>2. x \in Int /\ y = x /\ settled[d] = 0
      BY <2>1, TotalType, TotalKept DEF IndInv, StatusMatchesMoney
    <3>3. Worth(d) = (x - settled[d]) - (IF k + 1 = 0 THEN 0 ELSE (k + 1) * x)
      <4>1. status[d] \in Standing
        BY DEF Standing, Payable
      <4> QED
        BY <3>1, <4>1 DEF Worth, Remaining
    <3>4. Worth(d)' = 0 - (IF k = 0 THEN 0 ELSE k * y)
      <4>1. status'[d] = "VOID"
        BY <1>1, <2>1
      <4> QED
        BY <4>1 DEF Worth, Standing, Payable
    <3> HIDE DEF k, x, y
    <3>5. k * x \in Int /\ (k + 1) * x = k * x + x /\ (IF k = 0 THEN 0 ELSE k * x) = k * x
      BY <3>1, <3>2, UndoneMore
    <3>6. Worth(d) = x - (k * x + x)
      BY <3>1, <3>2, <3>3, <3>5
    <3>7. Worth(d)' = 0 - k * x
      BY <3>2, <3>4, <3>5
    <3> QED
      BY <3>2, <3>5, <3>6, <3>7
  <2> QED
    BY <1>2, <2>1, <2>3, <2>4
<1>8. CASE Lapses(p)
  <2>1. /\ \A e \in Doc : Undone(e)' = Undone(e)
        /\ UNCHANGED <<status, lines, issues, entryOf, settled, applied, paid, control, manual>>
    BY <1>8, LapseFacts DEF IndInv
  <2> QED
    BY <1>2, <2>1, SameWorth
<1>7. CASE \E q \in Pool, a \in ManualAmount : ManualPost(p, q, a)
  <2>1. PICK q \in Pool, a \in ManualAmount : ManualPost(p, q, a)
    BY <1>7
  <2>2. /\ control' = [control EXCEPT ![q] = @ + a] /\ manual' = [manual EXCEPT ![q] = @ + a]
        /\ UNCHANGED <<status, lines, issues, entryOf, settled, applied, paid, cut, call>>
    BY <2>1 DEF ManualPost
  <2>3. \A e \in Doc : HalfVoided(e)' <=> HalfVoided(e)
    BY <2>2 DEF HalfVoided
  <2>4. \A e \in Doc : Worth(e)' = Worth(e)
    BY <2>2, <2>3, SameUndone, SameWorth
  <2>5. ASSUME NEW r \in Pool
        PROVE  Balance(r)' = Balance(r)
    <3>1. a \in Int
      BY AmountAssumption
    <3>2. control'[r] - manual'[r] = control[r] - manual[r]
      BY <1>1, <2>2, <3>1
    <3>3. Balance(r)' = Owed(r, control'[r] - manual'[r])
      BY DEF Balance, CounterpartyBalance, Owed
    <3> QED
      BY <3>2, <3>3 DEF Balance, CounterpartyBalance
  <2> QED
    BY <2>2, <2>4, <2>5 DEF Rests
<1> QED
  BY <1>4, <1>5, <1>6, <1>7, <1>8 DEF Writes

\* D26 survives every write.
LEMMA ReconcileKeeps ==
  ASSUME IndInv, StatusMatchesMoney, Uncut, Reconciled, DocumentsApart, NEW p \in Proc, Writes(p)
  PROVE  Reconciled'
<1>1. CASE Posts(p)
  BY <1>1, PostMoves, MovesReconcile DEF IndInv
<1>2. CASE VoidReverse(p)
  BY <1>2, CancelMoves, MovesReconcile DEF IndInv
<1>3. CASE Pay(p) \/ Credit(p)
  <2>1. PICK d, x : Settles(p, d, x)
    BY <1>3, PaySettles, CreditSettles
  <2> QED
    BY <2>1, SettleMoves, MovesReconcile DEF IndInv
<1>4. CASE ~Posts(p) /\ ~VoidReverse(p) /\ ~Pay(p) /\ ~Credit(p)
  BY <1>4, OthersRest, RestsReconcile
<1> QED
  BY <1>1, <1>2, <1>3, <1>4

\* A sum over a pool is one over all documents, those of other pools at zero.
LEMMA SumOverIs ==
  ASSUME NEW q, NEW f, \A d \in Doc : f[d] \in Int
  PROVE  SumOver(q, f) = Sum([d \in Doc |-> IF PoolOf[d] = q THEN f[d] ELSE 0], Doc)
<1> DEFINE docs == {e \in Doc : PoolOf[e] = q}
           g == [d \in docs |-> f[d]]
           h == [d \in Doc |-> IF d \in docs THEN g[d] ELSE 0]
<1>1. DOMAIN g = docs /\ docs \in SUBSET Doc /\ \A d \in docs : g[d] \in Int
  OBVIOUS
<1>2. SumOver(q, f) = SumFunction(g)
  BY DEF SumOver
<1>3. h = [d \in Doc |-> IF PoolOf[d] = q THEN f[d] ELSE 0]
  OBVIOUS
<1> HIDE DEF docs, g
<1>4. Sum(g, docs) = Sum(h, Doc)
  BY <1>1, SumOverMore, DocAssumption
<1>5. SumFunction(g) = Sum(g, docs)
  BY <1>1, SumIs
<1> HIDE DEF h
<1> QED
  BY <1>2, <1>3, <1>4, <1>5

\* What documents count for is what the aging report adds up, with the forgiven
\* totals and less the reversals too many.
LEMMA ReconciledBalances ==
  ASSUME IndInv, Reconciled, CreditNeverNegative
  PROVE  BalanceReconciles
<1> DEFINE gone == [d \in Doc |-> IF status[d] = "PAID" THEN Remaining(d) ELSE 0]
           undone == [d \in Doc |-> Undone(d) * Total(d)]
<1> SUFFICES ASSUME NEW q \in Pool
             PROVE  Balance(q) = Outstanding(q) - Available(q) + SumOver(q, gone) - SumOver(q, undone)
  BY DEF BalanceReconciles, Balance, CounterpartyBalance
<1> DEFINE docs == {d \in Doc : PoolOf[d] = q /\ status[d] \in Payable}
           f == [d \in docs |-> Remaining(d)]
           F == [d \in Doc |-> IF d \in docs THEN f[d] ELSE 0]
           G == [d \in Doc |-> IF PoolOf[d] = q THEN gone[d] ELSE 0]
           U == [d \in Doc |-> IF PoolOf[d] = q THEN undone[d] ELSE 0]
           K == [d \in Doc |-> F[d] + G[d]]
           W == WorthOf(q)
<1>1. \A d \in Doc : /\ Remaining(d) \in Int /\ Total(d) \in Int /\ Undone(d) \in Nat
                     /\ Undone(d) * Total(d) \in Int
                     /\ (IF Undone(d) = 0 THEN 0 ELSE Undone(d) * Total(d)) = Undone(d) * Total(d)
  BY TotalType, UndoneType, UndoneMore DEF IndInv
<1>2. \A d \in Doc : gone[d] \in Int /\ undone[d] \in Int
  BY <1>1
<1>3. \A d \in Doc : F[d] \in Int /\ G[d] \in Int /\ U[d] \in Int /\ K[d] \in Int /\ K[d] = F[d] + G[d]
  BY <1>1
<1>4. \A d \in Doc : W[d] \in Int /\ K[d] = W[d] + U[d]
  <2> SUFFICES ASSUME NEW d \in Doc
               PROVE  W[d] \in Int /\ K[d] = W[d] + U[d]
    OBVIOUS
  <2> DEFINE R == Remaining(d)
             u == Undone(d) * Total(d)
             stands == status[d] \in Payable \/ status[d] = "PAID"
  <2>1. R \in Int /\ u \in Int /\ (IF Undone(d) = 0 THEN 0 ELSE Undone(d) * Total(d)) = u
    BY <1>1
  <2>2. "PAID" \notin Payable
    BY DEF Payable
  <2>3. Worth(d) = (IF stands THEN R ELSE 0) - u
    BY <2>1 DEF Worth, Standing
  <2>4. W[d] = IF PoolOf[d] = q THEN Worth(d) ELSE 0
    BY DEF WorthOf
  <2>5. U[d] = IF PoolOf[d] = q THEN u ELSE 0
    OBVIOUS
  <2>6. K[d] = IF PoolOf[d] = q /\ stands THEN R ELSE 0
    <3>1. F[d] = IF PoolOf[d] = q /\ status[d] \in Payable THEN R ELSE 0
      OBVIOUS
    <3>2. G[d] = IF PoolOf[d] = q /\ status[d] = "PAID" THEN R ELSE 0
      OBVIOUS
    <3>3. K[d] = F[d] + G[d]
      OBVIOUS
    <3> HIDE DEF F, G, K, R
    <3> QED
      BY <2>1, <2>2, <3>1, <3>2, <3>3
  <2> HIDE DEF R, u, stands, W, U, K
  <2> QED
    BY <2>1, <2>3, <2>4, <2>5, <2>6
<1>5. DOMAIN f = docs /\ docs \in SUBSET Doc /\ \A d \in docs : f[d] \in Int
  BY <1>1
<1>6. Outstanding(q) = SumFunction(f)
  BY DEF Outstanding
<1>7. SumOver(q, gone) = Sum(G, Doc) /\ SumOver(q, undone) = Sum(U, Doc)
  <2> HIDE DEF gone, undone
  <2> QED
    BY <1>2, SumOverIs
<1> HIDE DEF docs, f
<1>8. Outstanding(q) = Sum(F, Doc)
  <2>1. Sum(f, docs) = Sum(F, Doc)
    BY <1>5, SumOverMore, DocAssumption
  <2> HIDE DEF F
  <2> QED
    BY <1>5, <1>6, <2>1, SumIs
<1> HIDE DEF gone, undone, F, G, U, K
<1>9. Sum(K, Doc) = Sum(F, Doc) + Sum(G, Doc)
  BY <1>3, SumPlus, DocAssumption
<1>10. Sum(F, Doc) \in Int /\ Sum(G, Doc) \in Int /\ Sum(U, Doc) \in Int
  BY <1>3, SumRemoves, DocAssumption
<1>11. DOMAIN W = Doc /\ SumFunction(W) \in Int
  BY WorthType DEF IndInv
<1>12. Balance(q) = SumFunction(W) - (paid[q] - applied[q])
  BY DEF Reconciled
<1> HIDE DEF W
<1>13. Sum(K, Doc) = Sum(W, Doc) + Sum(U, Doc)
  BY <1>3, <1>4, SumPlus, DocAssumption
<1>14. SumFunction(W) = Sum(W, Doc)
  BY <1>11, SumIs
<1>15. Available(q) = paid[q] - applied[q] /\ paid[q] \in Nat /\ applied[q] \in Nat
  BY PoolTypes DEF IndInv, CreditNeverNegative, Available, AtLeastZero
<1> QED
  BY <1>7, <1>8, <1>9, <1>10, <1>11, <1>12, <1>13, <1>14, <1>15
-----------------------------------------------------------------------------
(* The theorems *)

\* What IndInv needs beside itself for the documents and the balances.
Money == StatusMatchesMoney /\ PostedOnce /\ Uncut /\ Reconciled

\* An empty book is consistent.
LEMMA InitMoney ==
  ASSUME Init
  PROVE  Money
<1>1. /\ status = [d \in Doc |-> "ABSENT"] /\ issues = << >> /\ settled = [d \in Doc |-> 0]
      /\ applied = [q \in Pool |-> 0] /\ paid = [q \in Pool |-> 0]
      /\ control = [q \in Pool |-> 0] /\ manual = [q \in Pool |-> 0]
      /\ cut = [d \in Doc |-> 0] /\ call = [p \in Proc |-> Idle]
  BY DEF Init
<1>2. StatusMatchesMoney /\ Uncut
  BY <1>1 DEF StatusMatchesMoney, Uncut
<1>3. PostedOnce
  <2>1. DOMAIN issues = {}
    BY <1>1
  <2> QED
    BY <2>1 DEF PostedOnce
<1>4. ASSUME NEW q \in Pool
      PROVE  Balance(q) = SumFunction(WorthOf(q)) - (paid[q] - applied[q])
  <2> DEFINE f == WorthOf(q)
             g == [d \in Doc |-> IF d \in {} THEN f[d] ELSE 0]
  <2>1. \A d \in Doc : Worth(d) = 0
    <3>1. Idle.at # "mark"
      BY DEF Idle, At
    <3>2. \A d \in Doc : Undone(d) = 0 /\ status[d] \notin Standing
      BY <1>1, <3>1 DEF Undone, HalfVoided, Standing, Payable
    <3> QED
      BY <3>2 DEF Worth
  <2>2. f = g
    BY <2>1 DEF WorthOf
  <2>3. Sum(f, {}) = Sum(g, Doc) /\ Sum(f, {}) = 0
    BY SumOverMore, SumEmpty, DocAssumption
  <2>4. DOMAIN f = Doc
    BY DEF WorthOf
  <2>5. SumFunction(f) = 0
    BY <2>2, <2>3, <2>4, SumIs
  <2>6. control[q] = 0 /\ manual[q] = 0 /\ paid[q] = 0 /\ applied[q] = 0
    BY <1>1
  <2> HIDE DEF f
  <2>7. Balance(q) = 0
    <3> DEFINE k == control[q] - manual[q]
    <3>1. k \in Int /\ k >= 0 /\ k <= 0
      BY <2>6
    <3> HIDE DEF k
    <3>2. Owed(q, k) = 0
      BY <3>1 DEF Owed
    <3> QED
      BY <3>2 DEF Balance, CounterpartyBalance, k
  <2> QED
    BY <2>5, <2>6, <2>7 DEF f
<1> QED
  BY <1>2, <1>3, <1>4 DEF Money, Reconciled

\* Books nothing was written to stay consistent.
LEMMA SameBooks ==
  ASSUME Money, UNCHANGED books, \A d \in Doc : HalfVoided(d)' <=> HalfVoided(d), Shape
  PROVE  Money'
<1>1. UNCHANGED <<status, lines, reworded, issues, entryOf, settled, applied, paid, control, manual, cut>>
  BY DEF rows, books
<1>2. \A d \in Doc : Total(d)' = Total(d) /\ Undone(d)' = Undone(d) /\ Worth(d)' = Worth(d)
  BY <1>1, TotalKept, SameUndone, SameWorth
<1>3. StatusMatchesMoney' /\ Uncut'
  BY <1>1, <1>2 DEF Money, StatusMatchesMoney, Uncut
<1>4. PostedOnce'
  <2>1. \A i \in DOMAIN issues : issues[i].doc \in Doc
    <3>1. issues \in Seq(Issued)
      BY DEF Shape, TypeOK, Issued
    <3>2. DOMAIN issues = 1 .. Len(issues)
      BY <3>1, LenProperties
    <3>3. \A i \in DOMAIN issues : issues[i] \in Issued
      BY <3>1, <3>2, ElementOfSeq
    <3> QED
      BY <3>3 DEF Issued
  <2> QED
    BY <1>1, <1>2, <2>1 DEF Money, PostedOnce
<1>5. Rests
  BY <1>1, <1>2 DEF Rests, Balance, CounterpartyBalance, Owed
<1> QED
  BY <1>3, <1>4, <1>5, RestsReconcile DEF Money

\* A step that changes a document's status moves it forward.
LEMMA StepMovesForward ==
  ASSUME IndInv, NEW p \in Proc, Looks(p) \/ Writes(p), NEW d \in Doc, status'[d] # status[d]
  PROVE  <<status[d], status'[d]>> \in
           { <<"ABSENT", "DRAFT">>, <<"DRAFT", "OPEN">>, <<"OPEN", "PARTIAL">>,
             <<"OPEN", "PAID">>, <<"OPEN", "VOID">>, <<"PARTIAL", "PAID">> }
<1>1. status \in [Doc -> Status]
  BY DEF IndInv, Shape, TypeOK
<1>2. CASE Looks(p)
  BY <1>2 DEF Looks, EditDraft, PayableCheck, VoidCheck, Gather, PaySize, CreditRemaining,
     CreditAvailable, Fail, books, rows
<1>3. CASE Pay(p) \/ Credit(p)
  <2>1. PICK e, x : Settles(p, e, x)
    BY <1>3, PaySettles, CreditSettles
  <2>2. e \in Doc /\ status[e] \in Payable /\ status' = [status EXCEPT ![e] = Recomputed(e, settled[e] + x)]
    BY <2>1 DEF Settles, Allocate
  <2>3. Recomputed(e, settled[e] + x) \in {"PAID", "PARTIAL"}
    BY DEF Recomputed
  <2> QED
    BY <1>1, <2>2, <2>3 DEF Payable
<1>4. CASE Posts(p)
  <2>1. call[p].doc \in Doc /\ status[call[p].doc] = "DRAFT"
    BY <1>4 DEF Posts, IndInv, Shape, StillSo, Fresh, Editing
  <2>2. status' = [status EXCEPT ![call[p].doc] = "OPEN"]
    BY <1>4 DEF Posts, PostDocument
  <2> QED
    BY <1>1, <2>1, <2>2
<1>5. CASE call[p].at = "mark" /\ MarkVoid(p)
  <2>1. call[p].doc \in Doc /\ status[call[p].doc] = "OPEN"
    BY <1>5 DEF IndInv, Shape, StillSo, Fresh
  <2>2. status' = [status EXCEPT ![call[p].doc] = "VOID"]
    BY <1>5 DEF MarkVoid
  <2> QED
    BY <1>1, <2>1, <2>2
<1>6. CASE \E e \in Doc : Create(p, e)
  BY <1>1, <1>6 DEF Create
<1>7. CASE InsertLine(p) \/ DeleteLine(p) \/ Rewrite(p) \/ VoidReverse(p)
           \/ Lapses(p) \/ \E q \in Pool, a \in ManualAmount : ManualPost(p, q, a)
  BY <1>7 DEF InsertLine, DeleteLine, Rewrite, VoidReverse, Lapses, Fail, rows, ManualPost
<1> QED
  BY <1>2, <1>3, <1>4, <1>5, <1>6, <1>7 DEF Writes

\* Only the void of an issued document can be cut short, and none is a draft again.
LEMMA UncutKeeps ==
  ASSUME IndInv, Uncut, DocumentsApart, NEW p \in Proc, Writes(p)
  PROVE  Uncut'
<1>1. cut \in [Doc -> Nat] /\ status \in [Doc -> Status]
  BY DEF IndInv, Shape, TypeOK
<1>2. ASSUME NEW d \in Doc, status'[d] \in {"ABSENT", "DRAFT"}
      PROVE  cut'[d] = 0
  <2>1. CASE Lapses(p)
    <3>1. PICK e : e = call[p].doc
      OBVIOUS
    <3>2. e \in Doc /\ status[e] = "OPEN" /\ status' = status /\ cut' = [cut EXCEPT ![e] = @ + 1]
      BY <2>1, <3>1, LapseFacts DEF Lapses, Fail
    <3> QED
      BY <1>1, <1>2, <3>2 DEF Uncut
  <2>2. CASE ~Lapses(p)
    <3>1. cut' = cut
      BY <2>2 DEF Writes, Create, InsertLine, DeleteLine, Rewrite, Posts, PostDocument, Pay, Credit, VoidReverse,
         MarkVoid, ManualPost
    <3>2. status[d] \in {"ABSENT", "DRAFT"}
      <4>1. status'[d] = status[d] \/ <<status[d], status'[d]>> \in
              { <<"ABSENT", "DRAFT">>, <<"DRAFT", "OPEN">>, <<"OPEN", "PARTIAL">>,
                <<"OPEN", "PAID">>, <<"OPEN", "VOID">>, <<"PARTIAL", "PAID">> }
        BY StepMovesForward
      <4> QED
        BY <1>2, <4>1
    <3> QED
      BY <3>1, <3>2 DEF Uncut
  <2> QED
    BY <2>1, <2>2
<1> QED
  BY <1>2 DEF Uncut

\* Every step leaves the books consistent.
LEMMA MoneyKeeps ==
  ASSUME IndInv, Money, DocumentsApart, [Next]_vars
  PROVE  Money'
<1>1. CASE UNCHANGED vars
  <2>1. UNCHANGED books /\ \A d \in Doc : HalfVoided(d)' <=> HalfVoided(d)
    BY <1>1 DEF vars, HalfVoided
  <2> QED
    BY <2>1, SameBooks DEF IndInv
<1>2. CASE Next
  <2>1. PICK p \in Proc : Looks(p) \/ Writes(p)
    BY <1>2, NextCases DEF IndInv
  <2>2. CASE Looks(p)
    BY <2>2, LooksFacts, SameBooks DEF IndInv
  <2>3. CASE Writes(p)
    BY <2>3, MatchKeeps, PostedKeeps, UncutKeeps, ReconcileKeeps DEF Money
  <2> QED
    BY <2>1, <2>2, <2>3
<1> QED
  BY <1>1, <1>2

\* While no two calls are under way on one document, whatever the others do, the
\* books have their shapes, what a call has read of its document is still so when
\* it writes (mb_invoice_*, mb_bill_*, mb_payment_*), and every issued document
\* has the entry that posted its total.
THEOREM Invariance == Spec /\ []DocumentsApart => []IndInv
<1>1. Init => IndInv
  BY InitInv
<1>2. IndInv /\ DocumentsApart /\ [Next]_vars => IndInv'
  BY StepKeeps, StutterKeeps
<1> QED
  BY <1>1, <1>2, PTL DEF Spec

\* Credit is never spent twice (mb_credit_apply checks mb_credit_available
\* before it writes, mb_payment_record caps what it allocates) while no two calls
\* stand between the check and the write for one pool, even if they race on
\* documents; TLC shows it spent twice when two do.
THEOREM CreditNeverSpentTwice == Spec /\ []CreditApart => []CreditNeverNegative
<1>1. Init => CreditInv
  BY InitCredit
<1>2. CreditInv /\ CreditApart /\ [Next]_vars => CreditInv'
  BY CreditKeeps
<1>3. CreditInv => CreditNeverNegative
  BY DEF CreditInv
<1> QED
  BY <1>1, <1>2, <1>3, PTL DEF Spec

\* An issued document keeps its header, and its lines add up to what its entry
\* posted, while no two calls are under way on one document: edits, issue and
\* enter all check that it is a DRAFT.
THEOREM IssuedStaysLocked == Spec /\ []DocumentsApart => []IssuedIsLocked
<1>1. IndInv => IssuedIsLocked
  BY LenProperties DEF IndInv, EntryOfTotal, IssuedIsLocked, Shape, TypeOK
<1> QED
  BY <1>1, Invariance, PTL

\* A document only moves forward (DRAFT, OPEN, PARTIAL, PAID, or OPEN to VOID)
\* while no two calls are under way on one document: every call checks the status
\* it leaves.
THEOREM LifecycleIsKept == Spec /\ []DocumentsApart => Lifecycle
<1>1. IndInv /\ DocumentsApart /\ [Next]_vars =>
        [\A d \in Doc : status'[d] # status[d] =>
          <<status[d], status'[d]>> \in
            { <<"ABSENT", "DRAFT">>, <<"DRAFT", "OPEN">>, <<"OPEN", "PARTIAL">>,
              <<"OPEN", "PAID">>, <<"OPEN", "VOID">>, <<"PARTIAL", "PAID">> }]_vars
  <2> SUFFICES ASSUME IndInv, DocumentsApart, Next, NEW d \in Doc, status'[d] # status[d]
               PROVE  <<status[d], status'[d]>> \in
                        { <<"ABSENT", "DRAFT">>, <<"DRAFT", "OPEN">>, <<"OPEN", "PARTIAL">>,
                          <<"OPEN", "PAID">>, <<"OPEN", "VOID">>, <<"PARTIAL", "PAID">> }
    OBVIOUS
  <2> QED
    BY NextCases, StepMovesForward DEF IndInv
<1> QED
  BY <1>1, Invariance, PTL DEF Spec, Lifecycle

\* Every document's status says what was settled of it, and it is posted once and
\* reversed once by its void, and once more by each void that left it unmarked
\* (mb_invoice_void, mb_bill_void), while no two calls are under way on one
\* document: whatever the lines, and wherever a call ends.
THEOREM DocumentsStayConsistent == Spec /\ []DocumentsApart => []DocumentsConsistent
<1>1. Init => IndInv /\ Money
  BY InitInv, InitMoney
<1>2. IndInv /\ Money /\ DocumentsApart /\ [Next]_vars => (IndInv /\ Money)'
  BY StepKeeps, StutterKeeps, MoneyKeeps
<1>3. IndInv /\ Money => DocumentsConsistent
  BY DEF IndInv, Shape, Money, DocumentsConsistent
<1> QED
  BY <1>1, <1>2, <1>3, PTL DEF Spec

\* D26: what the control account says of a counterparty, what its documents
\* still owe and its credit, each computed from other tables, agree but for the
\* totals that BalanceReconciles names, those of paid documents that are negative
\* and of the voids not marked, while calls are kept apart: whatever the lines,
\* and wherever a call ends.
THEOREM BalancesReconcile == Spec /\ []Apart => []BalanceReconciles
<1>1. Init => IndInv /\ Money
  BY InitInv, InitMoney
<1>2. IndInv /\ Money /\ DocumentsApart /\ [Next]_vars => (IndInv /\ Money)'
  BY StepKeeps, StutterKeeps, MoneyKeeps
<1>3. IndInv /\ Money /\ CreditNeverNegative => BalanceReconciles
  BY ReconciledBalances DEF Money
<1>4. Apart => DocumentsApart /\ CreditApart
  BY DEF Apart
<1> QED
  BY <1>1, <1>2, <1>3, <1>4, CreditNeverSpentTwice, PTL DEF Spec
-----------------------------------------------------------------------------
(* Settlement implements Receivables *)

\* A document no write touched is as far as it was, and as much is due on it.
LEMMA SameStage ==
  ASSUME NEW d \in Doc, status'[d] = status[d], settled'[d] = settled[d], lines'[d] = lines[d],
         HalfVoided(d)' <=> HalfVoided(d)
  PROVE  StageOf(d)' = StageOf(d) /\ Due(d)' = Due(d)
<1>1. Total(d)' = Total(d)
  BY TotalKept
<1> QED
  BY <1>1 DEF StageOf, Due, Remaining

\* One document goes on to stage s, and x is due on it.
LEMMA OneStage ==
  ASSUME NEW d \in Doc, NEW s, NEW x, StageOf(d)' = s, Due(d)' = x,
         \A e \in Doc : e # d => StageOf(e)' = StageOf(e) /\ Due(e)' = Due(e)
  PROVE  /\ AllStage[d] = StageOf(d) /\ AllDue[d] = Due(d)
         /\ AllStage' = [AllStage EXCEPT ![d] = s] /\ AllDue' = [AllDue EXCEPT ![d] = x]
<1>1. /\ AllStage' = [e \in Doc |-> StageOf(e)'] /\ AllStage = [e \in Doc |-> StageOf(e)]
      /\ AllDue' = [e \in Doc |-> Due(e)'] /\ AllDue = [e \in Doc |-> Due(e)]
  BY DEF AllStage, AllDue
<1> QED
  BY <1>1

\* The balance of one pool moves by x.
LEMMA OneBalance ==
  ASSUME IndInv, NEW d \in Doc, NEW x \in Int,
         \A q \in Pool : Balance(q)' = Balance(q) + (IF q = PoolOf[d] THEN x ELSE 0)
  PROVE  AllBalance' = [AllBalance EXCEPT ![PoolOf[d]] = @ + x]
<1> DEFINE r == PoolOf[d]
<1> HIDE DEF r
<1>1. AllBalance' = [q \in Pool |-> Balance(q)'] /\ AllBalance = [q \in Pool |-> Balance(q)]
  BY DEF AllBalance
<1>2. \A q \in Pool : Balance(q)' = IF q = r THEN Balance(q) + x ELSE Balance(q)
  BY PoolTypes DEF IndInv, r
<1> HIDE DEF AllBalance
<1>3. AllBalance' = [AllBalance EXCEPT ![r] = @ + x]
  BY <1>1, <1>2
<1> QED
  BY <1>3 DEF r

\* What is billed stays so while entries do.
LEMMA SameBilled ==
  ASSUME NEW d \in Doc, entryOf'[d] = entryOf[d],
         entryOf[d] # 0 => issues'[entryOf[d]].leg = issues[entryOf[d]].leg
  PROVE  Billed(d)' = Billed(d)
BY DEF Billed, Owed

\* Issuing an invoice or entering a bill is a Charge.
LEMMA ChargeStep ==
  ASSUME IndInv, StatusMatchesMoney, DocumentsApart, NEW p \in Proc, Posts(p), NEW d, d = call[p].doc
  PROVE  d \in Doc /\ Rec!Charge(d)
<1> DEFINE x == Total(d)
           r == PoolOf[d]
           L == Len(issues)
<1>1. PICK leg \in {call[p].seen, -call[p].seen} : Owed(r, leg) = call[p].seen /\ PostDocument(p, leg)
  BY DEF Posts
<1>2. /\ d \in Doc /\ status[d] = "DRAFT" /\ call[p].seen = x /\ r \in Pool
  BY PoolFacts DEF Posts, IndInv, Shape, StillSo, Fresh, Editing
<1>3. x \in Int
  BY <1>2, TotalType DEF IndInv
<1>4. /\ entryOf[d] = 0 /\ ~HalfVoided(d)'
      /\ \A e \in Doc : Total(e)' = Total(e) /\ (e # d => (HalfVoided(e)' <=> HalfVoided(e)))
      /\ \A q \in Pool : Balance(q)' = Balance(q) + (IF q = r THEN x ELSE 0)
      /\ UNCHANGED <<paid, applied>>
  BY PostMoves
<1>5. /\ issues' = Append(issues, [doc |-> d, leg |-> leg, reversed |-> 0])
      /\ entryOf' = [entryOf EXCEPT ![d] = L + 1]
  BY <1>1 DEF PostDocument
<1>6. /\ issues \in Seq(Issued) /\ L \in Nat /\ entryOf \in [Doc -> 0 .. L]
  BY LenProperties DEF IndInv, Shape, TypeOK, Issued
<1> DEFINE e0 == [doc |-> d, leg |-> leg, reversed |-> 0]
<1>7. e0.leg = leg
  OBVIOUS
<1> HIDE DEF x, r, e0
<1>8. /\ issues'[L + 1] = e0 /\ \A i \in 1 .. L : issues'[i] = issues[i]
  BY <1>5, <1>6 DEF e0
<1>9. Billed(d) = 0 /\ Billed(d)' = x
  <2>1. Billed(d) = 0
    BY <1>4 DEF Billed
  <2> HIDE DEF L
  <2>2. PICK k \in Nat : k = L + 1
    BY <1>6
  <2>3. issues'[k] = e0
    BY <1>8, <2>2
  <2>4. entryOf'[d] = k /\ k # 0 /\ issues'[k].leg = leg
    <3>1. issues'[k].leg = leg
      BY <1>7, <2>3
    <3>2. k # 0
      BY <1>6, <2>2
    <3>3. entryOf' = [entryOf EXCEPT ![d] = k]
      BY <1>5, <2>2 DEF L
    <3> QED
      BY <1>2, <1>6, <3>1, <3>2, <3>3
  <2>5. Billed(d)' = Owed(r, issues'[k].leg)
    BY <2>4 DEF Billed, Owed, r
  <2> QED
    BY <1>1, <1>2, <2>1, <2>4, <2>5
<1>10. ASSUME NEW e \in Doc, e # d
       PROVE  Billed(e)' = Billed(e)
  <2>1. entryOf'[e] = entryOf[e] /\ (entryOf[e] # 0 => entryOf[e] \in 1 .. L)
    BY <1>5, <1>6, <1>10
  <2> QED
    BY <1>8, <2>1, SameBilled
<1>11. AllBilled[d] = 0 /\ AllBilled'[d] = x /\ AllBilled' = [AllBilled EXCEPT ![d] = AllBilled'[d]]
  <2>1. AllBilled' = [e \in Doc |-> Billed(e)']
    BY DEF AllBilled
  <2>2. AllBilled = [e \in Doc |-> Billed(e)]
    BY DEF AllBilled
  <2>3. AllBilled'[d] = x /\ AllBilled[d] = 0
    BY <1>2, <1>9, <2>1, <2>2
  <2>4. AllBilled' = [AllBilled EXCEPT ![d] = x]
    BY <1>2, <1>9, <1>10, <2>1, <2>2
  <2> QED
    BY <2>3, <2>4
<1>12. /\ AllStage[d] = "new" /\ AllStage' = [AllStage EXCEPT ![d] = "owed"]
       /\ AllDue' = [AllDue EXCEPT ![d] = x]
  <2>1. status' = [status EXCEPT ![d] = "OPEN"] /\ UNCHANGED <<lines, settled>>
    BY <1>1 DEF PostDocument
  <2>2. \A e \in Doc : e # d => StageOf(e)' = StageOf(e) /\ Due(e)' = Due(e)
    BY <1>4, <2>1, SameStage
  <2>3. StageOf(d) = "new" /\ StageOf(d)' = "owed"
    <3>1. status'[d] = "OPEN"
      BY <1>2, <2>1 DEF IndInv, Shape, TypeOK
    <3>2. StageOf(d) = "new"
      BY <1>2 DEF StageOf, Payable
    <3>3. ~HalfVoided(d)'
      BY <1>4
    <3>4. StageOf(d)' = "owed"
      BY ONLY <3>1, <3>3 DEF StageOf, Payable
    <3> QED
      BY <3>2, <3>4
  <2>4. Due(d)' = Total(d)' - settled'[d] /\ settled'[d] = 0 /\ Total(d)' = x
    BY <1>2, <1>4, <2>1, <2>3 DEF Due, Remaining, StatusMatchesMoney, x
  <2>5. Due(d)' = x
    BY <1>3, <2>4
  <2> QED
    BY <1>2, <2>2, <2>3, <2>5, OneStage
<1>13. AllBalance' = [AllBalance EXCEPT ![r] = @ + x]
  BY <1>2, <1>3, <1>4, OneBalance DEF r
<1>14. AllCredit' = AllCredit
  BY <1>4 DEF AllCredit, Available, AtLeastZero
<1> HIDE DEF AllStage, AllBilled, AllDue, AllCredit, AllBalance
<1>15. Rec!Charge(d)
  <2>1. /\ AllStage[d] = "new" /\ AllStage' = [AllStage EXCEPT ![d] = "owed"]
        /\ AllBilled' = [AllBilled EXCEPT ![d] = AllBilled'[d]]
        /\ AllDue' = [AllDue EXCEPT ![d] = AllBilled'[d]]
        /\ AllBalance' = [AllBalance EXCEPT ![PoolOf[d]] = @ + AllBilled'[d]]
        /\ UNCHANGED AllCredit
    BY <1>11, <1>12, <1>13, <1>14 DEF r
  <2> QED
    BY <2>1 DEF Rec!Charge, Rec!Becomes
<1> QED
  BY <1>2, <1>15

\* Settling x of what is owed of a document, and the abstract state.
LEMMA SettleStep ==
  ASSUME IndInv, StatusMatchesMoney, DocumentsApart, CreditNeverNegative, CreditNeverNegative',
         NEW p \in Proc, NEW d, NEW x, Settles(p, d, x)
  PROVE  /\ d \in Doc /\ PoolOf[d] \in Pool /\ x \in Nat
         /\ AllDue[d] = Remaining(d) /\ Remaining(d) \in Int /\ x <= AtLeastZero(Remaining(d))
         /\ AllDue'[d] = (IF Remaining(d) - x > 0 THEN Remaining(d) - x ELSE 0)
         /\ Rec!Settle(d, x)
         /\ AllBilled' = AllBilled
         /\ \A q \in Pool : AllCredit[q] = paid[q] - applied[q] /\ AllBalance[q] \in Int
                            /\ AllCredit'[q] = paid'[q] - applied'[q]
<1>1. /\ d \in Doc /\ status[d] \in Payable /\ UNCHANGED <<lines, issues, entryOf>>
      /\ x \in Nat /\ x <= AtLeastZero(Remaining(d))
      /\ settled' = [settled EXCEPT ![d] = @ + x]
      /\ status' = [status EXCEPT ![d] = Recomputed(d, settled[d] + x)]
  BY DEF Settles, Allocate
<1>2. \A e \in Doc : /\ Total(e)' = Total(e)
                     /\ IF e = d THEN ~HalfVoided(e) /\ ~HalfVoided(e)' ELSE HalfVoided(e)' <=> HalfVoided(e)
  BY SettleMoves
<1>3. /\ PoolOf[d] \in Pool /\ Total(d) \in Int /\ settled[d] \in Nat /\ settled'[d] = settled[d] + x
      /\ status'[d] = Recomputed(d, settled[d] + x)
      /\ \A e \in Doc : e # d => status'[e] = status[e] /\ settled'[e] = settled[e]
  BY <1>1, PoolFacts, TotalType DEF IndInv, Shape, TypeOK
<1> DEFINE left == Remaining(d) - x
           to == IF left > 0 THEN "owed" ELSE "settled"
           rest == IF left > 0 THEN left ELSE 0
<1>4. Remaining(d) \in Int /\ left \in Int /\ left = Total(d) - (settled[d] + x)
  BY <1>1, <1>3 DEF Remaining
<1>5. StageOf(d) = "owed" /\ Due(d) = Remaining(d)
  BY <1>1, <1>2 DEF StageOf, Due, Payable
<1>6. StageOf(d)' = to /\ Due(d)' = rest
  <2>1. status'[d] = IF left > 0 THEN "PARTIAL" ELSE "PAID"
    <3> HIDE DEF left
    <3> QED
      BY <1>1, <1>3, <1>4 DEF Recomputed
  <2>2. Remaining(d)' = left
    BY <1>1, <1>2, <1>3, <1>4 DEF Remaining
  <2>3. ~HalfVoided(d)'
    BY <1>1, <1>2
  <2> HIDE DEF left
  <2>4. StageOf(d)' = to
    BY ONLY <2>1, <2>3 DEF StageOf, Payable
  <2>5. Due(d)' = IF StageOf(d)' = "owed" THEN Remaining(d)' ELSE 0
    BY DEF Due
  <2> QED
    BY <2>2, <2>4, <2>5
<1>7. \A e \in Doc : e # d => StageOf(e)' = StageOf(e) /\ Due(e)' = Due(e)
  BY <1>1, <1>2, <1>3, SameStage
<1> HIDE DEF left, to, rest
<1>8. /\ AllStage[d] = "owed" /\ AllDue[d] = Remaining(d)
      /\ AllStage' = [AllStage EXCEPT ![d] = to] /\ AllDue' = [AllDue EXCEPT ![d] = rest]
  BY <1>1, <1>5, <1>6, <1>7, OneStage
<1>9. AllDue'[d] = rest
  <2>1. d \in DOMAIN AllDue
    BY <1>1 DEF AllDue
  <2> QED
    BY <1>8, <2>1
<1>10. Rec!Settle(d, x)
  <2> HIDE DEF AllStage, AllDue
  <2>1. AllDue[d] - x = left
    BY <1>8 DEF left
  <2> QED
    BY <1>8, <2>1 DEF Rec!Settle, Rec!Becomes, to, rest
<1>11. AllBilled' = AllBilled
  BY <1>1 DEF AllBilled, Billed, Owed
<1>12. IndInv'
  BY SettlesKeeps
<1>13. ASSUME NEW q \in Pool
       PROVE  /\ AllCredit[q] = paid[q] - applied[q] /\ AllBalance[q] \in Int
              /\ AllCredit'[q] = paid'[q] - applied'[q]
  <2>1. paid[q] \in Nat /\ applied[q] \in Nat /\ applied[q] <= paid[q] /\ Balance(q) \in Int
    BY PoolTypes DEF IndInv, CreditNeverNegative
  <2>2. paid'[q] \in Nat /\ applied'[q] \in Nat /\ applied'[q] <= paid'[q]
    BY <1>12 DEF IndInv, Shape, TypeOK, CreditNeverNegative
  <2>3. AllCredit[q] = AtLeastZero(paid[q] - applied[q])
        /\ AllCredit'[q] = AtLeastZero(paid'[q] - applied'[q])
    BY DEF AllCredit, Available, AtLeastZero
  <2> QED
    BY <2>1, <2>2, <2>3 DEF AtLeastZero, AllBalance
<1> QED
  BY <1>1, <1>3, <1>4, <1>8, <1>9, <1>10, <1>11, <1>13 DEF left, rest

\* A payment is a Receive of its whole amount.
LEMMA ReceiveStep ==
  ASSUME IndInv, StatusMatchesMoney, DocumentsApart, CreditNeverNegative, CreditNeverNegative',
         NEW p \in Proc, Pay(p)
  PROVE  \E d \in Doc : Rec!Receive(d)
<1> PICK d, a, x : d = call[p].doc /\ a = call[p].arg /\ x = call[p].seen
  OBVIOUS
<1>1. /\ Settles(p, d, x) /\ paid' = [paid EXCEPT ![PoolOf[d]] = @ + a] /\ a \in Nat \ {0}
      /\ x = Portion(d, a)
  BY PaySettles
<1>2. PICK q \in Pool : q = PoolOf[d]
  BY <1>1, SettleStep
<1>3. /\ d \in Doc /\ x \in Nat /\ AllDue[d] = Remaining(d) /\ Remaining(d) \in Int
      /\ Rec!Settle(d, x) /\ AllBilled' = AllBilled
      /\ \A r \in Pool : AllCredit[r] = paid[r] - applied[r] /\ AllBalance[r] \in Int
                         /\ AllCredit'[r] = paid'[r] - applied'[r]
  BY <1>1, SettleStep
<1>4. /\ paid \in [Pool -> Nat] /\ applied \in [Pool -> Nat]
      /\ \A r \in Pool : /\ AllBalance'[r] + paid'[r] = AllBalance[r] + paid[r]
                         /\ applied'[r] = applied[r] + (IF r = q THEN x ELSE 0)
                         /\ AllBalance'[r] \in Int
  <2>1. \A r \in Pool : Balance(r)' \in Int /\ Balance(r)' + paid'[r] = Balance(r) + paid[r]
                        /\ applied'[r] = applied[r] + (IF r = q THEN x ELSE 0)
    BY <1>1, <1>2, SettleMoves DEF Moves
  <2>2. AllBalance' = [r \in Pool |-> Balance(r)'] /\ AllBalance = [r \in Pool |-> Balance(r)]
    BY DEF AllBalance
  <2> QED
    BY <2>1, <2>2 DEF IndInv, Shape, TypeOK
<1>5. x = IF a < AllDue[d] THEN a ELSE IF AllDue[d] > 0 THEN AllDue[d] ELSE 0
  BY <1>1, <1>3 DEF Portion, Lesser, AtLeastZero
<1>6. AllBalance' = [AllBalance EXCEPT ![q] = @ - a]
  <2>1. \A r \in Pool : AllBalance'[r] = IF r = q THEN AllBalance[r] - a ELSE AllBalance[r]
    <3> TAKE r \in Pool
    <3>1. paid'[r] = IF r = q THEN paid[r] + a ELSE paid[r]
      BY <1>1, <1>2, <1>4
    <3>2. paid[r] \in Nat /\ AllBalance[r] \in Int /\ AllBalance'[r] \in Int /\ a \in Nat
          /\ AllBalance'[r] + paid'[r] = AllBalance[r] + paid[r]
      BY <1>1, <1>3, <1>4
    <3> QED
      BY <3>1, <3>2
  <2>2. AllBalance' = [r \in Pool |-> AllBalance'[r]] /\ AllBalance = [r \in Pool |-> AllBalance[r]]
    BY DEF AllBalance
  <2> HIDE DEF AllBalance
  <2> QED
    BY <2>1, <2>2
<1>7. AllCredit' = [AllCredit EXCEPT ![q] = @ + a - x]
  <2>1. \A r \in Pool : AllCredit'[r] = IF r = q THEN AllCredit[r] + a - x ELSE AllCredit[r]
    <3> TAKE r \in Pool
    <3>1. paid'[r] = IF r = q THEN paid[r] + a ELSE paid[r]
      BY <1>1, <1>2, <1>4
    <3>2. /\ paid[r] \in Nat /\ applied[r] \in Nat /\ a \in Nat /\ x \in Nat
          /\ AllCredit[r] = paid[r] - applied[r] /\ AllCredit'[r] = paid'[r] - applied'[r]
          /\ applied'[r] = applied[r] + (IF r = q THEN x ELSE 0)
      BY <1>1, <1>3, <1>4
    <3> QED
      BY <3>1, <3>2
  <2>2. AllCredit' = [r \in Pool |-> AllCredit'[r]] /\ AllCredit = [r \in Pool |-> AllCredit[r]]
    BY DEF AllCredit
  <2> HIDE DEF AllCredit
  <2> QED
    BY <2>1, <2>2
<1>8. AllBalance[q] - AllBalance'[q] = a
  <2>1. q \in DOMAIN AllBalance
    BY DEF AllBalance
  <2>2. AllBalance[q] \in Int /\ a \in Nat
    BY <1>1, <1>3
  <2> QED
    BY <1>6, <2>1, <2>2
<1>9. Rec!Receive(d)
  <2> DEFINE cash == AllBalance[PoolOf[d]] - AllBalance'[PoolOf[d]]
             used == IF cash < AllDue[d] THEN cash ELSE IF AllDue[d] > 0 THEN AllDue[d] ELSE 0
  <2>1. cash = a
    BY <1>2, <1>8
  <2> HIDE DEF cash
  <2>2. used = x
    BY <1>5, <2>1
  <2> HIDE DEF used
  <2>3. cash > 0
    BY <1>1, <1>3, <2>1
  <2>4. /\ Rec!Settle(d, used)
        /\ AllCredit' = [AllCredit EXCEPT ![PoolOf[d]] = @ + cash - used]
        /\ AllBalance' = [AllBalance EXCEPT ![PoolOf[d]] = @ - cash]
        /\ UNCHANGED AllBilled
    BY <1>2, <1>3, <1>6, <1>7, <2>1, <2>2
  <2> QED
    BY <2>3, <2>4 DEF Rec!Receive, cash, used
<1> QED
  BY <1>3, <1>9

\* Applying credit is a UseCredit.
LEMMA UseCreditStep ==
  ASSUME IndInv, StatusMatchesMoney, DocumentsApart, CreditNeverNegative, CreditNeverNegative',
         NEW p \in Proc, Credit(p)
  PROVE  \E d \in Doc : Rec!UseCredit(d)
<1> PICK d, x : d = call[p].doc /\ x = call[p].arg
  OBVIOUS
<1>1. Settles(p, d, x) /\ UNCHANGED <<paid, control>>
  BY CreditSettles
<1>2. PICK q \in Pool : q = PoolOf[d]
  BY <1>1, SettleStep
<1>3. /\ d \in Doc /\ x \in Nat /\ AllDue[d] = Remaining(d) /\ Remaining(d) \in Int
      /\ x <= AtLeastZero(Remaining(d))
      /\ AllDue'[d] = (IF Remaining(d) - x > 0 THEN Remaining(d) - x ELSE 0)
      /\ Rec!Settle(d, x) /\ AllBilled' = AllBilled
      /\ \A r \in Pool : AllCredit[r] = paid[r] - applied[r] /\ AllBalance[r] \in Int
                         /\ AllCredit'[r] = paid'[r] - applied'[r]
  BY <1>1, SettleStep
<1>4. x > 0 /\ x <= Remaining(d)
  <2>1. x \in PayAmount
    BY DEF Credit, IndInv, StillSo, Fresh, Paying
  <2>2. x # 0
    BY <2>1, AmountAssumption
  <2> QED
    BY <1>3, <2>2 DEF AtLeastZero
<1>5. /\ paid \in [Pool -> Nat] /\ applied \in [Pool -> Nat] /\ UNCHANGED <<paid, control, manual>>
      /\ \A r \in Pool : applied'[r] = applied[r] + (IF r = q THEN x ELSE 0)
      /\ q \in Pool /\ applied[q] + x <= paid[q]
  <2>1. \A r \in Pool : applied'[r] = applied[r] + (IF r = q THEN x ELSE 0)
    BY <1>1, <1>2, SettleMoves
  <2>2. paid \in [Pool -> Nat] /\ applied \in [Pool -> Nat]
    BY DEF IndInv, Shape, TypeOK
  <2>3. UNCHANGED manual
    BY <1>1 DEF Settles
  <2>4. q \in Pool
    BY <1>2, <1>3, PoolFacts
  <2>5. applied'[q] <= paid'[q]
    BY <2>4 DEF CreditNeverNegative
  <2> QED
    BY <1>1, <2>1, <2>2, <2>3, <2>4, <2>5
<1>6. AllBalance' = AllBalance
  BY <1>5 DEF AllBalance, Balance, CounterpartyBalance, Owed
<1>7. AllCredit' = [AllCredit EXCEPT ![q] = @ - x]
  <2>1. \A r \in Pool : AllCredit'[r] = IF r = q THEN AllCredit[r] - x ELSE AllCredit[r]
    <3> TAKE r \in Pool
    <3>1. /\ paid[r] \in Nat /\ applied[r] \in Nat /\ x \in Nat /\ paid'[r] = paid[r]
          /\ AllCredit[r] = paid[r] - applied[r] /\ AllCredit'[r] = paid'[r] - applied'[r]
          /\ applied'[r] = applied[r] + (IF r = q THEN x ELSE 0)
      BY <1>3, <1>5
    <3> QED
      BY <3>1
  <2>2. AllCredit' = [r \in Pool |-> AllCredit'[r]] /\ AllCredit = [r \in Pool |-> AllCredit[r]]
    BY DEF AllCredit
  <2> HIDE DEF AllCredit
  <2> QED
    BY <2>1, <2>2
<1>8. AllDue[d] - AllDue'[d] = x
  BY <1>3, <1>4
<1>9. x <= AllCredit[q] /\ x <= AllDue[d]
  <2>1. AllCredit[q] = paid[q] - applied[q] /\ paid[q] \in Nat /\ applied[q] \in Nat
    BY <1>3, <1>5
  <2>2. applied[q] + x <= paid[q]
    BY <1>2, <1>3, <1>5
  <2> QED
    BY <1>3, <1>4, <2>1, <2>2
<1>10. Rec!UseCredit(d)
  BY <1>2, <1>3, <1>4, <1>6, <1>7, <1>8, <1>9 DEF Rec!UseCredit
<1> QED
  BY <1>3, <1>10

\* The reversing entry of a void is a Cancel.
LEMMA CancelStep ==
  ASSUME IndInv, StatusMatchesMoney, DocumentsApart, NEW p \in Proc, VoidReverse(p)
  PROVE  \E d \in Doc : Rec!Cancel(d)
<1> PICK d : d = call[p].doc
  OBVIOUS
<1> DEFINE x == Total(d)
           r == PoolOf[d]
<1>1. /\ d \in Doc /\ status[d] = "OPEN" /\ settled[d] = 0 /\ entryOf[d] # 0
      /\ \A e \in Doc : /\ Total(e)' = Total(e)
                        /\ IF e = d THEN ~HalfVoided(e) /\ HalfVoided(e)' ELSE HalfVoided(e)' <=> HalfVoided(e)
      /\ Owed(r, issues[entryOf[d]].leg) = x
      /\ \A q \in Pool : Balance(q)' = Balance(q) - (IF q = r THEN x ELSE 0)
      /\ UNCHANGED <<paid, applied, entryOf>>
      /\ \A i \in DOMAIN issues : issues'[i].leg = issues[i].leg
  BY CancelMoves
<1>2. x \in Int /\ r \in Pool /\ UNCHANGED <<status, lines, settled>>
  BY <1>1, TotalType, PoolFacts DEF IndInv, VoidReverse
<1> HIDE DEF x, r
<1>3. AllBilled' = AllBilled /\ AllBilled[d] = x
  <2>1. \A e \in Doc : entryOf[e] # 0 => entryOf[e] \in DOMAIN issues
    <3>1. entryOf \in [Doc -> 0 .. Len(issues)] /\ DOMAIN issues = 1 .. Len(issues) /\ Len(issues) \in Nat
      BY LenProperties DEF IndInv, Shape, TypeOK
    <3> QED
      BY <3>1
  <2>2. \A e \in Doc : Billed(e)' = Billed(e)
    BY <1>1, <2>1, SameBilled
  <2>3. AllBilled' = [e \in Doc |-> Billed(e)'] /\ AllBilled = [e \in Doc |-> Billed(e)]
    BY DEF AllBilled
  <2>4. Billed(d) = x
    BY <1>1 DEF Billed, r
  <2> QED
    BY <1>1, <2>2, <2>3, <2>4
<1>4. /\ AllStage[d] = "owed" /\ AllStage' = [AllStage EXCEPT ![d] = "cancelled"]
      /\ AllDue[d] = x /\ AllDue' = [AllDue EXCEPT ![d] = 0]
  <2>1. StageOf(d) = "owed" /\ StageOf(d)' = "cancelled" /\ Due(d)' = 0
    BY <1>1, <1>2 DEF StageOf, Due, Payable
  <2>2. Due(d) = x
    BY <1>1, <1>2, <2>1 DEF Due, Remaining, x
  <2>3. \A e \in Doc : e # d => StageOf(e)' = StageOf(e) /\ Due(e)' = Due(e)
    BY <1>1, <1>2, SameStage
  <2> QED
    BY <1>1, <2>1, <2>2, <2>3, OneStage
<1>5. AllBalance' = [AllBalance EXCEPT ![r] = @ - x]
  <2>1. AllBalance' = [q \in Pool |-> Balance(q)'] /\ AllBalance = [q \in Pool |-> Balance(q)]
    BY DEF AllBalance
  <2>2. \A q \in Pool : Balance(q)' = IF q = r THEN Balance(q) - x ELSE Balance(q)
    BY <1>1, <1>2, PoolTypes DEF IndInv
  <2> HIDE DEF AllBalance
  <2> QED
    BY <1>2, <2>1, <2>2
<1>6. AllCredit' = AllCredit
  BY <1>1 DEF AllCredit, Available, AtLeastZero
<1>7. Rec!Cancel(d)
  BY <1>3, <1>4, <1>5, <1>6 DEF Rec!Cancel, Rec!Becomes, r
<1> QED
  BY <1>1, <1>7

\* What moves no entry, cash or manual posting moves no bill, credit or balance.
LEMMA SameMoney ==
  ASSUME UNCHANGED <<issues, entryOf, paid, applied>>, \A q \in Pool : Balance(q)' = Balance(q)
  PROVE  AllBilled' = AllBilled /\ AllCredit' = AllCredit /\ AllBalance' = AllBalance
<1>1. AllBilled' = AllBilled
  BY DEF AllBilled, Billed, Owed
<1>2. AllCredit' = AllCredit
  BY DEF AllCredit, Available, AtLeastZero
<1>3. AllBalance' = AllBalance
  BY DEF AllBalance
<1> QED
  BY <1>1, <1>2, <1>3

\* The mark that ends a void is a Seal.
LEMMA SealStep ==
  ASSUME IndInv, DocumentsApart, NEW p \in Proc, call[p].at = "mark", MarkVoid(p)
  PROVE  \E d \in Doc : Rec!Seal(d)
<1> PICK d \in Doc : d = call[p].doc /\ status[d] = "OPEN"
  BY DEF IndInv, Shape, StillSo, Fresh
<1>1. /\ status' = [status EXCEPT ![d] = "VOID"] /\ status \in [Doc -> Status] /\ Return(p)
      /\ UNCHANGED <<lines, issues, entryOf, settled, applied, paid, control, manual>>
  BY DEF MarkVoid, IndInv, Shape, TypeOK
<1>2. \A e \in Doc : IF e = d THEN HalfVoided(e) /\ ~HalfVoided(e)' ELSE HalfVoided(e)' <=> HalfVoided(e)
  BY <1>1, HalfAfter DEF IndInv
<1>3. status'[d] = "VOID" /\ \A e \in Doc : e # d => status'[e] = status[e]
  BY <1>1
<1>4. AllStage[d] = "cancelled" /\ AllStage' = [AllStage EXCEPT ![d] = "void"] /\ AllDue' = AllDue
  <2>1. StageOf(d) = "cancelled" /\ StageOf(d)' = "void" /\ Due(d) = 0 /\ Due(d)' = 0
    BY <1>2, <1>3 DEF StageOf, Due, Payable
  <2>2. \A e \in Doc : e # d => StageOf(e)' = StageOf(e) /\ Due(e)' = Due(e)
    BY <1>1, <1>2, <1>3, SameStage
  <2>3. AllDue[d] = 0 /\ AllDue' = [AllDue EXCEPT ![d] = 0] /\ AllStage[d] = "cancelled"
        /\ AllStage' = [AllStage EXCEPT ![d] = "void"]
    BY <2>1, <2>2, OneStage
  <2> QED
    BY <2>3 DEF AllDue
<1>5. \A q \in Pool : Balance(q)' = Balance(q)
  BY <1>1 DEF Balance, CounterpartyBalance, Owed
<1>6. AllBilled' = AllBilled /\ AllCredit' = AllCredit /\ AllBalance' = AllBalance
  BY <1>1, <1>5, SameMoney
<1> HIDE DEF AllStage, AllBilled, AllDue, AllCredit, AllBalance
<1>7. Rec!Seal(d)
  BY <1>4, <1>6 DEF Rec!Seal, Rec!Becomes
<1> QED
  BY <1>7

\* A void that ends before its mark is a Lapse.
LEMMA LapseStep ==
  ASSUME IndInv, StatusMatchesMoney, DocumentsApart, NEW p \in Proc, Lapses(p)
  PROVE  \E d \in Doc : Rec!Lapse(d)
<1> PICK d : d = call[p].doc
  OBVIOUS
<1>1. /\ d \in Doc /\ status[d] = "OPEN" /\ HalfVoided(d) /\ ~HalfVoided(d)'
      /\ \A e \in Doc : e # d => (HalfVoided(e)' <=> HalfVoided(e))
      /\ UNCHANGED <<status, lines, issues, entryOf, settled, applied, paid, control, manual>>
  BY LapseFacts
<1>2. /\ Total(d) \in Int /\ Total(d)' = Total(d) /\ settled[d] = 0
      /\ entryOf[d] \in DOMAIN issues /\ Owed(PoolOf[d], issues[entryOf[d]].leg) = Total(d)
  BY <1>1, TotalType, TotalKept DEF IndInv, StatusMatchesMoney, EntryOfTotal
<1>3. AllBilled[d] = Total(d)
  <2>1. entryOf[d] # 0
    BY <1>2, LenProperties DEF IndInv, Shape, TypeOK
  <2> QED
    BY <1>1, <1>2, <2>1 DEF AllBilled, Billed
<1>4. /\ AllStage[d] = "cancelled" /\ AllStage' = [AllStage EXCEPT ![d] = "owed"]
      /\ AllDue' = [AllDue EXCEPT ![d] = Total(d)]
  <2>1. StageOf(d) = "cancelled" /\ StageOf(d)' = "owed"
    BY <1>1 DEF StageOf, Payable
  <2>2. Due(d)' = Total(d)
    BY <1>1, <1>2, <2>1 DEF Due, Remaining
  <2>3. \A e \in Doc : e # d => StageOf(e)' = StageOf(e) /\ Due(e)' = Due(e)
    BY <1>1, SameStage
  <2> QED
    BY <1>1, <2>1, <2>2, <2>3, OneStage
<1>5. \A q \in Pool : Balance(q)' = Balance(q)
  BY <1>1 DEF Balance, CounterpartyBalance, Owed
<1>6. AllBilled' = AllBilled /\ AllCredit' = AllCredit /\ AllBalance' = AllBalance
  BY <1>1, <1>5, SameMoney
<1> HIDE DEF AllStage, AllBilled, AllDue, AllCredit, AllBalance
<1>7. Rec!Lapse(d)
  BY <1>3, <1>4, <1>6 DEF Rec!Lapse, Rec!Becomes
<1> QED
  BY <1>1, <1>7

\* What takes no document further is no step of Receivables.
LEMMA RestStutters ==
  ASSUME \A d \in Doc : StageOf(d)' = StageOf(d) /\ Due(d)' = Due(d),
         \A q \in Pool : Balance(q)' = Balance(q),
         UNCHANGED <<issues, entryOf, paid, applied>>
  PROVE  UNCHANGED Rec!recVars
<1>1. AllStage' = AllStage
  BY DEF AllStage
<1>2. AllDue' = AllDue
  BY DEF AllDue
<1> QED
  BY <1>1, <1>2, SameMoney DEF Rec!recVars

\* A new document and what is done to a draft is no step of Receivables, nor is
\* a manual posting.
LEMMA DraftsStutter ==
  ASSUME IndInv, StatusMatchesMoney, Uncut, DocumentsApart, NEW p \in Proc, Writes(p), ~Posts(p), ~Pay(p),
         ~Credit(p), ~VoidReverse(p), ~(call[p].at = "mark" /\ MarkVoid(p)), ~Lapses(p)
  PROVE  UNCHANGED Rec!recVars
<1>1. status \in [Doc -> Status] /\ DOMAIN lines = Doc
  BY DEF IndInv, Shape, TypeOK
<1>2. ASSUME NEW d \in Doc, status[d] \in {"ABSENT", "DRAFT"}, status'[d] = "DRAFT", UNCHANGED settled,
             \A e \in Doc : e # d => status'[e] = status[e] /\ lines'[e] = lines[e],
             \A e \in Doc : HalfVoided(e)' <=> HalfVoided(e)
      PROVE  \A e \in Doc : StageOf(e)' = StageOf(e) /\ Due(e)' = Due(e)
  <2>1. \A e \in Doc : e # d => StageOf(e)' = StageOf(e) /\ Due(e)' = Due(e)
    BY <1>2, SameStage
  <2>2. StageOf(d) = "new" /\ StageOf(d)' = "new"
    BY <1>2 DEF StageOf, Payable
  <2> QED
    BY <2>1, <2>2 DEF Due
<1>3. CASE \E d \in Doc : Create(p, d)
  <2>1. PICK d \in Doc : Create(p, d)
    BY <1>3
  <2>2. /\ status' = [status EXCEPT ![d] = "DRAFT"] /\ status[d] = "ABSENT" /\ UNCHANGED <<lines, settled, call>>
    BY <2>1 DEF Create
  <2>3. \A e \in Doc : HalfVoided(e)' <=> HalfVoided(e)
    BY <2>2 DEF HalfVoided
  <2>4. \A e \in Doc : status'[e] = IF e = d THEN "DRAFT" ELSE status[e]
    BY <1>1, <2>2
  <2>5. \A e \in Doc : StageOf(e)' = StageOf(e) /\ Due(e)' = Due(e)
    BY <1>2, <2>2, <2>3, <2>4
  <2> QED
    BY <2>5, OthersRest, RestStutters DEF Rests
<1>4. CASE (call[p].at = "add" /\ InsertLine(p)) \/ (call[p].at = "remove" /\ DeleteLine(p))
           \/ (call[p].at = "update" /\ Rewrite(p))
  <2> PICK d \in Doc : d = call[p].doc /\ status[d] = "DRAFT"
    BY <1>4 DEF IndInv, Shape, StillSo, Fresh, Editing
  <2>1. \A e \in Doc : e # d => lines'[e] = lines[e]
    BY <1>1, <1>4 DEF InsertLine, DeleteLine, Rewrite
  <2>2. UNCHANGED <<status, settled>> /\ Return(p)
    BY <1>4 DEF InsertLine, DeleteLine, Rewrite
  <2>3. \A e \in Doc : HalfVoided(e)' <=> HalfVoided(e)
    BY <1>4, <2>2, HalfAfter DEF IndInv
  <2>4. \A e \in Doc : StageOf(e)' = StageOf(e) /\ Due(e)' = Due(e)
    BY <1>2, <2>1, <2>2, <2>3
  <2> QED
    BY <2>4, OthersRest, RestStutters DEF Rests
<1>5. CASE \E q \in Pool, a \in ManualAmount : ManualPost(p, q, a)
  <2>1. UNCHANGED <<status, lines, settled, call>>
    BY <1>5 DEF ManualPost
  <2>2. \A e \in Doc : HalfVoided(e)' <=> HalfVoided(e)
    BY <2>1 DEF HalfVoided
  <2>3. \A e \in Doc : StageOf(e)' = StageOf(e) /\ Due(e)' = Due(e)
    BY <2>1, <2>2, SameStage
  <2> QED
    BY <2>3, OthersRest, RestStutters DEF Rests
<1> QED
  BY <1>3, <1>4, <1>5 DEF Writes

\* Every step is one operation of Receivables, or none.
LEMMA StepImplements ==
  ASSUME IndInv, Money, DocumentsApart, CreditNeverNegative, CreditNeverNegative', [Next]_vars
  PROVE  [Rec!RecNext]_(Rec!recVars)
<1>1. ASSUME UNCHANGED books, \A d \in Doc : HalfVoided(d)' <=> HalfVoided(d)
      PROVE  UNCHANGED Rec!recVars
  <2>1. UNCHANGED <<status, lines, issues, entryOf, settled, applied, paid, control, manual>>
    BY <1>1 DEF books, rows
  <2>2. \A d \in Doc : StageOf(d)' = StageOf(d) /\ Due(d)' = Due(d)
    BY <1>1, <2>1, SameStage
  <2>3. \A q \in Pool : Balance(q)' = Balance(q)
    BY <2>1 DEF Balance, CounterpartyBalance, Owed
  <2> QED
    BY <2>1, <2>2, <2>3, RestStutters
<1>2. CASE UNCHANGED vars
  BY <1>1, <1>2 DEF vars, HalfVoided
<1>3. CASE Next
  <2>1. PICK p \in Proc : Looks(p) \/ Writes(p)
    BY <1>3, NextCases DEF IndInv
  <2>2. CASE Looks(p)
    BY <1>1, <2>2, LooksFacts
  <2>3. CASE Posts(p)
    BY <2>3, ChargeStep DEF Money, Rec!RecNext
  <2>4. CASE Pay(p)
    BY <2>4, ReceiveStep DEF Money, Rec!RecNext
  <2>5. CASE Credit(p)
    BY <2>5, UseCreditStep DEF Money, Rec!RecNext
  <2>6. CASE VoidReverse(p)
    BY <2>6, CancelStep DEF Money, Rec!RecNext
  <2>7. CASE call[p].at = "mark" /\ MarkVoid(p)
    BY <2>7, SealStep DEF Rec!RecNext
  <2>8. CASE Lapses(p)
    BY <2>8, LapseStep DEF Money, Rec!RecNext
  <2>9. CASE Writes(p) /\ ~Posts(p) /\ ~Pay(p) /\ ~Credit(p) /\ ~VoidReverse(p)
             /\ ~(call[p].at = "mark" /\ MarkVoid(p)) /\ ~Lapses(p)
    BY <2>9, DraftsStutter DEF Money
  <2> QED
    BY <2>1, <2>2, <2>3, <2>4, <2>5, <2>6, <2>7, <2>8, <2>9
<1> QED
  BY <1>2, <1>3

\* A new book owes nothing and is owed nothing.
LEMMA InitImplements ==
  ASSUME Init
  PROVE  Rec!RecInit
<1>1. /\ status = [d \in Doc |-> "ABSENT"] /\ entryOf = [d \in Doc |-> 0]
      /\ applied = [q \in Pool |-> 0] /\ paid = [q \in Pool |-> 0]
      /\ control = [q \in Pool |-> 0] /\ manual = [q \in Pool |-> 0]
  BY DEF Init
<1>2. \A d \in Doc : Billed(d) = 0 /\ StageOf(d) = "new" /\ Due(d) = 0
  BY <1>1 DEF Billed, StageOf, Due, Payable
<1>3. ASSUME NEW q \in Pool
      PROVE  Balance(q) = 0 /\ Available(q) = 0
  <2> DEFINE k == control[q] - manual[q]
  <2>1. k \in Int /\ k >= 0 /\ k <= 0
    BY <1>1
  <2> HIDE DEF k
  <2>2. Owed(q, k) = 0
    BY <2>1 DEF Owed
  <2>3. Available(q) = 0
    BY <1>1 DEF Available, AtLeastZero
  <2> QED
    BY <2>2, <2>3 DEF Balance, CounterpartyBalance, k
<1> QED
  BY <1>2, <1>3 DEF Rec!RecInit, AllStage, AllBilled, AllDue, AllCredit, AllBalance

\* Behind its reads, checks and two-part voids, each settlement call is one
\* atomic operation of Receivables, or nothing: a document is billed once, cash
\* settles what it can of a document and the rest becomes credit, credit used
\* was there, and a void that stops half way leaves the document owed again, its
\* amount off the balance.  Any number of calls may interleave that are kept
\* apart, lines may have any amount and a call may end anywhere.
THEOREM SettlementImplementsReceivables == Spec /\ []Apart => ImplementsReceivables
<1>1. Init => IndInv /\ Money /\ Rec!RecInit
  BY InitInv, InitMoney, InitImplements
<1>2. IndInv /\ Money /\ DocumentsApart /\ [Next]_vars => (IndInv /\ Money)'
  BY StepKeeps, StutterKeeps, MoneyKeeps
<1>3. IndInv /\ Money /\ DocumentsApart /\ CreditNeverNegative /\ CreditNeverNegative' /\ [Next]_vars =>
        [Rec!RecNext]_(Rec!recVars)
  BY StepImplements
<1>4. Apart => DocumentsApart /\ CreditApart
  BY DEF Apart
<1> QED
  BY <1>1, <1>2, <1>3, <1>4, CreditNeverSpentTwice, PTL DEF Spec, ImplementsReceivables, Rec!RecSpec

\* One writer (D8) keeps all of this without a further hypothesis: its calls
\* are apart, whatever the lines and wherever a call ends.
THEOREM OneWriterSuffices ==
  ASSUME \A p, r \in Proc : p = r
  PROVE  Spec => /\ [](CreditNeverNegative /\ IssuedIsLocked)
                 /\ [](DocumentsConsistent /\ BalanceReconciles)
                 /\ Lifecycle /\ ImplementsReceivables
<1>1. Apart
  BY OneProcessIsApart
<1>2. DocumentsApart /\ CreditApart
  BY <1>1 DEF Apart
<1> QED
  BY <1>1, <1>2, CreditNeverSpentTwice, IssuedStaysLocked, LifecycleIsKept,
     DocumentsStayConsistent, BalancesReconcile, SettlementImplementsReceivables, PTL
-----------------------------------------------------------------------------
(***************************************************************************)
(* Amounts, for any range, any base with a half hundredth, texts of any    *)
(* length and any number of lines.                                         *)
(***************************************************************************)

\* The constants are large enough, and hundredths have a half.
LEMMA MoneySizes ==
  /\ Half \in Nat /\ Half >= 2
  /\ Base \in Nat /\ Base >= 2
  /\ Centi \in Nat /\ Centi = Base * Base
  /\ Centi \div 2 \in Nat /\ Centi \div 2 >= 2 /\ Centi = 2 * (Centi \div 2)
<1>1. Half \in Nat /\ Half >= 2 /\ Base \in Nat /\ Base >= 2 /\ (Base * Base) % 2 = 0
  BY MoneyAssumption
<1>2. Base * Base \in Nat /\ Base * Base >= 4
  <2>1. Base * Base >= 2 * Base
    BY <1>1
  <2> QED
    BY <1>1, <2>1
<1> DEFINE c == Base * Base
<1>3. c \in Nat /\ c >= 4 /\ c % 2 = 0
  BY <1>1, <1>2
<1> HIDE DEF c
<1>4. c \div 2 \in Nat /\ c \div 2 >= 2 /\ c = 2 * (c \div 2)
  BY <1>3
<1> QED
  BY <1>1, <1>3, <1>4 DEF Centi, c

\* Division of a natural number.
LEMMA NatDivision ==
  ASSUME NEW n \in Nat, NEW c \in Nat, c > 0
  PROVE  \E d \in Nat, m \in 0 .. c - 1 : d = n \div c /\ m = n % c /\ n = c * d + m
<1> DEFINE d == n \div c
           m == n % c
<1>1. d \in Nat
  OBVIOUS
<1>2. m \in 0 .. c - 1
  OBVIOUS
<1>3. m = n - c * d
  OBVIOUS
<1>4. c * d \in Int
  BY <1>1
<1> HIDE DEF d, m
<1>5. n = c * d + m
  BY <1>1, <1>2, <1>3, <1>4
<1>6. d = n \div c /\ m = n % c
  BY DEF d, m
<1> QED
  BY <1>1, <1>2, <1>5, <1>6

\* Rounding leaves at most half a hundredth of error, and a half goes away from
\* zero.
LEMMA RoundingError ==
  ASSUME NEW n \in Int
  PROVE  LET e == Rounded(n) * Centi - n
             h == Centi \div 2
         IN  /\ Rounded(n) \in Int /\ e \in -h .. h
             /\ e = h => n > 0
             /\ e = -h => n < 0
<1> DEFINE c == Centi
           h == c \div 2
           q == Quotient(n)
           r == Remainder(n)
<1>1. c \in Nat /\ h \in Nat /\ h >= 2 /\ c = 2 * h
  BY MoneySizes
<1>2. q \in Int /\ r \in Int /\ q * c = n - r
      /\ (n >= 0 => r \in 0 .. c - 1) /\ (n < 0 => r \in -(c - 1) .. 0)
  <2>1. CASE n >= 0
    <3>1. PICK d \in Nat, m \in 0 .. c - 1 : d = n \div c /\ n = c * d + m
      BY <1>1, <2>1, NatDivision
    <3>2. q = d
      BY <2>1, <3>1 DEF Quotient
    <3>3. r = n - q * c
      BY DEF Remainder
    <3> HIDE DEF c, h, q, r
    <3> QED
      BY <1>1, <2>1, <3>1, <3>2, <3>3
  <2>2. CASE n < 0
    <3> DEFINE k == -n
    <3>0. k \in Nat
      BY <2>2
    <3>1. PICK d \in Nat, m \in 0 .. c - 1 : d = k \div c /\ k = c * d + m
      <4>1. c \in Nat /\ c > 0
        BY <1>1
      <4> HIDE DEF k, c, h
      <4> QED
        BY <3>0, <4>1, NatDivision
    <3>2. q = -d
      BY <2>2, <3>1 DEF Quotient
    <3>3. r = n - q * c
      BY DEF Remainder
    <3>4. n = -k
      OBVIOUS
    <3> HIDE DEF c, h, q, r, k
    <3> QED
      BY <1>1, <2>2, <3>0, <3>1, <3>2, <3>3, <3>4
  <2> QED
    BY <2>1, <2>2
<1>3. Rounded(n) = CASE r >= h -> q + 1 [] r <= -h -> q - 1 [] OTHER -> q
  BY DEF Rounded
<1> DEFINE t == Rounded(n)
<1> HIDE DEF c, h, q, r
<1>4. \/ r >= h /\ t = q + 1
      \/ r <= -h /\ t = q - 1
      \/ r < h /\ r > -h /\ t = q
  BY <1>1, <1>2, <1>3
<1> HIDE DEF t
<1>5. t \in Int /\ t * c - n \in -h .. h
      /\ (t * c - n = h => n > 0) /\ (t * c - n = -h => n < 0)
  <2>1. CASE r >= h /\ t = q + 1
    <3>1. t * c = q * c + c
      BY <1>1, <1>2, <2>1
    <3> QED
      BY <1>1, <1>2, <2>1, <3>1
  <2>2. CASE r <= -h /\ t = q - 1
    <3>1. t * c = q * c - c
      BY <1>1, <1>2, <2>2
    <3> QED
      BY <1>1, <1>2, <2>2, <3>1
  <2>3. CASE r < h /\ r > -h /\ t = q
    BY <1>1, <1>2, <2>3
  <2> QED
    BY <1>4, <2>1, <2>2, <2>3
<1> QED
  BY <1>5 DEF c, h, t

\* A total is nearest to a product when it is off by half a hundredth at most,
\* and by a half only away from zero.
LEMMA NearestWhen ==
  ASSUME NEW t \in Int, NEW n \in Int, NEW h \in Nat, Centi = 2 * h, NEW p \in Int, p = t * Centi,
         p - n \in -h .. h, p - n = h => n > 0, p - n = -h => n < 0
  PROVE  Nearest(t, n)
<1> DEFINE m == IF n < 0 THEN -n ELSE n
<1>1. 2 * (p - n) \in -Centi .. Centi
  OBVIOUS
<1>2. ASSUME 2 * (p - n) \in {-Centi, Centi}
      PROVE  p * p > m * m
  <2>1. CASE 2 * (p - n) = Centi
    <3>1. n > 0 /\ m = n /\ p > n
      BY <2>1
    <3>2. p * p > n * p /\ n * p > n * n
      BY <3>1
    <3>3. p * p \in Int /\ n * p \in Int /\ n * n \in Int
      OBVIOUS
    <3> QED
      BY <3>1, <3>2, <3>3
  <2>2. CASE 2 * (p - n) = -Centi
    <3>1. n < 0 /\ m = -n /\ -p > m
      BY <2>2
    <3> DEFINE k == -p
    <3>2. k \in Int /\ m \in Int /\ m > 0 /\ k > m /\ p * p = k * k
      BY <3>1
    <3> HIDE DEF m, k
    <3>3. k * k > m * k /\ m * k > m * m
      BY <3>2
    <3>4. k * k \in Int /\ m * k \in Int /\ m * m \in Int
      BY <3>2
    <3> QED
      BY <3>2, <3>3, <3>4
  <2> QED
    BY <1>2, <2>1, <2>2
<1>3. t * Centi = p
  OBVIOUS
<1> QED
  BY ONLY <1>1, <1>2, <1>3 DEF Nearest

\* The total is nearest, and its size is that of an amount with a negative.
LEMMA RoundedIsNearest ==
  ASSUME NEW n \in Amount
  PROVE  Nearest(Rounded(n), n) /\ Rounded(n) \in -MaxAmount .. MaxAmount
<1> DEFINE c == Centi
           h == c \div 2
           t == Rounded(n)
           p == t * c
<1>1. c \in Nat /\ h \in Nat /\ h >= 2 /\ c = 2 * h /\ Half \in Nat /\ Half >= 2
  BY MoneySizes
<1>2. n \in -Half .. Half - 1 /\ n \in Int
  BY <1>1 DEF Amount, MinAmount, MaxAmount
<1>3. t \in Int /\ p - n \in -h .. h /\ (p - n = h => n > 0) /\ (p - n = -h => n < 0)
  BY <1>2, RoundingError
<1>4. p \in Int
  BY <1>1, <1>3
<1>5. t \in -(Half - 1) .. Half - 1
  <2> HIDE DEF c, h, t
  <2>1. Half * h >= 2 * h /\ Half * h >= 2 * Half /\ Half * c = Half * h + Half * h
    BY <1>1
  <2>2. t >= Half => t * c >= Half * c
    BY <1>1, <1>3
  <2>3. t <= -Half => t * c <= -(Half * c)
    BY <1>1, <1>3
  <2>4. Half * h \in Int /\ Half * c \in Int
    BY <1>1
  <2> QED
    BY <1>1, <1>2, <1>3, <1>4, <2>1, <2>2, <2>3, <2>4
<1>6. Nearest(t, n)
  <2>1. t \in Int /\ n \in Int /\ Centi = 2 * h /\ p = t * Centi
    BY <1>1, <1>2, <1>3
  <2> HIDE DEF p, c, h, t
  <2> QED
    BY <1>1, <1>3, <1>4, <2>1, NearestWhen
<1> QED
  BY <1>5, <1>6 DEF MaxAmount
-----------------------------------------------------------------------------
\* Induction over the naturals, for a set.
LEMMA NatGrows ==
  ASSUME NEW Good \in SUBSET Nat, 0 \in Good, \A n \in Good : n + 1 \in Good
  PROVE  \A n \in Nat : n \in Good
<1> DEFINE Bad == Nat \ Good
           R == OpToRel(<, Nat)
<1> SUFFICES ASSUME Bad # {}
             PROVE  FALSE
  OBVIOUS
<1>1. Bad \subseteq Nat
  OBVIOUS
<1>2. IsWellFoundedOn(R, Nat)
  BY NatLessThanWellFounded
<1>3. \A m, n \in Nat : m < n => <<m, n>> \in R
  BY DEF OpToRel
<1> HIDE DEF R, Bad
<1>4. PICK m \in Bad : \A n \in Bad : ~ (<<n, m>> \in R)
  BY <1>1, <1>2, WFMin
<1>5. m \in Nat /\ m \notin Good
  BY <1>4 DEF Bad
<1>6. m # 0 /\ m - 1 \in Nat /\ m - 1 < m /\ (m - 1) + 1 = m
  BY <1>5
<1>7. m - 1 \notin Bad
  BY <1>3, <1>4, <1>5, <1>6
<1> QED
  BY <1>5, <1>6, <1>7 DEF Bad

\* The values of the first n digits of s.
Runs(f, s, n) == f = [i \in 0 .. n |-> IF i = 0 THEN 0 ELSE f[i - 1] * Base + s[i]]

LEMMA RunsIs ==
  ASSUME NEW f, NEW s, NEW n \in Nat, Runs(f, s, n)
  PROVE  DOMAIN f = 0 .. n /\ f[0] = 0 /\ \A i \in 1 .. n : f[i] = f[i - 1] * Base + s[i]
<1>1. f = [i \in 0 .. n |-> IF i = 0 THEN 0 ELSE f[i - 1] * Base + s[i]]
  BY DEF Runs
<1>2. DOMAIN f = 0 .. n
  BY <1>1
<1>3. f[0] = 0
  BY <1>1
<1>4. \A i \in 1 .. n : i \in 0 .. n /\ i # 0
  OBVIOUS
<1>5. \A i \in 1 .. n : f[i] = f[i - 1] * Base + s[i]
  BY <1>1, <1>4
<1> QED
  BY <1>2, <1>3, <1>5

\* There are such values for any number of digits.
LEMMA RunsExist ==
  ASSUME NEW s
  PROVE  \A n \in Nat : \E f : Runs(f, s, n)
<1> DEFINE Good == {n \in Nat : \E f : Runs(f, s, n)}
<1>1. 0 \in Good
  <2> DEFINE f == [i \in 0 .. 0 |-> 0]
  <2>1. Runs(f, s, 0)
    BY DEF Runs
  <2> QED
    BY <2>1
<1>2. ASSUME NEW n \in Good
      PROVE  n + 1 \in Good
  <2>1. PICK f : n \in Nat /\ Runs(f, s, n)
    OBVIOUS
  <2> DEFINE v == f[n] * Base + s[n + 1]
             g == [i \in 0 .. n + 1 |-> IF i = n + 1 THEN v ELSE f[i]]
  <2>2. f[0] = 0 /\ \A i \in 1 .. n : f[i] = f[i - 1] * Base + s[i]
    BY <2>1, RunsIs
  <2>3. ASSUME NEW i \in 0 .. n + 1
        PROVE  g[i] = IF i = 0 THEN 0 ELSE g[i - 1] * Base + s[i]
    <3>1. CASE i = 0
      BY <2>1, <2>2, <3>1
    <3>2. CASE i = n + 1
      <4>1. g[i] = v /\ i - 1 = n /\ n \in 0 .. n + 1 /\ n # n + 1 /\ i # 0
        BY <2>1, <3>2
      <4>2. g[i - 1] = f[n]
        BY <4>1
      <4> QED
        BY <3>2, <4>1, <4>2
    <3>3. CASE i \in 1 .. n
      <4>1. i - 1 \in 0 .. n + 1 /\ i - 1 # n + 1 /\ i # n + 1 /\ i # 0
        BY <2>1, <3>3
      <4>2. g[i] = f[i] /\ g[i - 1] = f[i - 1]
        BY <4>1
      <4> QED
        BY <2>2, <3>3, <4>1, <4>2
    <3>4. i = 0 \/ i = n + 1 \/ i \in 1 .. n
      BY <2>1
    <3> QED
      BY <3>1, <3>2, <3>3, <3>4
  <2>4. Runs(g, s, n + 1)
    <3>1. g = [i \in 0 .. n + 1 |-> g[i]]
      OBVIOUS
    <3> HIDE DEF g
    <3> QED
      BY <2>3, <3>1 DEF Runs
  <2> QED
    BY <2>1, <2>4
<1> HIDE DEF Good
<1>3. \A n \in Nat : n \in Good
  <2>1. Good \in SUBSET Nat
    BY DEF Good
  <2> QED
    BY <1>1, <1>2, <2>1, NatGrows
<1> QED
  BY <1>3 DEF Good

\* Digits that agree have the same values.
LEMMA RunsAgree ==
  ASSUME NEW s, NEW t, NEW n \in Nat, NEW m \in Nat, n <= m, NEW f, NEW g,
         Runs(f, s, n), Runs(g, t, m), \A i \in 1 .. n : s[i] = t[i]
  PROVE  \A i \in 0 .. n : f[i] = g[i]
<1> DEFINE Good == {i \in Nat : i <= n => f[i] = g[i]}
<1>1. f[0] = 0 /\ \A i \in 1 .. n : f[i] = f[i - 1] * Base + s[i]
  BY RunsIs
<1>2. g[0] = 0 /\ \A i \in 1 .. m : g[i] = g[i - 1] * Base + t[i]
  BY RunsIs
<1>3. 0 \in Good
  BY <1>1, <1>2
<1>4. ASSUME NEW i \in Good
      PROVE  i + 1 \in Good
  <2>1. i \in Nat /\ (i <= n => f[i] = g[i])
    OBVIOUS
  <2>2. SUFFICES ASSUME i + 1 <= n
                 PROVE  f[i + 1] = g[i + 1]
    BY <2>1
  <2>3. i + 1 \in 1 .. n /\ i + 1 \in 1 .. m /\ (i + 1) - 1 = i /\ i <= n
    BY <2>1, <2>2
  <2> QED
    BY <1>1, <1>2, <2>1, <2>3
<1> HIDE DEF Good
<1>5. \A i \in Nat : i \in Good
  <2>1. Good \in SUBSET Nat
    BY DEF Good
  <2> QED
    BY <1>3, <1>4, <2>1, NatGrows
<1> QED
  BY <1>5 DEF Good

\* The values after each digit of a text.
LEMMA RunningRuns ==
  ASSUME NEW s \in Seq(Int)
  PROVE  Runs(Running(s), s, Len(s)) /\ Running(s)[0] = 0
<1>1. Len(s) \in Nat
  BY LenProperties
<1>2. Running(s) = CHOOSE f : Runs(f, s, Len(s))
  BY DEF Running, Runs
<1>3. Runs(Running(s), s, Len(s))
  BY <1>1, <1>2, RunsExist
<1> QED
  BY <1>1, <1>3, RunsIs

\* One more digit.
LEMMA NumeralGrows ==
  ASSUME NEW s \in Seq(Int), NEW d \in Int
  PROVE  /\ Numeral(<< >>) = 0
         /\ Numeral(Append(s, d)) = Numeral(s) * Base + d
<1>1. Numeral(<< >>) = 0
  <2>1. << >> \in Seq(Int) /\ Len(<< >>) = 0
    OBVIOUS
  <2> QED
    BY <2>1, RunningRuns DEF Numeral
<1> DEFINE t == Append(s, d)
           n == Len(s)
           f == Running(s)
           g == Running(t)
<1>2. n \in Nat /\ t \in Seq(Int) /\ Len(t) = n + 1 /\ t[n + 1] = d /\ \A i \in 1 .. n : t[i] = s[i]
  <2>1. n \in Nat
    BY LenProperties
  <2> QED
    BY <2>1
<1> DEFINE m == Len(t)
<1>3. Runs(f, s, n) /\ Runs(g, t, m)
  BY <1>2, RunningRuns
<1>4. Numeral(s) = f[n] /\ Numeral(t) = g[m]
  BY DEF Numeral
<1>5. m \in Nat /\ n <= m /\ m \in 1 .. m /\ m - 1 = n /\ n \in 0 .. n /\ t[m] = d
      /\ \A i \in 1 .. n : s[i] = t[i]
  BY <1>2
<1> HIDE DEF t, n, m, f, g
<1>6. \A i \in 0 .. n : f[i] = g[i]
  <2>1. n \in Nat /\ m \in Nat /\ n <= m /\ Runs(f, s, n) /\ Runs(g, t, m)
    BY <1>2, <1>3, <1>5
  <2>2. \A i \in 1 .. n : s[i] = t[i]
    BY <1>5
  <2> QED
    BY ONLY <2>1, <2>2, RunsAgree, SMTT(60)
<1>7. \A i \in 1 .. m : g[i] = g[i - 1] * Base + t[i]
  BY <1>3, <1>5, RunsIs
<1>8. g[m] = f[n] * Base + d
  BY <1>5, <1>6, <1>7
<1> QED
  BY <1>1, <1>4, <1>8 DEF t

\* Sequences over a set are sequences over a larger one.
LEMMA SeqOfMore ==
  ASSUME NEW S, NEW T, S \subseteq T, NEW s \in Seq(S)
  PROVE  s \in Seq(T)
<1>1. Len(s) \in Nat /\ \A i \in 1 .. Len(s) : s[i] \in S
  BY LenProperties
<1>2. \A i \in 1 .. Len(s) : s[i] \in T
  BY <1>1
<1> QED
  BY <1>1, <1>2

\* Digits are natural numbers, and sequences of them sequences of integers.
LEMMA DigitSeqs ==
  /\ \A d \in Digits : d \in Nat /\ d < Base
  /\ Seq(Digits) \subseteq Seq(Int)
<1>1. \A d \in Digits : d \in Nat /\ d < Base
  BY MoneySizes DEF Digits
<1>2. ASSUME NEW s \in Seq(Digits)
      PROVE  s \in Seq(Int)
  <2>1. Digits \subseteq Int
    BY <1>1
  <2> QED
    BY ONLY <2>1, <1>2, SeqOfMore
<1> QED
  BY <1>1, <1>2

\* One digit and two.
LEMMA FewDigits ==
  ASSUME NEW s \in Seq(Int), NEW a \in Nat, NEW b \in Nat
  PROVE  /\ Numeral(<< >>) = 0 /\ Numeral(<<a>>) = a
         /\ Numeral(<<a, b>>) = a * Base + b
         /\ Numeral(s \o <<a>>) = Numeral(s) * Base + a
         /\ Numeral(s \o <<a, b>>) = (Numeral(s) * Base + a) * Base + b
<1>1. Base \in Nat /\ a \in Int /\ b \in Int /\ << >> \in Seq(Int)
  BY MoneySizes
<1>2. ASSUME NEW q \in Seq(Int)
      PROVE  /\ Numeral(q \o <<a>>) = Numeral(q) * Base + a
             /\ Numeral(q \o <<a, b>>) = (Numeral(q) * Base + a) * Base + b
  <2> DEFINE t == Append(q, a)
  <2>1. t \in Seq(Int) /\ q \o <<a>> = t /\ q \o <<a, b>> = Append(t, b)
    BY <1>1
  <2>2. Numeral(t) = Numeral(q) * Base + a
    BY ONLY <1>1, MoneyAssumption, NumeralGrows
  <2> HIDE DEF t
  <2>3. Numeral(Append(t, b)) = Numeral(t) * Base + b
    BY <1>1, <2>1, NumeralGrows
  <2> QED
    BY ONLY <2>1, <2>2, <2>3
<1>3. Numeral(<< >>) = 0
  BY <1>1, NumeralGrows
<1>4. << >> \o <<a>> = <<a>> /\ << >> \o <<a, b>> = <<a, b>>
  OBVIOUS
<1>5. Numeral(<<a>>) = 0 * Base + a /\ Numeral(<<a, b>>) = (0 * Base + a) * Base + b
  BY <1>1, <1>2, <1>3, <1>4
<1>6. Numeral(<<a>>) = a /\ Numeral(<<a, b>>) = a * Base + b
  BY ONLY <1>1, <1>5
<1>7. /\ Numeral(s \o <<a>>) = Numeral(s) * Base + a
      /\ Numeral(s \o <<a, b>>) = (Numeral(s) * Base + a) * Base + b
  BY <1>2
<1> QED
  BY ONLY <1>3, <1>6, <1>7

\* Digits only add to what was read before them.
LEMMA RunningRises ==
  ASSUME NEW s \in Seq(Digits)
  PROVE  /\ \A i \in 0 .. Len(s) : Running(s)[i] \in Nat /\ Running(s)[i] <= Numeral(s)
         /\ Numeral(s) \in Nat
<1> DEFINE n == Len(s)
           f == Running(s)
<1>1. n \in Nat /\ Base \in Nat /\ Base >= 2 /\ \A i \in 1 .. n : s[i] \in 0 .. Base - 1
  <2>1. n \in Nat /\ \A i \in 1 .. n : s[i] \in Digits
    BY LenProperties
  <2> QED
    BY <2>1, MoneySizes DEF Digits
<1>2. s \in Seq(Int)
  BY <1>1, MoneySizes DEF Digits
<1>3. f[0] = 0 /\ \A i \in 1 .. n : f[i] = f[i - 1] * Base + s[i]
  BY <1>1, <1>2, RunningRuns, RunsIs
<1>4. Numeral(s) = f[n]
  BY DEF Numeral
<1> HIDE DEF n, f
<1> DEFINE Good == {i \in Nat : i <= n => f[i] \in Nat}
<1>5. 0 \in Good
  BY <1>3
<1>6. ASSUME NEW i \in Good
      PROVE  i + 1 \in Good
  <2>1. i \in Nat /\ (i <= n => f[i] \in Nat)
    OBVIOUS
  <2>2. SUFFICES ASSUME i + 1 <= n
                 PROVE  f[i + 1] \in Nat
    BY <2>1
  <2>3. i + 1 \in 1 .. n /\ (i + 1) - 1 = i /\ i <= n
    BY <1>1, <2>1, <2>2
  <2>4. f[i + 1] = f[i] * Base + s[i + 1] /\ s[i + 1] \in 0 .. Base - 1 /\ f[i] \in Nat
    BY <1>1, <1>3, <2>1, <2>3
  <2>5. f[i] * Base \in Nat
    BY <1>1, <2>4
  <2> QED
    BY <1>1, <2>4, <2>5
<1>7. \A i \in 0 .. n : f[i] \in Nat
  <2>1. Good \in SUBSET Nat
    OBVIOUS
  <2> HIDE DEF Good
  <2>2. \A i \in Nat : i \in Good
    BY <1>5, <1>6, <2>1, NatGrows
  <2> QED
    BY <1>1, <2>2 DEF Good
<1>8. \A i \in 1 .. n : f[i - 1] <= f[i]
  <2> SUFFICES ASSUME NEW i \in 1 .. n
               PROVE  f[i - 1] <= f[i]
    OBVIOUS
  <2>1. i - 1 \in 0 .. n /\ f[i] = f[i - 1] * Base + s[i] /\ s[i] \in 0 .. Base - 1
    BY <1>1, <1>3
  <2> DEFINE a == f[i - 1]
  <2>2. a \in Nat
    BY <1>7, <2>1
  <2> HIDE DEF a
  <2>3. a * Base >= a * 1 /\ a * Base \in Nat
    BY <1>1, <2>2
  <2> QED
    BY <1>1, <2>1, <2>2, <2>3 DEF a
<1> DEFINE Best == {k \in Nat : k <= n => f[n - k] <= f[n]}
<1>9. 0 \in Best
  BY <1>1, <1>7
<1>10. ASSUME NEW k \in Best
       PROVE  k + 1 \in Best
  <2>1. k \in Nat /\ (k <= n => f[n - k] <= f[n])
    OBVIOUS
  <2>2. SUFFICES ASSUME k + 1 <= n
                 PROVE  f[n - (k + 1)] <= f[n]
    BY <2>1
  <2>3. n - k \in 1 .. n /\ n - (k + 1) = (n - k) - 1 /\ n - (k + 1) \in 0 .. n /\ n \in 0 .. n
    BY <1>1, <2>1, <2>2
  <2>4. f[n - (k + 1)] <= f[n - k] /\ f[n - k] <= f[n]
    BY <1>1, <1>8, <2>1, <2>2, <2>3
  <2>5. f[n - (k + 1)] \in Nat /\ f[n - k] \in Nat /\ f[n] \in Nat
    <3>1. n - k \in 0 .. n
      BY <1>1, <2>1, <2>2
    <3> QED
      BY ONLY <1>7, <2>3, <3>1
  <2> QED
    BY <2>4, <2>5
<1>11. \A i \in 0 .. n : f[i] <= f[n]
  <2>1. Best \in SUBSET Nat
    OBVIOUS
  <2> HIDE DEF Best
  <2>2. \A k \in Nat : k \in Best
    BY <1>9, <1>10, <2>1, NatGrows
  <2>3. \A i \in 0 .. n : n - i \in Nat /\ n - i <= n /\ n - (n - i) = i
    BY <1>1
  <2> QED
    BY <2>2, <2>3 DEF Best
<1> QED
  BY <1>1, <1>4, <1>7, <1>11 DEF n, f

\* What stops the digits before the point is exactly that their value does not fit.
LEMMA WholeIs ==
  ASSUME NEW s \in Seq(Digits)
  PROVE  Whole(s) = IF Numeral(s) \in Amount THEN Numeral(s) ELSE Refused
<1> DEFINE n == Len(s)
           f == Running(s)
           v == Numeral(s)
<1>1. n \in Nat /\ Half \in Nat /\ Refused \notin Int
  BY MoneyAssumption, LenProperties, MoneySizes
<1>2. v = f[n] /\ v \in Nat /\ \A i \in 0 .. n : f[i] \in Nat /\ f[i] <= v
  BY RunningRises DEF Numeral
<1>3. \A x \in Int : Fits(x) = Refused <=> x \notin Amount
  BY <1>1 DEF Fits
<1>4. Whole(s) = IF \E i \in 0 .. n : Fits(f[i]) = Refused THEN Refused ELSE v
  BY DEF Whole
<1>5. \A x \in Int : x \in Amount <=> -Half <= x /\ x <= Half - 1
  BY <1>1 DEF Amount, MinAmount, MaxAmount
<1> HIDE DEF n, f, v
<1>6. n \in 0 .. n
  BY <1>1
<1>7. (\E i \in 0 .. n : Fits(f[i]) = Refused) <=> v \notin Amount
  <2>1. ASSUME NEW i \in 0 .. n, Fits(f[i]) = Refused
        PROVE  v \notin Amount
    BY <1>1, <1>2, <1>3, <1>5, <2>1
  <2> QED
    BY <1>2, <1>3, <1>6, <2>1
<1> QED
  BY <1>4, <1>7 DEF v

\* All digits of a numeral but the last are those of a smaller number.
LEMMA FewerDigits ==
  ASSUME NEW n \in Nat
  PROVE  \E d \in 0 .. n, m \in Digits :
           /\ d = n \div Base /\ m = n % Base /\ d * Base + m = n
           /\ n >= Base => d <= n - 1
<1>1. Base \in Nat /\ Base >= 2
  BY MoneySizes
<1>2. PICK d \in Nat, m \in 0 .. Base - 1 : d = n \div Base /\ m = n % Base /\ n = Base * d + m
  BY <1>1, NatDivision
<1>3. Base * d >= 2 * d /\ Base * d \in Nat /\ Base * d = d * Base
  BY <1>1
<1>4. d \in 0 .. n /\ (n >= Base => d <= n - 1) /\ d * Base + m = n
  BY <1>1, <1>2, <1>3
<1>5. m \in Digits
  BY DEF Digits
<1>6. d = n \div Base /\ m = n % Base
  BY <1>2
<1> QED
  BY ONLY <1>4, <1>5, <1>6, Zenon

\* The numerals of the numbers up to m.
Prints(f, m) ==
  f = [n \in 0 .. m |-> IF n < Base THEN <<n>> ELSE Append(f[n \div Base], n % Base)]

LEMMA PrintsExist == \A m \in Nat : \E f : Prints(f, m)
<1> DEFINE Good == {m \in Nat : \E f : Prints(f, m)}
<1>0. Base \in Nat /\ Base >= 2
  BY MoneySizes
<1>1. 0 \in Good
  <2> DEFINE f == [n \in 0 .. 0 |-> <<n>>]
  <2>1. \A n \in 0 .. 0 : n < Base
    BY <1>0
  <2>2. Prints(f, 0)
    BY <2>1 DEF Prints
  <2> QED
    BY <2>2
<1>2. ASSUME NEW m \in Good
      PROVE  m + 1 \in Good
  <2>1. PICK f : m \in Nat /\ Prints(f, m)
    OBVIOUS
  <2>2. \A n \in 0 .. m : f[n] = IF n < Base THEN <<n>> ELSE Append(f[n \div Base], n % Base)
    <3>1. f = [n \in 0 .. m |-> IF n < Base THEN <<n>> ELSE Append(f[n \div Base], n % Base)]
      BY <2>1 DEF Prints
    <3> QED
      BY ONLY <3>1, Zenon
  <2> DEFINE v(n) == IF n < Base THEN <<n>> ELSE Append(f[n \div Base], n % Base)
             g == [n \in 0 .. m + 1 |-> v(n)]
  <2>3. \A n \in 0 .. m : g[n] = f[n]
    <3>1. \A n \in 0 .. m : n \in 0 .. m + 1
      BY <2>1
    <3>2. \A n \in 0 .. m + 1 : g[n] = v(n)
      OBVIOUS
    <3>3. \A n \in 0 .. m : f[n] = v(n)
      BY <2>2
    <3> QED
      BY ONLY <3>1, <3>2, <3>3, Zenon
  <2>4. ASSUME NEW n \in 0 .. m + 1
        PROVE  g[n] = IF n < Base THEN <<n>> ELSE Append(g[n \div Base], n % Base)
    <3>1. g[n] = v(n)
      OBVIOUS
    <3>2. CASE n < Base
      BY <3>1, <3>2
    <3>3. CASE ~(n < Base)
      <4>1. n \in Nat /\ n >= Base /\ n - 1 <= m
        BY <1>0, <2>1, <3>3
      <4>2. PICK d \in 0 .. n : d = n \div Base /\ d <= n - 1
        BY <4>1, FewerDigits
      <4>3. n \div Base \in 0 .. m
        BY <2>1, <4>1, <4>2
      <4>4. g[n \div Base] = f[n \div Base]
        BY <2>3, <4>3
      <4> HIDE DEF g
      <4> QED
        BY <3>1, <3>3, <4>4
    <3> QED
      BY <3>2, <3>3
  <2>5. Prints(g, m + 1)
    <3>1. g = [n \in 0 .. m + 1 |-> g[n]]
      OBVIOUS
    <3> HIDE DEF g
    <3> QED
      BY <2>4, <3>1 DEF Prints
  <2> QED
    BY <2>1, <2>5
<1> HIDE DEF Good
<1>3. \A m \in Nat : m \in Good
  <2>1. Good \in SUBSET Nat
    BY DEF Good
  <2> QED
    BY <1>1, <1>2, <2>1, NatGrows
<1> QED
  BY <1>3 DEF Good

\* A numeral that is printed is made of digits and read back as its number.
LEMMA PrintedIsRead ==
  \A n \in 0 .. Half :
    /\ Printed[n] \in Seq(Digits) /\ Printed[n] # << >>
    /\ Numeral(Printed[n]) = n
<1>1. Base \in Nat /\ Base >= 2 /\ Half \in Nat
  BY MoneySizes
<1>2. Prints(Printed, Half)
  BY <1>1, PrintsExist DEF Printed, Prints
<1> DEFINE f == Printed
<1>3. \A n \in 0 .. Half : f[n] = IF n < Base THEN <<n>> ELSE Append(f[n \div Base], n % Base)
  <2>1. f = [n \in 0 .. Half |-> IF n < Base THEN <<n>> ELSE Append(f[n \div Base], n % Base)]
    BY <1>2 DEF Prints
  <2> HIDE DEF f
  <2> QED
    BY ONLY <2>1, Zenon
<1> DEFINE Right(n) == f[n] \in Seq(Digits) /\ f[n] # << >> /\ Numeral(f[n]) = n
           Good == {m \in Nat : \A n \in 0 .. m : n <= Half => Right(n)}
<1> HIDE DEF f
<1>4. Seq(Digits) \subseteq Seq(Int)
  BY DigitSeqs
<1>5. ASSUME NEW n \in 0 .. Half, n < Base
      PROVE  Right(n)
  <2>1. f[n] = <<n>> /\ <<n>> = Append(<< >>, n) /\ n \in Digits /\ n \in Int
    <3>1. f[n] = <<n>>
      BY ONLY <1>3, <1>5, Zenon
    <3>2. n \in Digits /\ n \in Int
      BY <1>1, <1>5 DEF Digits
    <3> QED
      BY ONLY <3>1, <3>2
  <2>2. Numeral(<< >>) = 0 /\ Numeral(Append(<< >>, n)) = Numeral(<< >>) * Base + n
    <3>1. << >> \in Seq(Int)
      OBVIOUS
    <3> QED
      BY <2>1, <3>1, NumeralGrows
  <2>3. Numeral(f[n]) = n
    BY <1>1, <2>1, <2>2
  <2> QED
    BY <2>1, <2>3
<1>6. ASSUME NEW n \in 0 .. Half, n >= Base, Right(n \div Base)
      PROVE  Right(n)
  <2> DEFINE b == n \div Base
             s == f[b]
             d == n % Base
  <2>1. ~(n < Base) /\ n \in Nat
    BY <1>1, <1>6
  <2>2. f[n] = Append(s, d)
    BY <1>3, <2>1
  <2>3. d \in Digits /\ d \in Int /\ b * Base + d = n
    <3>1. PICK x \in 0 .. n, y \in Digits : x = b /\ y = d /\ x * Base + y = n
      BY <2>1, FewerDigits
    <3>2. y \in Int
      BY <1>1 DEF Digits
    <3> HIDE DEF b, d
    <3> QED
      BY ONLY <3>1, <3>2, Zenon
  <2>4. s \in Seq(Digits) /\ Numeral(s) = b
    BY <1>6
  <2> HIDE DEF b, s, d
  <2>5. Numeral(Append(s, d)) = Numeral(s) * Base + d
    BY <1>4, <2>3, <2>4, NumeralGrows
  <2>6. f[n] \in Seq(Digits) /\ f[n] # << >>
    <3>1. d \in Digits /\ s \in Seq(Digits)
      BY <2>3, <2>4
    <3>2. Append(s, d) \in Seq(Digits) /\ Append(s, d) # << >>
      BY ONLY <3>1, AppendProperties
    <3> QED
      BY ONLY <2>2, <3>2
  <2> QED
    BY <2>2, <2>3, <2>4, <2>5, <2>6
<1>7. 0 \in Good
  BY <1>1, <1>5
<1>8. ASSUME NEW m \in Good
      PROVE  m + 1 \in Good
  <2>1. m \in Nat /\ \A n \in 0 .. m : n <= Half => Right(n)
    OBVIOUS
  <2> HIDE DEF Right
  <2>2. ASSUME m + 1 <= Half
        PROVE  Right(m + 1)
    <3>1. CASE m + 1 < Base
      BY <1>1, <1>5, <2>1, <2>2, <3>1
    <3>2. CASE m + 1 >= Base
      <4>1. m + 1 \in 0 .. Half /\ m + 1 \in Nat
        BY <1>1, <2>1, <2>2
      <4>2. PICK d \in 0 .. m + 1 : d = (m + 1) \div Base /\ d <= (m + 1) - 1
        BY <3>2, <4>1, FewerDigits
      <4>3. (m + 1) \div Base \in 0 .. m /\ (m + 1) \div Base <= Half
        BY <1>1, <2>1, <2>2, <4>2
      <4>4. Right((m + 1) \div Base)
        BY <2>1, <4>3
      <4> QED
        BY <1>6, <3>2, <4>1, <4>4
    <3> QED
      BY <1>1, <2>1, <3>1, <3>2
  <2>3. \A n \in 0 .. m + 1 : n \in 0 .. m \/ n = m + 1
    BY <2>1
  <2>4. \A n \in 0 .. m + 1 : n <= Half => Right(n)
    BY <2>1, <2>2, <2>3
  <2> QED
    BY <2>1, <2>4
<1>9. Good \in SUBSET Nat
  OBVIOUS
<1> HIDE DEF Good
<1>10. \A m \in Nat : m \in Good
  BY <1>7, <1>8, <1>9, NatGrows
<1>11. \A n \in 0 .. Half : n \in Nat /\ n \in 0 .. n /\ n <= Half
  BY <1>1
<1>12. \A n \in 0 .. Half : Right(n)
  BY <1>10, <1>11 DEF Good
<1> QED
  BY <1>12 DEF f

\* A sequence of one and of two.
LEMMA ShortSeqs ==
  ASSUME NEW S, NEW t \in Seq(S)
  PROVE  /\ Len(t) \in Nat /\ (t = << >> <=> Len(t) = 0)
         /\ Len(t) = 1 => \E a \in S : t = <<a>>
         /\ Len(t) = 2 => \E a, b \in S : t = <<a, b>>
<1>1. Len(t) \in Nat /\ DOMAIN t = 1 .. Len(t) /\ \A i \in 1 .. Len(t) : t[i] \in S
  BY LenProperties
<1>2. t = << >> <=> Len(t) = 0
  BY EmptySeq
<1>3. ASSUME Len(t) = 1
      PROVE  t[1] \in S /\ t = <<t[1]>>
  BY <1>1, <1>3
<1>4. ASSUME Len(t) = 2
      PROVE  t[1] \in S /\ t[2] \in S /\ t = <<t[1], t[2]>>
  BY <1>1, <1>4
<1> QED
  BY <1>1, <1>2, <1>3, <1>4

\* What digits before and after the point are worth together.
LEMMA TextValue ==
  ASSUME NEW s \in Seq(Digits), NEW t \in Seq(Digits), Len(t) <= 2
  PROVE  /\ Numeral(s) \in Nat /\ Cents(t) \in Nat
         /\ Numeral(s \o t) * Padding[Len(t)] = Numeral(s) * Centi + Cents(t)
<1> DEFINE w == Numeral(s)
<1>1. Base \in Nat /\ Base >= 2 /\ Centi = Base * Base
  BY MoneySizes
<1>2. w \in Nat /\ s \in Seq(Int) /\ \A d \in Digits : d \in Nat
  BY RunningRises, DigitSeqs
<1>3. Cents(t) = Numeral(t) * Padding[Len(t)]
  BY DEF Cents
<1>4. Padding[0] = Base * Base /\ Padding[1] = Base /\ Padding[2] = 1
  BY <1>1 DEF Padding
<1> HIDE DEF w
<1>5. CASE Len(t) = 0
  <2>1. t = << >>
    BY <1>5, ShortSeqs
  <2>2. s \o << >> = s
    BY <1>2, ConcatEmptySeq
  <2>3. Numeral(<< >>) = 0
    BY <1>2, NumeralGrows
  <2>4. Cents(t) = 0 * (Base * Base)
    BY <1>3, <1>4, <1>5, <2>1, <2>3
  <2>5. Numeral(s \o t) * Padding[Len(t)] = w * (Base * Base)
    BY <1>4, <1>5, <2>1, <2>2 DEF w
  <2>6. 0 * (Base * Base) = 0 /\ w * (Base * Base) + 0 = w * (Base * Base)
    BY <1>1, <1>2
  <2> QED
    BY <1>1, <1>2, <2>4, <2>5, <2>6 DEF w
<1>6. CASE Len(t) = 1
  <2>1. PICK a \in Digits : t = <<a>>
    BY <1>6, ShortSeqs
  <2>2. a \in Nat /\ Numeral(t) = a /\ Numeral(s \o t) = w * Base + a
    BY <1>2, <2>1, FewDigits DEF w
  <2>3. Cents(t) = a * Base /\ Padding[Len(t)] = Base
    BY <1>3, <1>4, <1>6, <2>2
  <2>4. a * Base \in Nat /\ (w * Base + a) * Base = w * (Base * Base) + a * Base
    BY <1>1, <1>2, <2>2
  <2> QED
    BY <1>1, <1>2, <2>2, <2>3, <2>4 DEF w
<1>7. CASE Len(t) = 2
  <2>1. PICK a, b \in Digits : t = <<a, b>>
    BY <1>7, ShortSeqs
  <2>2. a \in Nat /\ b \in Nat
    BY <1>2
  <2>3. Numeral(t) = a * Base + b /\ Numeral(s \o t) = (w * Base + a) * Base + b
    BY <1>2, <2>1, <2>2, FewDigits DEF w
  <2>4. Cents(t) = (a * Base + b) * 1 /\ Padding[Len(t)] = 1
    BY <1>3, <1>4, <1>7, <2>3
  <2>5. /\ (a * Base + b) * 1 = a * Base + b /\ a * Base + b \in Nat
        /\ ((w * Base + a) * Base + b) * 1 = w * (Base * Base) + (a * Base + b)
    <3>1. a * Base \in Nat /\ w * Base \in Nat
      BY <1>1, <1>2, <2>2
    <3> QED
      BY <1>1, <1>2, <2>2, <3>1
  <2> QED
    BY ONLY <1>1, <1>2, <2>3, <2>4, <2>5 DEF w
<1>8. Len(t) = 0 \/ Len(t) = 1 \/ Len(t) = 2
  <2>1. Len(t) \in Nat /\ Len(t) <= 2
    BY LenProperties
  <2> DEFINE n == Len(t)
  <2>2. n \in Nat /\ n <= 2
    BY <2>1
  <2> HIDE DEF n
  <2>3. n = 0 \/ n = 1 \/ n = 2
    BY ONLY <2>2
  <2> QED
    BY <2>3 DEF n
<1> QED
  BY <1>5, <1>6, <1>7, <1>8

\* A printed amount reads as that amount.
LEMMA FormatIsExact ==
  ASSUME NEW a \in Amount
  PROVE  WellFormed(Format(a)) /\ ValueOf(Format(a)) = a
<1> DEFINE c == Centi
           m == IF a < 0 THEN -a ELSE a
           u == m \div c
           r == m % c
           s == Printed[u]
           t == <<r \div Base, r % Base>>
           text == Format(a)
<1>1. /\ Half \in Nat /\ Base \in Nat /\ Base >= 2 /\ c \in Nat /\ c = Base * Base
      /\ c >= 4 /\ a \in Int /\ m \in 0 .. Half
  BY MoneySizes DEF Amount, MinAmount, MaxAmount
<1>2. text = [neg |-> a < 0, whole |-> s, cents |-> t]
  BY DEF Format
<1>3. u \in 0 .. Half /\ r \in 0 .. c - 1 /\ m = c * u + r
  <2>1. m \in Nat /\ c \in Nat /\ c > 0
    BY <1>1
  <2> HIDE DEF m, c
  <2>2. PICK d \in Nat, k \in 0 .. c - 1 : d = u /\ k = r /\ m = c * d + k
    BY <2>1, NatDivision
  <2>3. c * d >= 1 * d
    BY <2>1, <2>2
  <2>4. c * d \in Nat
    BY <2>1, <2>2
  <2>5. d \in 0 .. Half
    BY <1>1, <2>1, <2>2, <2>3, <2>4
  <2> HIDE DEF u, r
  <2> QED
    BY <2>2, <2>5
<1> HIDE DEF m, c, u
<1>4. t \in Seq(Digits) /\ Len(t) = 2 /\ Cents(t) = r
  <2>1. r \in Nat /\ r < Base * Base
    BY <1>1, <1>3
  <2>0. Base > 0
    BY <1>1
  <2> HIDE DEF r
  <2>2. PICK d \in Nat, k \in 0 .. Base - 1 : d = r \div Base /\ k = r % Base /\ r = Base * d + k
    BY <1>1, <2>0, <2>1, NatDivision
  <2>3. d < Base
    <3> SUFFICES ASSUME d >= Base
                 PROVE  FALSE
      BY <1>1, <2>2
    <3>1. Base * d >= Base * Base /\ Base * d \in Nat
      BY <1>1, <2>2
    <3> QED
      BY <1>1, <2>1, <2>2, <3>1
  <2>4. d \in Digits /\ k \in Digits /\ t = <<d, k>>
    BY <1>1, <2>2, <2>3 DEF Digits
  <2>5. t \in Seq(Digits) /\ Len(t) = 2
    BY <2>4
  <2>6. Numeral(t) = d * Base + k
    <3>1. k \in Nat /\ << >> \in Seq(Int)
      BY <1>1
    <3> QED
      BY <2>2, <2>4, <3>1, FewDigits
  <2>7. Cents(t) = Numeral(t) * 1
    <3>1. 2 \in 0 .. 2
      OBVIOUS
    <3> QED
      BY <2>5, <3>1 DEF Cents, Padding
  <2> HIDE DEF t
  <2>8. (d * Base + k) * 1 = Base * d + k
    <3>1. d * Base \in Nat /\ d * Base = Base * d
      BY <1>1, <2>2
    <3> QED
      BY <1>1, <2>2, <3>1
  <2> QED
    BY <2>2, <2>5, <2>6, <2>7, <2>8
<1>5. s \in Seq(Digits) /\ s # << >> /\ Numeral(s) = u
  BY <1>3, PrintedIsRead
<1> HIDE DEF s, t, r, text
<1>6. Numeral(s \o t) * Padding[Len(t)] = u * c + r
  <2>1. Numeral(s \o t) * Padding[Len(t)] = Numeral(s) * Centi + Cents(t)
    <3>1. Len(t) <= 2
      BY <1>4
    <3> QED
      BY ONLY <1>4, <1>5, <3>1, MoneyAssumption, TextValue
  <2> QED
    BY <1>4, <1>5, <2>1 DEF c
<1>7. u * c + r = m
  BY <1>1, <1>3
<1>8. ValueOf(text) = IF a < 0 THEN -m ELSE m
  BY <1>2, <1>6, <1>7 DEF ValueOf
<1>9. WellFormed(text)
  <2>1. Len(s \o t) = Len(s) + Len(t) /\ Len(s) \in Nat
    BY <1>4, <1>5, ConcatProperties, LenProperties
  <2>2. Len(s \o t) > 0
    BY <1>4, <2>1
  <2>3. text.whole = s /\ text.cents = t /\ Len(t) <= 2
    BY <1>2, <1>4
  <2> QED
    BY ONLY <2>2, <2>3 DEF WellFormed
<1>10. (IF a < 0 THEN -m ELSE m) = a
  BY <1>1 DEF m
<1> QED
  BY <1>8, <1>9, <1>10 DEF text

\* A text that is read is what it says, and one that is refused is no amount that
\* has a negative.
LEMMA ParseIsExact ==
  ASSUME NEW text \in Texts
  PROVE  /\ Parse(text) \in Amount \cup {Refused}
         /\ IF Parse(text) = Refused
              THEN ~WellFormed(text) \/ ValueOf(text) \notin -MaxAmount .. MaxAmount
              ELSE WellFormed(text) /\ Parse(text) = ValueOf(text)
<1> DEFINE s == text.whole
           t == text.cents
           w == Numeral(s)
           n == w * Centi + Cents(t)
           total == Fits(Whole(s) * Centi + Cents(t))
<1>1. Half \in Nat /\ Half >= 2 /\ Centi \in Nat /\ Centi >= 4 /\ Refused \notin Int
  BY MoneyAssumption, MoneySizes
<1>2. s \in Seq(Digits) /\ t \in Seq(Digits) /\ text.neg \in BOOLEAN
  <2>1. text.neg \in BOOLEAN /\ s \in DigitsUpTo(MaxDigits) /\ t \in DigitsUpTo(3)
    BY DEF Texts
  <2>2. ASSUME NEW most \in Nat, NEW q \in DigitsUpTo(most)
        PROVE  q \in Seq(Digits)
    <3>1. PICK k \in 0 .. most : q \in [1 .. k -> Digits]
      BY DEF DigitsUpTo
    <3> QED
      BY <3>1
  <2>3. MaxDigits \in Nat /\ 3 \in Nat
    BY MoneyAssumption
  <2> QED
    BY <2>1, <2>2, <2>3
<1>3. \A x \in Int : x \in Amount <=> -Half <= x /\ x <= Half - 1
  BY <1>1 DEF Amount, MinAmount, MaxAmount
<1>4. Len(s) \in Nat /\ Len(t) \in Nat /\ Len(s \o t) = Len(s) + Len(t)
      /\ (s = << >> <=> Len(s) = 0) /\ (t = << >> <=> Len(t) = 0)
  <2>1. Len(s) \in Nat /\ (s = << >> <=> Len(s) = 0)
    BY <1>2, ShortSeqs
  <2>2. Len(t) \in Nat /\ (t = << >> <=> Len(t) = 0)
    BY <1>2, ShortSeqs
  <2>3. Len(s \o t) = Len(s) + Len(t)
    BY <1>2, ConcatProperties
  <2> QED
    BY <2>1, <2>2, <2>3
<1>5. WellFormed(text) <=> ~(s = << >> /\ t = << >>) /\ Len(t) <= 2
  <2>1. WellFormed(text) <=> Len(s \o t) > 0 /\ Len(t) <= 2
    BY DEF WellFormed
  <2>2. Len(s \o t) > 0 <=> ~(s = << >> /\ t = << >>)
    <3> HIDE DEF s, t
    <3> QED
      BY ONLY <1>4
  <2> QED
    BY <2>1, <2>2
<1>6. Whole(s) = IF w \in Amount THEN w ELSE Refused
  BY <1>2, WholeIs
<1>7. Parse(text) = IF (s = << >> /\ t = << >>) \/ Whole(s) = Refused \/ Len(t) > 2
                        THEN Refused
                        ELSE IF total # Refused /\ text.neg THEN -total ELSE total
  BY DEF Parse
<1>8. CASE WellFormed(text)
  <2>1. w \in Nat /\ Cents(t) \in Nat /\ Numeral(s \o t) * Padding[Len(t)] = n
    BY <1>2, <1>5, <1>8, TextValue
  <2>2. ValueOf(text) = IF text.neg THEN -n ELSE n
    BY <2>1 DEF ValueOf
  <2>3. n \in Nat /\ n >= w
    <3>1. w * Centi >= w * 1 /\ w * Centi \in Nat
      BY <1>1, <2>1
    <3> QED
      BY <2>1, <3>1
  <2>4. w \in Amount => Whole(s) = w /\ total = Fits(n)
    BY <1>6
  <2> HIDE DEF n, w, s, t, total
  <2>5. CASE w \notin Amount
    <3>1. n >= Half
      BY <1>1, <1>3, <2>1, <2>3, <2>5
    <3> QED
      BY <1>1, <1>6, <1>7, <2>2, <2>3, <2>5, <3>1 DEF MaxAmount
  <2>6. CASE w \in Amount /\ n \notin Amount
    <3>1. n >= Half
      BY <1>1, <1>3, <2>3, <2>6
    <3>2. total = Refused
      BY <2>4, <2>6 DEF Fits
    <3> QED
      BY <1>1, <1>7, <2>2, <2>3, <3>1, <3>2 DEF MaxAmount
  <2>7. CASE w \in Amount /\ n \in Amount
    <3>1. total = n /\ w # Refused /\ n # Refused
      BY <1>1, <2>1, <2>3, <2>4, <2>7 DEF Fits
    <3>2. Parse(text) = IF text.neg THEN -n ELSE n
      BY <1>5, <1>7, <1>8, <2>4, <2>7, <3>1, <1>4
    <3>3. n <= Half - 1 /\ -n \in Int /\ -n >= -Half
      BY <1>1, <1>3, <2>3, <2>7
    <3>4. Parse(text) \in Amount /\ Parse(text) # Refused
      BY <1>1, <1>3, <2>3, <2>7, <3>2, <3>3
    <3> QED
      BY <1>8, <2>2, <3>2, <3>4
  <2> QED
    BY <2>5, <2>6, <2>7
<1>9. CASE ~WellFormed(text)
  BY <1>4, <1>5, <1>7, <1>9
<1> QED
  BY <1>8, <1>9
-----------------------------------------------------------------------------
\* The amounts whose negatives are amounts.
Mirrored == -MaxAmount .. MaxAmount

\* What wrapping does to a sum and to a negative.
LEMMA WrapIs ==
  /\ \A n \in Int : Wrap(n) \in Amount
  /\ \A n \in Amount : Wrap(n) = n
  /\ \A n \in Amount : Wrap(-n) = IF n = -Half THEN -Half ELSE -n
  /\ \A n \in Int : n \in Amount <=> -Half <= n /\ n <= Half - 1
  /\ \A n \in Int : n \in Mirrored <=> n \in Amount /\ n # -Half
  /\ Amount \subseteq Int /\ Mirrored \subseteq Amount
<1> DEFINE k == 2 * Half
<1>1. Half \in Nat /\ Half >= 2 /\ k \in Nat /\ k > 0 /\ k = Half + Half
  BY MoneySizes
<1>2. \A n \in Int : n \in Amount <=> -Half <= n /\ n <= Half - 1
  BY <1>1 DEF Amount, MinAmount, MaxAmount
<1>3. \A n \in Int : n \in Mirrored <=> -(Half - 1) <= n /\ n <= Half - 1
  BY <1>1 DEF Mirrored, MaxAmount
<1>4. Amount \subseteq Int /\ Mirrored \subseteq Int
  BY <1>1 DEF Amount, MinAmount, MaxAmount, Mirrored
<1>5. \A n : Wrap(n) = ((n + Half) % k) - Half
  BY DEF Wrap
<1> HIDE DEF k
<1>6. ASSUME NEW n \in Int
      PROVE  Wrap(n) \in Amount
  <2> DEFINE m == (n + Half) % k
  <2>1. m \in 0 .. k - 1
    BY <1>1
  <2>2. Wrap(n) = m - Half
    BY <1>5
  <2> HIDE DEF m
  <2> QED
    BY <1>1, <1>2, <2>1, <2>2
<1>7. ASSUME NEW n \in Int, -Half <= n, n <= Half - 1
      PROVE  Wrap(n) = n
  <2> DEFINE m == n + Half
  <2>1. m \in 0 .. k - 1 /\ m = k * 0 + m /\ m \in Int
    BY <1>1, <1>7
  <2>2. Wrap(n) = (m % k) - Half
    BY <1>5
  <2>3. m - Half = n
    BY <1>1
  <2> HIDE DEF m
  <2>4. m % k = m
    BY <1>1, <2>1
  <2> QED
    BY <2>2, <2>3, <2>4
<1>8. Wrap(Half) = -Half
  <2>1. k % k = 0
    BY <1>1
  <2> QED
    BY <1>1, <1>5, <2>1
<1>9. ASSUME NEW n \in Amount
      PROVE  Wrap(-n) = IF n = -Half THEN -Half ELSE -n
  <2>1. n \in Int /\ -Half <= n /\ n <= Half - 1
    BY <1>2, <1>4
  <2>2. CASE n = -Half
    <3>1. -n = Half
      BY <1>1, <2>2
    <3> QED
      BY <1>8, <2>2, <3>1
  <2>3. CASE n # -Half
    <3>1. -n \in Int /\ -Half <= -n /\ -n <= Half - 1
      BY <1>1, <2>1, <2>3
    <3> QED
      BY <1>7, <2>3, <3>1
  <2> QED
    BY <2>2, <2>3
<1>10. \A n \in Int : n \in Mirrored <=> n \in Amount /\ n # -Half
  BY <1>1, <1>2, <1>3
<1> QED
  BY <1>2, <1>4, <1>6, <1>7, <1>9, <1>10

\* Negated postings are postings of the same number.
LEMMA NegatedIs ==
  ASSUME NEW s \in Seq(Amount)
  PROVE  /\ Negated(s) \in Seq(Amount)
         /\ DOMAIN Negated(s) = DOMAIN s
         /\ \A i \in DOMAIN s :
              /\ s[i] \in Amount
              /\ Negated(s)[i] = IF s[i] = -Half THEN -Half ELSE -s[i]
<1>1. Len(s) \in Nat /\ DOMAIN s = 1 .. Len(s) /\ \A i \in DOMAIN s : s[i] \in Amount
  BY LenProperties
<1>2. \A i \in DOMAIN s : -s[i] \in Int
  <2> SUFFICES ASSUME NEW i \in DOMAIN s
               PROVE  -s[i] \in Int
    OBVIOUS
  <2>1. s[i] \in Amount /\ Amount \subseteq Int
    BY <1>1, WrapIs
  <2>2. s[i] \in Int
    BY ONLY <2>1
  <2> QED
    BY ONLY <2>2
<1>3. \A i \in DOMAIN s : Wrap(-s[i]) \in Amount
                          /\ Wrap(-s[i]) = IF s[i] = -Half THEN -Half ELSE -s[i]
  BY <1>1, <1>2, WrapIs
<1>4. Negated(s) = [i \in 1 .. Len(s) |-> Wrap(-s[i])]
  BY <1>1 DEF Negated
<1>5. Negated(s) \in Seq(Amount)
  BY <1>1, <1>3, <1>4
<1> QED
  BY <1>1, <1>3, <1>4, <1>5

\* The sum of a sequence, and what comes first in it.
LEMMA SeqSum ==
  ASSUME NEW s \in Seq(Int)
  PROVE  /\ Added(s) \in Int /\ Added(s) = Sum(s, DOMAIN s) /\ IsFiniteSet(DOMAIN s)
         /\ \A i \in DOMAIN s : s[i] \in Int
<1>1. Len(s) \in Nat /\ DOMAIN s = 1 .. Len(s) /\ \A i \in DOMAIN s : s[i] \in Int
  BY LenProperties
<1>2. IsFiniteSet(DOMAIN s)
  BY <1>1, FS_Interval
<1>3. Added(s) = Sum(s, DOMAIN s)
  BY DEF Added, SumFunction, SumFunctionOnSet, FoldFunctionOnSet, MapThenFoldSet,
         Sum, Adds, Pick
<1>4. Sum(s, DOMAIN s) \in Int
  BY <1>1, <1>2, SumRemoves
<1> QED
  BY <1>1, <1>2, <1>3, <1>4

LEMMA SumOfFirst ==
  ASSUME NEW a \in Int, NEW s \in Seq(Int)
  PROVE  <<a>> \o s \in Seq(Int) /\ (<<a>> \o s)[1] = a /\ Added(<<a>> \o s) = a + Added(s)
<1> DEFINE t == <<a>> \o s
           n == Len(s)
           rest == DOMAIN t \ {1}
           b == [i \in DOMAIN s |-> i + 1]
<1>1. n \in Nat /\ DOMAIN s = 1 .. n
  BY LenProperties
<1>2. t \in Seq(Int) /\ DOMAIN t = 1 .. n + 1 /\ t[1] = a /\ \A i \in 1 .. n : t[i + 1] = s[i]
  <2>1. <<a>> \in Seq(Int) /\ Len(<<a>>) = 1 /\ <<a>>[1] = a
    OBVIOUS
  <2>2. t \in Seq(Int) /\ Len(t) = 1 + n
    BY <2>1, ConcatProperties
  <2>3. t[1] = a
    BY <1>1, <2>1, ConcatProperties
  <2>4. ASSUME NEW i \in 1 .. n
        PROVE  t[i + 1] = s[i]
    <3>1. i + 1 \in 1 .. (1 + n) /\ i + 1 > 1 /\ (i + 1) - 1 = i
      BY <1>1
    <3> QED
      BY <1>1, <2>1, <3>1, ConcatProperties
  <2>5. DOMAIN t = 1 .. n + 1
    BY <1>1, <2>2
  <2> QED
    BY <2>2, <2>3, <2>4, <2>5
<1>3. rest = 2 .. n + 1
  BY <1>1, <1>2
<1> HIDE DEF t, n, rest, b
<1>4. Added(t) = Sum(t, DOMAIN t) /\ Added(s) = Sum(s, DOMAIN s)
      /\ IsFiniteSet(DOMAIN t) /\ IsFiniteSet(DOMAIN s)
      /\ (\A i \in DOMAIN t : t[i] \in Int) /\ \A i \in DOMAIN s : s[i] \in Int
  BY <1>2, SeqSum
<1>5. 1 \in DOMAIN t
  BY <1>1, <1>2
<1>6. Sum(t, DOMAIN t) = t[1] + Sum(t, rest)
  BY <1>4, <1>5, SumRemoves DEF rest
<1>7. Sum(s, DOMAIN s) = Sum(t, rest)
  <2>1. IsFiniteSet(rest) /\ \A y \in rest : t[y] \in Int
    BY <1>4, FS_Subset DEF rest
  <2>2. \A x \in DOMAIN s : b[x] = x + 1 /\ x \in 1 .. n
    BY <1>1 DEF b
  <2>3. /\ \A x \in DOMAIN s : b[x] \in rest
        /\ \A x, y \in DOMAIN s : b[x] = b[y] => x = y
        /\ \A x \in DOMAIN s : s[x] = t[b[x]]
    BY <1>1, <1>2, <1>3, <2>2
  <2>4. \A y \in rest : \E x \in DOMAIN s : b[x] = y
    <3> SUFFICES ASSUME NEW y \in rest
                 PROVE  \E x \in DOMAIN s : b[x] = y
      OBVIOUS
    <3>1. y - 1 \in DOMAIN s /\ (y - 1) + 1 = y
      BY <1>1, <1>3
    <3> QED
      BY <2>2, <3>1
  <2> QED
    <3> DEFINE d == DOMAIN s
    <3>1. IsFiniteSet(d) /\ IsFiniteSet(rest) /\ \A y \in rest : t[y] \in Int
      BY <1>4, <2>1
    <3>2. /\ \A x \in d : b[x] \in rest
          /\ \A x, y \in d : b[x] = b[y] => x = y
          /\ \A x \in d : s[x] = t[b[x]]
          /\ \A y \in rest : \E x \in d : b[x] = y
      BY <2>3, <2>4
    <3> HIDE DEF d
    <3>3. Sum(s, d) = Sum(t, rest)
      BY ONLY <3>1, <3>2, SumMoved
    <3> QED
      BY <3>3 DEF d
<1> QED
  BY <1>2, <1>4, <1>6, <1>7 DEF t

\* Amounts without a sign that come to nothing are nothing.
LEMMA NothingAddsUp ==
  ASSUME NEW D, IsFiniteSet(D), NEW f, \A x \in D : f[x] \in Nat, Sum(f, D) = 0
  PROVE  \A x \in D : f[x] = 0
<1> SUFFICES ASSUME NEW x \in D
             PROVE  f[x] = 0
  OBVIOUS
<1>1. Sum(f, D) = f[x] + Sum(f, D \ {x})
  BY SumRemoves
<1>2. Sum(f, D \ {x}) \in Nat
  <2>1. IsFiniteSet(D \ {x})
    BY FS_Subset
  <2> QED
    BY <2>1, SumIsNat
<1> QED
  BY <1>1, <1>2

\* An invoice whose postings add up to zero has the sum of its lines on the control
\* account, since no line is the one amount that negation leaves as it is.
LEMMA InvoiceLegs ==
  ASSUME NEW s \in Seq(Mirrored),
         Added(<<Wrap(Added(s))>> \o Negated(s)) = 0
  PROVE  Wrap(Added(s)) = Added(s)
<1> DEFINE neg == Negated(s)
           w == Wrap(Added(s))
           d == DOMAIN s
<1>1. Mirrored \subseteq Int /\ Half \in Nat
  BY WrapIs, MoneySizes
<1>2. Len(s) \in Nat /\ d = 1 .. Len(s) /\ \A i \in d : s[i] \in Mirrored
  BY LenProperties
<1>3. s \in Seq(Int) /\ s \in Seq(Amount)
  <2>1. Mirrored \subseteq Amount
    BY WrapIs
  <2> QED
    BY <1>1, <2>1, SeqOfMore
<1>4. Added(s) \in Int /\ Added(s) = Sum(s, d) /\ IsFiniteSet(d)
  BY <1>3, SeqSum
<1>5. w \in Int
  BY <1>4, WrapIs
<1>6. neg \in Seq(Amount) /\ DOMAIN neg = d /\ \A i \in d : neg[i] = -s[i]
  BY <1>1, <1>2, <1>3, NegatedIs, WrapIs
<1>7. neg \in Seq(Int)
  <2>1. Amount \subseteq Int
    BY WrapIs
  <2> QED
    BY <1>6, <2>1, SeqOfMore
<1>8. Added(<<w>> \o neg) = w + Added(neg) /\ Added(neg) = Sum(neg, d) /\ Added(neg) \in Int
  BY <1>5, <1>6, <1>7, SumOfFirst, SeqSum
<1>9. Sum(neg, d) = -Sum(s, d)
  <2> HIDE DEF neg, d
  <2>1. \A i \in d : s[i] \in Int /\ neg[i] = -s[i]
    BY <1>1, <1>2, <1>6
  <2> QED
    BY ONLY <1>4, <2>1, SumNegates
<1> QED
  BY <1>4, <1>5, <1>8, <1>9

\* Postings that add up to zero before and after negation hold no amount that
\* negation leaves as it is.
LEMMA ReversalLegs ==
  ASSUME NEW s \in Seq(Amount), Added(s) = 0, Added(Negated(s)) = 0
  PROVE  \A i \in DOMAIN s : Negated(s)[i] = -s[i]
<1> DEFINE neg == Negated(s)
           d == DOMAIN s
           h == [i \in d |-> s[i] + neg[i]]
           f == [i \in d |-> -h[i]]
<1>1. Half \in Nat /\ Half >= 2 /\ Amount \subseteq Int
  BY MoneySizes, WrapIs
<1>2. neg \in Seq(Amount) /\ DOMAIN neg = d
      /\ \A i \in d : s[i] \in Int /\ neg[i] \in Int
                      /\ neg[i] = IF s[i] = -Half THEN -Half ELSE -s[i]
  BY <1>1, NegatedIs
<1>3. s \in Seq(Int) /\ neg \in Seq(Int)
  BY <1>1, <1>2, SeqOfMore
<1>4. Sum(s, d) = 0 /\ Sum(neg, d) = 0 /\ IsFiniteSet(d)
  BY <1>2, <1>3, SeqSum
<1> HIDE DEF neg, d, f
<1>5. \A i \in d : h[i] = s[i] + neg[i] /\ h[i] \in Int
  BY <1>2
<1>6. Sum(h, d) = Sum(s, d) + Sum(neg, d)
  <2> HIDE DEF h
  <2>1. \A i \in d : s[i] \in Int /\ neg[i] \in Int /\ h[i] = s[i] + neg[i]
    BY <1>2, <1>5
  <2> QED
    BY ONLY <1>4, <2>1, SumPlus
<1> HIDE DEF h
<1>7. \A i \in d : f[i] = -h[i] /\ f[i] \in Nat
  <2> SUFFICES ASSUME NEW i \in d
               PROVE  f[i] = -h[i] /\ f[i] \in Nat
    OBVIOUS
  <2>1. f[i] = -h[i]
    BY DEF f
  <2>2. s[i] \in Int /\ neg[i] \in Int /\ h[i] = s[i] + neg[i]
        /\ neg[i] = IF s[i] = -Half THEN -Half ELSE -s[i]
    BY <1>2, <1>5
  <2> DEFINE a == s[i]
             b == neg[i]
  <2>3. a \in Int /\ b \in Int /\ f[i] = -(a + b) /\ b = IF a = -Half THEN -Half ELSE -a
    BY <2>1, <2>2
  <2> HIDE DEF a, b
  <2>4. f[i] \in Nat
    BY ONLY <1>1, <2>3
  <2> QED
    BY ONLY <2>1, <2>4
<1>8. Sum(h, d) = -Sum(f, d)
  <2>1. \A i \in d : f[i] \in Int /\ h[i] = -f[i]
    BY <1>5, <1>7
  <2> QED
    BY ONLY <1>4, <2>1, SumNegates
<1>9. Sum(f, d) = 0
  <2>1. Sum(f, d) \in Nat
    BY <1>4, <1>7, SumIsNat
  <2> QED
    BY ONLY <1>4, <1>6, <1>8, <2>1
<1>10. \A i \in d : f[i] = 0
  <2>1. \A i \in d : f[i] \in Nat
    BY <1>7
  <2> QED
    BY ONLY <1>4, <1>9, <2>1, NothingAddsUp
<1>11. \A i \in d : neg[i] = -s[i]
  <2> SUFFICES ASSUME NEW i \in d
               PROVE  neg[i] = -s[i]
    OBVIOUS
  <2>1. s[i] \in Int /\ neg[i] \in Int /\ h[i] = s[i] + neg[i] /\ f[i] = -h[i] /\ f[i] = 0
    BY <1>2, <1>5, <1>7, <1>10
  <2> QED
    BY ONLY <2>1
<1> QED
  BY <1>11 DEF neg, d
-----------------------------------------------------------------------------
\* No line total is the smallest amount; the rest is what the run checks.
MoneyInv ==
  /\ PostingsAreExact /\ TextIsExact
  /\ draft \in Seq(Mirrored)
  /\ asked # None => Len(draft) < MaxDraft

\* What a line total is made of.
LEMMA TotalOfLine ==
  ASSUME NEW price \in Amount, NEW qty \in Amount
  PROVE  LET product == price * Quantity(qty)
             total == LineTotal(price, Quantity(qty))
         IN  /\ total = Refused => product \notin Amount
             /\ total # Refused => total \in Mirrored /\ Nearest(total, product)
<1> DEFINE product == price * Quantity(qty)
           total == LineTotal(price, Quantity(qty))
<1>1. price \in Int /\ qty \in Int /\ Centi \in Int
  BY WrapIs, MoneySizes
<1>2. product \in Int
  BY <1>1 DEF Quantity
<1>3. total = IF Fits(product) = Refused THEN Refused ELSE Rounded(product)
  BY DEF LineTotal
<1> HIDE DEF product, total
<1>4. CASE product \in Amount
  <2>1. Fits(product) # Refused
    BY MoneyAssumption, <1>2, <1>4 DEF Fits
  <2>2. total = Rounded(product) /\ Nearest(total, product) /\ total \in Mirrored
    BY <1>3, <1>4, <2>1, RoundedIsNearest DEF Mirrored
  <2>3. total # Refused
    BY MoneyAssumption, <2>2, WrapIs
  <2> QED
    BY <2>2, <2>3 DEF product, total
<1>5. CASE product \notin Amount
  <2>1. Fits(product) = Refused
    BY <1>5 DEF Fits
  <2> QED
    BY <1>3, <1>5, <2>1 DEF product, total
<1> QED
  BY <1>4, <1>5

\* Nothing is drafted, entered or printed at first.
LEMMA InitAmounts ==
  ASSUME MoneyInit
  PROVE  MoneyInv
<1>1. draft = << >> /\ asked = None /\ entry = None /\ paper = None /\ MaxDraft \in Nat
  BY MoneyAssumption DEF MoneyInit
<1>2. << >> \in Seq(Amount) /\ << >> \in Seq(Mirrored) /\ Len(<< >>) = 0
  OBVIOUS
<1>3. MoneyTypeOK
  BY ONLY <1>1, <1>2 DEF MoneyTypeOK
<1>4. PostingsAreExact /\ TextIsExact
  BY ONLY <1>1, <1>3 DEF PostingsAreExact, TextIsExact
<1> QED
  BY ONLY <1>1, <1>2, <1>4 DEF MoneyInv

\* An entry whose postings are what its kind promises.
LEMMA EntryIsExact ==
  ASSUME MoneyInv, NEW kind, NEW p \in Seq(Amount), NEW from \in Seq(Amount),
         entry' = [kind |-> kind, postings |-> p, from |-> from],
         draft' \in {draft, << >>}, asked' = asked, paper' = paper, Added(p) = 0,
         kind = "invoice" => p[1] = Added(from),
         kind = "bill" => p[1] = -Added(from),
         kind = "reversal" => \A i \in DOMAIN from : p[i] = -from[i]
  PROVE  MoneyInv'
<1>1. entry'.kind = kind /\ entry'.postings = p /\ entry'.from = from
  OBVIOUS
<1>2. << >> \in Seq(Amount) /\ << >> \in Seq(Mirrored) /\ Len(<< >>) = 0 /\ MaxDraft \in Nat
  BY MoneyAssumption
<1>3. MoneyTypeOK'
  <2>1. MoneyTypeOK
    BY DEF MoneyInv, PostingsAreExact
  <2>2. draft' \in Seq(Amount) /\ Len(draft') <= MaxDraft
    <3>1. CASE draft' = draft
      BY <2>1, <3>1 DEF MoneyTypeOK
    <3>2. CASE draft' = << >>
      BY <1>2, <3>2
    <3> QED
      BY <3>1, <3>2
  <2>3. asked' = None \/ asked' \in [price : Amount, qty : Amount]
    BY <2>1 DEF MoneyTypeOK
  <2>4. paper' # None => paper'.value \in Amount \cup {Refused}
    BY <2>1 DEF MoneyTypeOK
  <2> QED
    BY <1>1, <2>2, <2>3, <2>4 DEF MoneyTypeOK
<1>4. PostingsAreExact'
  BY <1>1, <1>3 DEF PostingsAreExact
<1>5. TextIsExact'
  BY DEF MoneyInv, TextIsExact
<1>6. draft' \in Seq(Mirrored) /\ (asked' # None => Len(draft') < MaxDraft)
  <2>1. draft \in Seq(Mirrored) /\ Len(draft) \in Nat /\ (asked # None => Len(draft) < MaxDraft)
    BY LenProperties DEF MoneyInv
  <2>2. CASE draft' = draft
    BY <2>1, <2>2
  <2>3. CASE draft' = << >>
    BY <1>2, <2>1, <2>3
  <2> QED
    BY <2>2, <2>3
<1> QED
  BY <1>4, <1>5, <1>6 DEF MoneyInv

\* Every step keeps it.
LEMMA NextMoney ==
  ASSUME MoneyInv, MoneyNext
  PROVE  MoneyInv'
<1>0. /\ draft \in Seq(Amount) /\ Len(draft) <= MaxDraft /\ draft \in Seq(Mirrored)
      /\ MaxDraft \in Nat /\ Len(draft) \in Nat
      /\ asked = None \/ asked \in [price : Amount, qty : Amount]
      /\ Amount \subseteq Int /\ Mirrored \subseteq Amount
  BY MoneyAssumption, WrapIs, LenProperties DEF MoneyInv, PostingsAreExact, MoneyTypeOK
<1>1. CASE \E price, qty \in Amount : AskLine(price, qty)
  <2>1. PICK price, qty \in Amount : AskLine(price, qty)
    BY <1>1
  <2>2. /\ asked' \in [price : Amount, qty : Amount] /\ Len(draft) < MaxDraft
        /\ draft' = draft /\ entry' = entry /\ paper' = paper
    BY <2>1 DEF AskLine
  <2>3. MoneyTypeOK /\ PostingsAreExact /\ TextIsExact
    BY DEF MoneyInv, PostingsAreExact
  <2>4. MoneyTypeOK'
    BY <2>2, <2>3 DEF MoneyTypeOK
  <2>5. PostingsAreExact' /\ TextIsExact'
    BY <2>2, <2>3, <2>4 DEF PostingsAreExact, TextIsExact
  <2> QED
    BY <1>0, <2>2, <2>5 DEF MoneyInv
<1>2. CASE AddLine
  <2> DEFINE total == LineTotal(asked.price, Quantity(asked.qty))
  <2>1. asked # None /\ draft' = (IF total = Refused THEN draft ELSE Append(draft, total))
        /\ asked' = None /\ UNCHANGED <<entry, paper>>
    BY <1>2 DEF AddLine
  <2>2. asked.price \in Amount /\ asked.qty \in Amount
    BY <1>0, <2>1
  <2>3. total # Refused => total \in Mirrored
    BY <2>2, TotalOfLine
  <2> HIDE DEF total
  <2>4. CASE total = Refused
    <3>1. UNCHANGED <<draft, entry, paper>> /\ asked' = None
      BY <2>1, <2>4
    <3> QED
      BY <3>1 DEF MoneyInv, PostingsAreExact, TextIsExact, MoneyTypeOK
  <2>5. CASE total # Refused
    <3>1. total \in Mirrored /\ total \in Amount /\ draft' = Append(draft, total)
      BY <1>0, <2>1, <2>3, <2>5
    <3>2. /\ draft' \in Seq(Mirrored) /\ draft' \in Seq(Amount)
          /\ Len(draft') = Len(draft) + 1
      BY <1>0, <3>1, AppendProperties
    <3>3. Len(draft') <= MaxDraft
      BY <1>0, <2>1, <3>2 DEF MoneyInv
    <3> QED
      BY <2>1, <3>2, <3>3 DEF MoneyInv, PostingsAreExact, TextIsExact, MoneyTypeOK
  <2> QED
    BY <2>4, <2>5
<1>3. Added(draft) \in Int /\ Wrap(Added(draft)) \in Amount
      /\ Negated(draft) \in Seq(Amount)
  <2>1. draft \in Seq(Int)
    BY <1>0, SeqOfMore
  <2>2. Added(draft) \in Int
    BY <2>1, SeqSum
  <2> QED
    BY <1>0, <2>2, WrapIs, NegatedIs
<1>4. CASE Issue
  <2> DEFINE p == InvoicePostings
             w == Wrap(Added(draft))
  <2>1. /\ asked = None /\ Added(p) = 0 /\ draft' = << >> /\ asked' = asked /\ paper' = paper
        /\ entry' = [kind |-> "invoice", postings |-> p, from |-> draft]
    BY <1>4 DEF Issue, Entered, Accepted
  <2>2. p = <<w>> \o Negated(draft)
    BY DEF InvoicePostings
  <2>3. w = Added(draft)
    BY <1>0, <2>1, <2>2, InvoiceLegs
  <2>4. p \in Seq(Amount) /\ p[1] = w
    <3>1. w \in Amount /\ w \in Int /\ Negated(draft) \in Seq(Int)
      BY <1>0, <1>3, SeqOfMore
    <3>2. <<w>> \in Seq(Amount)
      BY <3>1
    <3> HIDE DEF w
    <3>3. <<w>> \o Negated(draft) \in Seq(Amount)
      BY <1>3, <3>2, ConcatProperties
    <3> QED
      BY <2>2, <3>1, <3>3, SumOfFirst
  <2> HIDE DEF p, w
  <2> QED
    BY <1>0, <2>1, <2>3, <2>4, EntryIsExact
<1>5. CASE Enter
  <2> DEFINE p == BillPostings
             w == Wrap(Added(draft))
             first == Negated(<<w>>)[1]
  <2>1. /\ asked = None /\ Added(p) = 0 /\ draft' = << >> /\ asked' = asked /\ paper' = paper
        /\ entry' = [kind |-> "bill", postings |-> p, from |-> draft]
    BY <1>5 DEF Enter, Entered, Accepted
  <2>2. first \in Amount /\ Negated(<<w>>) = <<first>>
    <3>1. <<w>> \in Seq(Amount) /\ DOMAIN <<w>> = {1}
      BY <1>3
    <3> HIDE DEF w
    <3>2. Negated(<<w>>) \in Seq(Amount) /\ DOMAIN Negated(<<w>>) = {1}
      BY <3>1, NegatedIs
    <3> DEFINE q == Negated(<<w>>)
    <3>3. q \in Seq(Amount) /\ Len(q) = 1
      <4> HIDE DEF q
      <4>1. q \in Seq(Amount) /\ DOMAIN q = {1}
        BY <3>2 DEF q
      <4>2. Len(q) \in Nat /\ DOMAIN q = 1 .. Len(q)
        BY <4>1, LenProperties
      <4> QED
        BY <4>1, <4>2
    <3> HIDE DEF q
    <3>4. PICK a \in Amount : q = <<a>>
      BY <3>3, ShortSeqs
    <3> QED
      BY <3>4 DEF q
  <2>3. p = <<first>> \o draft
    BY <2>2 DEF BillPostings
  <2> HIDE DEF w, first
  <2>4. draft \in Seq(Int) /\ first \in Int /\ <<first>> \in Seq(Amount)
    <3>1. draft \in Seq(Int)
      BY <1>0, SeqOfMore
    <3> QED
      BY <1>0, <2>2, <3>1
  <2>5. p[1] = first /\ Added(p) = first + Added(draft)
    BY <2>3, <2>4, SumOfFirst
  <2>6. p \in Seq(Amount)
    BY <1>0, <2>3, <2>4, ConcatProperties
  <2>7. p[1] = -Added(draft)
    BY <1>3, <2>1, <2>4, <2>5
  <2> HIDE DEF p
  <2> QED
    BY <1>0, <2>1, <2>6, <2>7, EntryIsExact
<1>6. CASE ReverseEntry
  <2> DEFINE s == entry.postings
             p == Negated(s)
  <2>1. /\ entry # None /\ Added(p) = 0 /\ UNCHANGED <<draft, asked, paper>>
        /\ entry' = [kind |-> "reversal", postings |-> p, from |-> s]
    BY <1>6 DEF ReverseEntry
  <2>2. s \in Seq(Amount) /\ Added(s) = 0
    BY <2>1 DEF MoneyInv, PostingsAreExact, MoneyTypeOK
  <2> HIDE DEF s
  <2>3. p \in Seq(Amount)
    BY <2>2, NegatedIs
  <2>4. \A i \in DOMAIN s : p[i] = -s[i]
    BY <2>1, <2>2, ReversalLegs
  <2> HIDE DEF p
  <2> QED
    BY <1>0, <2>1, <2>2, <2>3, <2>4, EntryIsExact
<1>7. CASE PutAway
  <2>1. draft' = << >> /\ asked' = asked /\ entry' = None /\ paper' = None /\ asked = None
    BY <1>7 DEF PutAway
  <2>2. << >> \in Seq(Amount) /\ << >> \in Seq(Mirrored) /\ Len(<< >>) = 0
    OBVIOUS
  <2> QED
    BY <1>0, <2>1, <2>2 DEF MoneyInv, PostingsAreExact, TextIsExact, MoneyTypeOK
<1>8. CASE \E n \in 2 .. MaxHand : \E amounts \in [1 .. n -> Amount] : PostManual(amounts)
  <2>0. PICK n \in 2 .. MaxHand : \E p \in [1 .. n -> Amount] : PostManual(p)
    BY <1>8
  <2>1. PICK p \in [1 .. n -> Amount] : PostManual(p)
    BY <2>0
  <2>2. /\ asked = None /\ Added(p) = 0 /\ draft' = << >> /\ asked' = asked /\ paper' = paper
        /\ entry' = [kind |-> "manual", postings |-> p, from |-> << >>]
    BY <2>1 DEF PostManual, Entered, Accepted
  <2>3. p \in Seq(Amount) /\ << >> \in Seq(Amount)
    OBVIOUS
  <2> DEFINE kind == "manual"
  <2>4. kind # "invoice" /\ kind # "bill" /\ kind # "reversal"
    OBVIOUS
  <2>5. entry' = [kind |-> kind, postings |-> p, from |-> << >>] /\ draft' \in {draft, << >>}
    BY <2>2
  <2> HIDE DEF kind
  <2> QED
    BY <2>2, <2>3, <2>4, <2>5, EntryIsExact
<1>9. ASSUME NEW text, NEW value \in Amount \cup {Refused},
             paper' = [text |-> text, value |-> value],
             UNCHANGED <<draft, asked, entry>>,
             IF value = Refused
               THEN ~WellFormed(text) \/ ValueOf(text) \notin -MaxAmount .. MaxAmount
               ELSE WellFormed(text) /\ value = ValueOf(text)
      PROVE  MoneyInv'
  <2>1. paper'.text = text /\ paper'.value = value
    BY <1>9
  <2>2. PostingsAreExact'
    BY <1>9, <2>1 DEF MoneyInv, PostingsAreExact, MoneyTypeOK
  <2>3. TextIsExact'
    BY <1>9, <2>1 DEF TextIsExact
  <2> QED
    BY <1>9, <2>2, <2>3 DEF MoneyInv
<1>10. CASE \E a \in Amount : WriteText(a)
  <2>1. PICK a \in Amount : WriteText(a)
    BY <1>10
  <2>2. a # Refused
    BY MoneyAssumption, <1>0
  <2> QED
    BY <1>9, <2>1, <2>2, FormatIsExact DEF WriteText
<1>11. CASE \E text \in Texts : ReadText(text)
  <2>1. PICK text \in Texts : ReadText(text)
    BY <1>11
  <2> QED
    BY <1>9, <2>1, ParseIsExact DEF ReadText
<1> QED
  BY <1>1, <1>2, <1>4, <1>5, <1>6, <1>7, <1>8, <1>10, <1>11 DEF MoneyNext

\* Steps that change nothing keep it too.
LEMMA StutterMoney ==
  ASSUME MoneyInv, UNCHANGED moneyVars
  PROVE  MoneyInv'
BY DEF MoneyInv, moneyVars, PostingsAreExact, TextIsExact, MoneyTypeOK

\* What the step that stores a line stores.
LEMMA StepStoresNearest ==
  ASSUME MoneyInv, MoneyNext, asked # None, asked' = None
  PROVE  LET product == asked.price * Quantity(asked.qty) IN
         IF draft' = draft THEN product \notin Amount
                           ELSE Nearest(draft'[Len(draft')], product)
<1> DEFINE product == asked.price * Quantity(asked.qty)
           total == LineTotal(asked.price, Quantity(asked.qty))
<1>1. asked.price \in Amount /\ asked.qty \in Amount
  BY DEF MoneyInv, PostingsAreExact, MoneyTypeOK
<1>2. draft \in Seq(Mirrored) /\ Len(draft) \in Nat
  BY LenProperties DEF MoneyInv
<1>3. AddLine
  BY DEF MoneyNext, AskLine, Issue, Enter, Entered, ReverseEntry, PutAway,
         PostManual, WriteText, ReadText
<1>4. draft' = IF total = Refused THEN draft ELSE Append(draft, total)
  BY <1>3 DEF AddLine
<1>5. /\ total = Refused => product \notin Amount
      /\ total # Refused => total \in Mirrored /\ Nearest(total, product)
  BY <1>1, TotalOfLine
<1> HIDE DEF product, total
<1>6. CASE total = Refused
  BY <1>4, <1>5, <1>6 DEF product
<1>7. CASE total # Refused
  <2>1. total \in Mirrored /\ draft' = Append(draft, total)
    BY <1>4, <1>5, <1>7
  <2>2. Len(draft') = Len(draft) + 1 /\ draft'[Len(draft) + 1] = total
    BY <1>2, <2>1, AppendProperties
  <2>3. draft' # draft
    BY <1>2, <2>2
  <2>4. draft'[Len(draft')] = total
    BY <2>2
  <2> QED
    BY <1>5, <1>7, <2>3, <2>4 DEF product
<1> QED
  BY <1>6, <1>7

\* The invariant of amounts, for every range, base and number of lines.
LEMMA MoneyInvariance == MoneySpec => []MoneyInv
<1>1. MoneyInit => MoneyInv
  BY ONLY MoneyAssumption, InitAmounts
<1>2. MoneyInv /\ [MoneyNext]_moneyVars => MoneyInv'
  BY NextMoney, StutterMoney
<1> QED
  BY <1>1, <1>2, PTL DEF MoneySpec

\* No sum that wrapped reaches an entry: what mb_invoice_issue, mb_bill_enter and
\* mb_journal_reverse post through post_core is exact, with any number of lines of
\* any amounts.
THEOREM PostingsStayExact == MoneySpec => []PostingsAreExact
<1>1. MoneyInv => PostingsAreExact
  BY DEF MoneyInv
<1> QED
  BY <1>1, MoneyInvariance, PTL

\* mb_money_format prints every amount as it is, and mb_money_parse reads a text of
\* any length as it is or refuses one that is no amount.
THEOREM TextsAreExact == MoneySpec => []TextIsExact
<1>1. MoneyInv => TextIsExact
  BY DEF MoneyInv
<1> QED
  BY <1>1, MoneyInvariance, PTL

\* mb_money_line_total stores the nearest amount, a half away from zero, for every
\* price and quantity, and refuses only a product that does not fit.
THEOREM LinesAreNearest == MoneySpec => LineTotalIsNearest
<1>1. MoneyInv /\ [MoneyNext]_moneyVars =>
        [asked # None /\ asked' = None =>
           LET product == asked.price * Quantity(asked.qty) IN
           IF draft' = draft THEN product \notin Amount
                             ELSE Nearest(draft'[Len(draft')], product)]_moneyVars
  BY StepStoresNearest
<1> QED
  BY <1>1, MoneyInvariance, PTL DEF MoneySpec, LineTotalIsNearest
=============================================================================
