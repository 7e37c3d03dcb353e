----------------------------- MODULE Settlement ----------------------------
(***************************************************************************)
(* Invoices, bills, payments and customer/vendor credit over one book.     *)
(*                                                                         *)
(* Several processes (the app, each MCP stdio server) may open the book.   *)
(* Every engine call first reads with autocommit statements, then writes   *)
(* in one BEGIN IMMEDIATE transaction (or one autocommit statement), and   *)
(* what it read is not read again.  A process here is one connection: it   *)
(* runs one call at a time, as a sequence of steps between which other     *)
(* processes may act.  SQLite makes each transaction atomic, so the write  *)
(* half of a call is one step; void has two write halves.                  *)
(*                                                                         *)
(* Abstractions.  A line is its line_total; a removed line keeps its       *)
(* place, since its uuid is never used again.  The payment and allocation  *)
(* tables and the control-account postings are append-only and only ever   *)
(* read through SUM(amount), so each is kept as those sums.  A pool is     *)
(* a counterparty on one side, INVOICE (Accounts Receivable) or BILL       *)
(* (Accounts Payable).  Of number, due date and memo it is kept whether    *)
(* they are still those the document was issued with.  Stamps and hashes   *)
(* are the subject of module Journal.                                      *)
(***************************************************************************)
EXTENDS Integers, Sequences, FiniteSets, Functions

CONSTANTS
  Proc,          \* processes that have the book open for writing
  Invoice, Bill, \* documents that may come to exist
  Party,         \* the counterparty of each document
  LineAmount,    \* line totals callers use
  PayAmount,     \* amounts callers pay or apply
  ManualAmount,  \* amounts callers post to a control account by hand
  MaxLines,      \* bound: lines ever added
  MaxManual,     \* bound: what manual postings may move a pool by
  MaxCut,        \* bound: voids that stop between their two writes
  NoDoc

Doc == Invoice \cup Bill

ASSUME DocAssumption == IsFiniteSet(Doc) /\ Invoice \cap Bill = {} /\ NoDoc \notin Doc
ASSUME PartyAssumption == DOMAIN Party = Doc
ASSUME AmountAssumption ==
  /\ LineAmount \cup ManualAmount \subseteq Int
  /\ PayAmount \subseteq Nat \ {0}   \* "amount must be positive"
ASSUME BoundAssumption == {MaxLines, MaxManual, MaxCut} \subseteq Nat

VARIABLES
  status,    \* invoice.status / bill.status
  lines,     \* invoice_line / bill_line rows of a document, removed ones kept
  reworded,  \* documents whose number, due date or memo changed after issue
  issues,    \* issue entries: document, its control posting, times reversed
  entryOf,   \* invoice.entry_id / bill.entry_id: index into issues, 0 when NULL
  settled,   \* SUM(allocation.amount) of a document
  applied,   \* SUM(allocation.amount) of a pool
  paid,      \* SUM(payment.amount) of a pool
  control,   \* SUM(posting.amount) on AR or AP tagged with the counterparty
  manual,    \* the part of control that transaction.post put there (history)
  cut,       \* voids of a document that stopped between their writes (history)
  call       \* what each process is doing, and what it has read

rows == <<status, lines, reworded, issues, entryOf, settled, applied, paid,
          control, manual>>
books == <<rows, cut>>
vars == <<books, call>>
-----------------------------------------------------------------------------
Status == {"ABSENT", "DRAFT", "OPEN", "PARTIAL", "PAID", "VOID"}
Payable == {"OPEN", "PARTIAL"}

\* info_for: the side of a document, and with its counterparty its pool.
Kind(d) == IF d \in Bill THEN "BILL" ELSE "INVOICE"
PoolOf == [d \in Doc |-> <<Kind(d), Party[d]>>]
Pool == {"INVOICE", "BILL"} \X {Party[d] : d \in Doc}

Lesser(a, b) == IF a < b THEN a ELSE b
AtLeastZero(a) == IF a < 0 THEN 0 ELSE a

\* A process's call: where it stands, on which document, with which argument
\* (an amount, or the place of a line), and the value it has read.
At(where, d, a, seen) == [at |-> where, doc |-> d, arg |-> a, seen |-> seen]
Idle == At("idle", NoDoc, 0, 0)

Start(p, where, d, a, seen) ==
  /\ call[p] = Idle
  /\ call' = [call EXCEPT ![p] = At(where, d, a, seen)]
Goto(p, where, seen) ==
  call' = [call EXCEPT ![p] = [@ EXCEPT !.at = where, !.seen = seen]]
Return(p) == call' = [call EXCEPT ![p] = Idle]

\* Process p stands at this step of a call on one of these documents.
On(p, where, docs) == call[p].at = where /\ call[p].doc \in docs

Kept(d) == {i \in DOMAIN lines[d] : lines[d][i].kept}

\* mb_invoice_total, mb_bill_total, doc_total: SUM(line_total).
Total(d) == SumFunction([i \in Kept(d) |-> lines[d][i].amount])

\* What is still to be settled, from two SUMs (read as one).
Remaining(d) == Total(d) - settled[d]

\* mb_counterparty_balance
CounterpartyBalance(q) == control[q]

AvailableEitherSide(q) ==  \* slip: payments of both sides are counted
  AtLeastZero(paid[<<"INVOICE", q[2]>>] + paid[<<"BILL", q[2]>>] - applied[q])

\* mb_credit_available
Available(q) == AtLeastZero(paid[q] - applied[q])

\* The row a call reads before it acts: mb_invoice_get, mb_bill_get.
Row(d) == [status |-> status[d], entry |-> entryOf[d]]
InvoiceGet(d) == Row(d)
BillGet(d) == Row(d)
-----------------------------------------------------------------------------
(* Drafts.  invoice.c and bill.c hold the same code for two tables. *)

Create(p, d) ==
  /\ call[p] = Idle
  /\ status[d] = "ABSENT"
  /\ status' = [status EXCEPT ![d] = "DRAFT"]
  /\ UNCHANGED <<lines, reworded, issues, entryOf, settled, applied, paid,
                 control, manual, cut, call>>

InvoiceCreate(p, d) == d \in Invoice /\ Create(p, d)
BillCreate(p, d) == d \in Bill /\ Create(p, d)

\* An edit reads the status in one statement, and changes the row in another.
EditDraft(p, where, d, a) ==
  /\ status[d] = "DRAFT"
  /\ Start(p, where, d, a, 0)
  /\ UNCHANGED books

InsertLine(p) ==
  /\ SumFunction([d \in Doc |-> Len(lines[d])]) < MaxLines
  /\ lines' = [lines EXCEPT ![call[p].doc] =
                 Append(@, [amount |-> call[p].arg, kept |-> TRUE])]
  /\ Return(p)
  /\ UNCHANGED <<status, reworded, issues, entryOf, settled, applied, paid,
                 control, manual, cut>>

InvoiceAddLineCheck(p, d, a) == d \in Invoice /\ EditDraft(p, "add", d, a)
InvoiceAddLine(p) == On(p, "add", Invoice) /\ InsertLine(p)
BillAddLineCheck(p, d, a) == d \in Bill /\ EditDraft(p, "add", d, a)
BillAddLine(p) == On(p, "add", Bill) /\ InsertLine(p)

\* Deleting a row that is gone by then is no error.
DeleteLine(p) ==
  LET d == call[p].doc
      i == call[p].arg
  IN  /\ lines' = IF i \in Kept(d) THEN [lines EXCEPT ![d][i].kept = FALSE]
                                   ELSE lines
      /\ Return(p)
      /\ UNCHANGED <<status, reworded, issues, entryOf, settled, applied, paid,
                     control, manual, cut>>

InvoiceRemoveLineCheck(p, d, i) ==
  d \in Invoice /\ i \in Kept(d) /\ EditDraft(p, "remove", d, i)
InvoiceRemoveLine(p) == On(p, "remove", Invoice) /\ DeleteLine(p)

BillRemoveLineCheckAny(p, d, i) ==  \* slip: lines of any bill can go
  /\ d \in Bill /\ i \in Kept(d)
  /\ Start(p, "remove", d, i, 0)
  /\ UNCHANGED books

BillRemoveLineCheck(p, d, i) ==
  d \in Bill /\ i \in Kept(d) /\ EditDraft(p, "remove", d, i)
BillRemoveLine(p) == On(p, "remove", Bill) /\ DeleteLine(p)

\* The header of a draft may be anything; only a later change is recorded.
Rewrite(p) ==
  /\ reworded' = IF status[call[p].doc] = "DRAFT" THEN reworded
                                                  ELSE reworded \cup {call[p].doc}
  /\ Return(p)
  /\ UNCHANGED <<status, lines, issues, entryOf, settled, applied, paid,
                 control, manual, cut>>

InvoiceUpdateCheck(p, d) == d \in Invoice /\ EditDraft(p, "update", d, 0)
InvoiceUpdate(p) == On(p, "update", Invoice) /\ Rewrite(p)
BillUpdateCheck(p, d) == d \in Bill /\ EditDraft(p, "update", d, 0)
BillUpdate(p) == On(p, "update", Bill) /\ Rewrite(p)
-----------------------------------------------------------------------------
(* Issue and enter: the status is read, the lines are gathered, then the   *)
(* entry is posted and the document updated in one transaction.            *)

Gather(p) ==
  /\ Kept(call[p].doc) # {}
  /\ Goto(p, "issue", Total(call[p].doc))
  /\ UNCHANGED books

\* The entry, with this posting on the control account, and the document OPEN.
PostDocument(p, leg) ==
  LET d == call[p].doc
  IN  /\ control' = [control EXCEPT ![PoolOf[d]] = @ + leg]
      /\ issues' = Append(issues, [doc |-> d, leg |-> leg, reversed |-> 0])
      /\ status' = [status EXCEPT ![d] = "OPEN"]
      /\ entryOf' = [entryOf EXCEPT ![d] = Len(issues) + 1]
      /\ Return(p)
      /\ UNCHANGED <<lines, reworded, settled, applied, paid, manual, cut>>

InvoiceIssueCheck(p, d) == d \in Invoice /\ EditDraft(p, "gather", d, 0)
InvoiceGather(p) == On(p, "gather", Invoice) /\ Gather(p)
InvoiceIssue(p) ==  \* Dr Accounts Receivable
  On(p, "issue", Invoice) /\ PostDocument(p, call[p].seen)

BillEnterCheck(p, d) == d \in Bill /\ EditDraft(p, "gather", d, 0)
BillGather(p) == On(p, "gather", Bill) /\ Gather(p)
BillEnter(p) ==     \* Cr Accounts Payable
  On(p, "issue", Bill) /\ PostDocument(p, -call[p].seen)
-----------------------------------------------------------------------------
(* Payments and credit *)

\* recompute_status, on the allocations the transaction leaves behind.
RecomputedStrict(d, s) ==  \* slip: > for >=
  IF s > Total(d) THEN "PAID" ELSE "PARTIAL"

Recomputed(d, s) == IF s >= Total(d) THEN "PAID" ELSE "PARTIAL"

\* insert_allocation of amount x (no row for 0), then recompute_status.
Allocate(d, x) ==
  /\ settled' = [settled EXCEPT ![d] = @ + x]
  /\ applied' = [applied EXCEPT ![PoolOf[d]] = @ + x]
  /\ status' = [status EXCEPT ![d] = Recomputed(d, settled[d] + x)]

\* target_status: a document that is not payable is refused.
PayableCheck(p, where, d, a) ==
  /\ status[d] \in Payable
  /\ Start(p, where, d, a, 0)
  /\ UNCHANGED books

\* mb_payment_record: the status is read, then what remains to be settled, then
\* cash, payment and allocation are written in one transaction.
PayCheck(p, d, a) == PayableCheck(p, "size", d, a)

\* The part of amount a that settles document d; the rest becomes credit.
PortionWhole(d, a) == a  \* slip: the overage is allocated too

Portion(d, a) == Lesser(a, AtLeastZero(Remaining(d)))

PaySize(p) ==
  /\ call[p].at = "size"
  /\ Goto(p, "pay", Portion(call[p].doc, call[p].arg))
  /\ UNCHANGED books

\* The posting on the control account: Cr AR of a receipt, Dr AP of a payment.
PaymentLegOneSided(d, a) == -a  \* slip: AP is credited like AR

PaymentLeg(d, a) == IF Kind(d) = "BILL" THEN a ELSE -a

Pay(p) ==
  LET d == call[p].doc
      a == call[p].arg
  IN  /\ call[p].at = "pay"
      /\ control' = [control EXCEPT ![PoolOf[d]] = @ + PaymentLeg(d, a)]
      /\ paid' = [paid EXCEPT ![PoolOf[d]] = @ + a]
      /\ Allocate(d, call[p].seen)
      /\ Return(p)
      /\ UNCHANGED <<lines, reworded, issues, entryOf, manual, cut>>

\* mb_credit_apply: status, remaining balance and available credit are read,
\* then the allocation is written in one transaction.
CreditCheck(p, d, a) == PayableCheck(p, "remaining", d, a)

CreditRemaining(p) ==
  /\ call[p].at = "remaining"
  /\ call[p].arg <= Remaining(call[p].doc)
  /\ Goto(p, "available", 0)
  /\ UNCHANGED books

CreditAvailable(p) ==
  /\ call[p].at = "available"
  /\ call[p].arg <= Available(PoolOf[call[p].doc])
  /\ Goto(p, "credit", 0)
  /\ UNCHANGED books

Credit(p) ==
  /\ call[p].at = "credit"
  /\ Allocate(call[p].doc, call[p].arg)
  /\ Return(p)
  /\ UNCHANGED <<lines, reworded, issues, entryOf, paid, control, manual, cut>>
-----------------------------------------------------------------------------
(* Void: the row is read; then mb_journal_reverse posts the negated entry  *)
(* in a transaction of its own; then a separate statement marks the        *)
(* document.                                                               *)

VoidCheckPartial(p, d, row) ==  \* slip: a PARTIAL document can be voided
  /\ row.status \in Payable /\ row.entry # 0
  /\ Start(p, "reverse", d, 0, row.entry)
  /\ UNCHANGED books

VoidCheck(p, d, row) ==
  /\ row.status = "OPEN" /\ row.entry # 0
  /\ Start(p, "reverse", d, 0, row.entry)
  /\ UNCHANGED books

InvoiceVoidCheck(p, d) == d \in Invoice /\ VoidCheck(p, d, InvoiceGet(d))
BillVoidCheck(p, d) == d \in Bill /\ VoidCheck(p, d, BillGet(d))

VoidReverse(p) ==
  LET i == call[p].seen
  IN  /\ call[p].at = "reverse"
      /\ control' = [control EXCEPT ![PoolOf[call[p].doc]] = @ - issues[i].leg]
      /\ issues' = [issues EXCEPT ![i].reversed = @ + 1]
      /\ Goto(p, "mark", i)
      /\ UNCHANGED <<status, lines, reworded, entryOf, settled, applied, paid,
                     manual, cut>>

MarkVoid(p) ==
  /\ status' = [status EXCEPT ![call[p].doc] = "VOID"]
  /\ Return(p)
  /\ UNCHANGED <<lines, reworded, issues, entryOf, settled, applied, paid,
                 control, manual, cut>>

InvoiceVoid(p) == On(p, "mark", Invoice) /\ MarkVoid(p)
BillVoid(p) == On(p, "mark", Bill) /\ MarkVoid(p)
-----------------------------------------------------------------------------
\* transaction.post with a posting on a control account for a counterparty: the
\* API lets any account and any counterparty through.
ManualPost(p, q, a) ==
  /\ call[p] = Idle
  /\ manual[q] + a \in -MaxManual .. MaxManual
  /\ control' = [control EXCEPT ![q] = @ + a]
  /\ manual' = [manual EXCEPT ![q] = @ + a]
  /\ UNCHANGED <<status, lines, reworded, issues, entryOf, settled, applied,
                 paid, cut, call>>

\* The call ends with an error: a check fails, the write lock is not had within
\* busy_timeout, an account is archived, the process dies.  An open transaction
\* is rolled back, so nothing written by it remains; of a void that ends before
\* its mark, the reversal does, and the document can be paid or voided again.
Fail(p) ==
  /\ call[p] # Idle
  /\ cut' = IF call[p].at = "mark" THEN [cut EXCEPT ![call[p].doc] = @ + 1] ELSE cut
  /\ SumFunction(cut') <= MaxCut
  /\ Return(p)
  /\ UNCHANGED rows
-----------------------------------------------------------------------------
Init ==
  /\ status = [d \in Doc |-> "ABSENT"]
  /\ lines = [d \in Doc |-> << >>]
  /\ reworded = {}
  /\ issues = << >>
  /\ entryOf = [d \in Doc |-> 0]
  /\ settled = [d \in Doc |-> 0]
  /\ applied = [q \in Pool |-> 0]
  /\ paid = [q \in Pool |-> 0]
  /\ control = [q \in Pool |-> 0]
  /\ manual = [q \in Pool |-> 0]
  /\ cut = [d \in Doc |-> 0]
  /\ call = [p \in Proc |-> Idle]

InvoiceCall(p) ==
  \/ \E d \in Invoice :
       \/ InvoiceCreate(p, d) \/ InvoiceUpdateCheck(p, d)
       \/ InvoiceIssueCheck(p, d) \/ InvoiceVoidCheck(p, d)
       \/ \E a \in LineAmount : InvoiceAddLineCheck(p, d, a)
       \/ \E i \in DOMAIN lines[d] : InvoiceRemoveLineCheck(p, d, i)
  \/ InvoiceAddLine(p) \/ InvoiceRemoveLine(p) \/ InvoiceUpdate(p)
  \/ InvoiceGather(p) \/ InvoiceIssue(p) \/ InvoiceVoid(p)

BillCall(p) ==
  \/ \E d \in Bill :
       \/ BillCreate(p, d) \/ BillUpdateCheck(p, d)
       \/ BillEnterCheck(p, d) \/ BillVoidCheck(p, d)
       \/ \E a \in LineAmount : BillAddLineCheck(p, d, a)
       \/ \E i \in DOMAIN lines[d] : BillRemoveLineCheck(p, d, i)
  \/ BillAddLine(p) \/ BillRemoveLine(p) \/ BillUpdate(p)
  \/ BillGather(p) \/ BillEnter(p) \/ BillVoid(p)

PaymentCall(p) ==
  \/ \E d \in Doc, a \in PayAmount : PayCheck(p, d, a) \/ CreditCheck(p, d, a)
  \/ PaySize(p) \/ Pay(p)
  \/ CreditRemaining(p) \/ CreditAvailable(p) \/ Credit(p)

Next == \E p \in Proc :
  \/ InvoiceCall(p) \/ BillCall(p) \/ PaymentCall(p) \/ VoidReverse(p)
  \/ \E q \in Pool, a \in ManualAmount : ManualPost(p, q, a)
  \/ Fail(p)

Spec == Init /\ [][Next]_vars
-----------------------------------------------------------------------------
Stage == {"idle", "add", "remove", "update", "gather", "issue", "size", "pay",
          "remaining", "available", "credit", "reverse", "mark"}

\* Type invariant.
TypeOK ==
  /\ status \in [Doc -> Status]
  /\ DOMAIN lines = Doc
  /\ \A d \in Doc : lines[d] \in Seq([amount : LineAmount, kept : BOOLEAN])
  /\ reworded \subseteq Doc
  /\ issues \in Seq([doc : Doc, leg : Int, reversed : Nat])
  /\ entryOf \in [Doc -> 0..Len(issues)]
  /\ settled \in [Doc -> Nat]
  /\ applied \in [Pool -> Nat]
  /\ paid \in [Pool -> Nat]
  /\ control \in [Pool -> Int]
  /\ manual \in [Pool -> Int]
  /\ cut \in [Doc -> Nat]
  /\ DOMAIN call = Proc
  /\ \A p \in Proc : /\ call[p].at \in Stage
                     /\ call[p] # Idle => call[p].doc \in Doc

\* A void that has reversed the issue entry and not yet marked the document.
HalfVoided(d) == \E p \in Proc : call[p].at = "mark" /\ call[p].doc = d

\* What a counterparty owes on a side: a debit balance on AR, a credit one on AP.
Owed(q, balance) == IF q[1] = "BILL" THEN -balance ELSE balance

\* The aging report: what OPEN and PARTIAL documents still owe.
Outstanding(q) ==
  LET docs == {d \in Doc : PoolOf[d] = q /\ status[d] \in Payable}
  IN  SumFunction([d \in docs |-> Remaining(d)])

\* What pool q's documents come to, at an amount each.
SumOver(q, amount) ==
  SumFunction([d \in {e \in Doc : PoolOf[e] = q} |-> amount[d]])

\* How often document d's entry stands reversed though d is not VOID: by voids
\* cut short, and by one under way.
Undone(d) == cut[d] + (IF HalfVoided(d) THEN 1 ELSE 0)

\* D26: a counterparty's control-account balance, which only entries move, is
\* what its documents owe less its available credit, which only allocations
\* and document status move, with what was posted there by hand
\* (mb_counterparty_balance, aging and mb_credit_available are computed from
\* different tables).  Two things stand between them: a document of a negative
\* total is forgiven when it is paid, all of the payment becoming credit; and a
\* void that stopped before its mark has taken the total off the balance of a
\* document that still owes it.
BalanceReconciles ==
  \A q \in Pool :
    Owed(q, CounterpartyBalance(q) - manual[q]) =
        Outstanding(q) - Available(q)
      + SumOver(q, [d \in Doc |-> IF status[d] = "PAID" THEN Remaining(d) ELSE 0])
      - SumOver(q, [d \in Doc |-> Undone(d) * Total(d)])

\* Credit is never spent twice, nor on the other side: a pool's allocations are
\* covered by its own cash (the check of mb_credit_apply against
\* mb_credit_available, and the cap that mb_payment_record puts on what a
\* payment allocates).
CreditNeverNegative == \A q \in Pool : applied[q] <= paid[q]

\* A document's status says what its allocations and its entry say: OPEN and
\* VOID documents have nothing settled, PARTIAL ones something but not all, PAID
\* ones exactly all, or nothing where the total is negative (recompute_status,
\* void and issue each write it).
StatusMatchesMoney ==
  \A d \in Doc :
    CASE status[d] = "PARTIAL" -> 0 < settled[d] /\ settled[d] < Total(d)
      [] status[d] = "PAID"    -> settled[d] = AtLeastZero(Total(d))
      [] OTHER                 -> settled[d] = 0

\* An issued document is immutable: its header is the one it was issued with and
\* its lines still add up to what its entry posted, whatever edits were under
\* way when it was issued.
IssuedIsLocked ==
  /\ reworded = {}
  /\ \A d \in Doc :
       status[d] \notin {"ABSENT", "DRAFT"} =>
         /\ entryOf[d] # 0
         /\ Owed(PoolOf[d], issues[entryOf[d]].leg) = Total(d)

\* A document is posted once, and its entry stands reversed as often as voids
\* reversed it: once by the void that marked it VOID, and once by each void
\* that has not marked it, still under way or cut short.
PostedOnce ==
  \A i \in DOMAIN issues :
    LET d == issues[i].doc
    IN  /\ entryOf[d] = i
        /\ issues[i].reversed = Undone(d) + (IF status[d] = "VOID" THEN 1 ELSE 0)

\* The documents are well formed and agree with their allocations and entries.
DocumentsConsistent == TypeOK /\ StatusMatchesMoney /\ PostedOnce

\* The edit model: a document moves forward only, and PAID and VOID are final.
\* In particular no payment or credit lands on a document once it is void and
\* no paid one is voided, though each call acts on a status read earlier.
Lifecycle ==
  [][\A d \in Doc : status'[d] # status[d] =>
       <<status[d], status'[d]>> \in
         { <<"ABSENT", "DRAFT">>, <<"DRAFT", "OPEN">>, <<"OPEN", "PARTIAL">>,
           <<"OPEN", "PAID">>, <<"OPEN", "VOID">>, <<"PARTIAL", "PAID">> }]_vars
-----------------------------------------------------------------------------
(* The refinement mapping under which settlement implements Receivables *)

\* How far a document is: it is cancelled by the reversing entry, and void only
\* with the mark after it.
StageOf(d) ==
  CASE status[d] \in {"ABSENT", "DRAFT"} -> "new"
    [] status[d] = "VOID"               -> "void"
    [] status[d] = "PAID"               -> "settled"
    [] status[d] \in Payable            -> IF HalfVoided(d) THEN "cancelled" ELSE "owed"

\* What a document was issued for, and what is still owed on it.
Billed(d) == IF entryOf[d] = 0 THEN 0 ELSE Owed(PoolOf[d], issues[entryOf[d]].leg)
Due(d) == IF StageOf(d) = "owed" THEN Remaining(d) ELSE 0

\* What a pool owes; manual postings are not part of what settlement promises.
Balance(q) == Owed(q, CounterpartyBalance(q) - manual[q])

AllStage == [d \in Doc |-> StageOf(d)]
AllBilled == [d \in Doc |-> Billed(d)]
AllDue == [d \in Doc |-> Due(d)]
AllCredit == [q \in Pool |-> Available(q)]
AllBalance == [q \in Pool |-> Balance(q)]

Rec == INSTANCE Receivables WITH
         stage <- AllStage, billed <- AllBilled, due <- AllDue, credit <- AllCredit,
         balance <- AllBalance

\* Behind its reads, checks and separate writes, each settlement call is one
\* atomic operation on what is owed, the credit and the balance, or nothing.
ImplementsReceivables == Rec!RecSpec
=============================================================================
