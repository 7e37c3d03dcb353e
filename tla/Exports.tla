------------------------------ MODULE Exports -------------------------------
(* The reports that read the book more than once, and the CSV exports.  The    *)
(* ledger of an account reads its opening balance and then its rows; the       *)
(* general ledger lists the accounts and makes a ledger of each; the balance   *)
(* sheet export reads the totals and then the rows.  Other handles commit in   *)
(* between.                                                                    *)
EXTENDS Reports

CONSTANTS Chart,       \* the accounts by code
          Windows,     \* bound: from and to of the reports asked for
          MaxLate      \* bound: entries posted while one report is being made
ASSUME ExportsAssumption ==
  /\ Chart \in Seq(Accounts) /\ Range(Chart) = Accounts
  /\ \A m, n \in DOMAIN Chart : Chart[m] = Chart[n] => m = n
  /\ Windows \subseteq Ends \X Ends /\ MaxLate \in Nat

VARIABLE report        \* the one being made, or the last one finished
vars == <<journal, active, report>>

NoReport == [kind |-> "none"]
Finished == report.kind # "totals" /\ (report.kind = "ledger" => report.todo = << >>)
\* Entries committed since entry number n and before entry number m was.
Late(n, m) == {journal[i] : i \in n + 1 .. m}
-----------------------------------------------------------------------------
(* Ledgers *)

\* A ledger of the accounts asked for, page by page.
Ledger(asked, listed, from, to) ==
  [kind |-> "ledger", asked |-> asked, todo |-> listed, from |-> from, to |-> to,
   begun |-> Len(journal), opening |-> Null, opened |-> 0, pages |-> << >>]

\* slip: the filter of mb_account_list that leaves archived accounts out.
ListedActive == SelectSeq(Chart, LAMBDA a : a \in active)
Listed == Chart

\* mb_report_ledger, for one account, and mb_export_general_ledger_csv.
AskLedger(a, from, to) ==
  /\ report = NoReport
  /\ report' = Ledger({a}, <<a>>, from, to)
  /\ UNCHANGED bookVars
AskGeneralLedger(from, to) ==
  /\ report = NoReport
  /\ report' = Ledger(Accounts, Listed, from, to)
  /\ UNCHANGED bookVars

\* slip: the first day of the window counted in the opening balance as well.
BeforeOrOn(e, from) == e.date <= from
Before(e, from) == e.date < from

\* First query, made only when the window has a beginning: what lies before it.
PageOpening ==
  /\ report.kind = "ledger" /\ ~Finished
  /\ report.from # Null /\ report.opening = Null
  /\ report' = [report EXCEPT
       !.opening = Posted(Head(report.todo),
                          {i \in DOMAIN journal : Before(journal[i], report.from)}),
       !.opened = Len(journal)]
  /\ UNCHANGED bookVars

\* Second query: the account's rows by date and seq, each with a running balance.
LedgerOrder(x, y) == \/ journal[x].date < journal[y].date
                     \/ journal[x].date = journal[y].date /\ x < y
RowsOf(a, from, to) ==
  LET rows == {i \in DOMAIN journal : a \in Touched(journal[i]) /\ Within(journal[i], from, to)}
      upTo(i) == {j \in rows : j = i \/ LedgerOrder(j, i)}
  IN [k \in 1 .. Cardinality(rows) |-> CHOOSE i \in rows : Cardinality(upTo(i)) = k]
Running(a, rows, opening) ==
  [k \in DOMAIN rows |-> opening + Posted(a, {rows[m] : m \in 1 .. k})]

\* An account without rows leaves no trace in the text.
Page(a) ==
  LET rows == RowsOf(a, report.from, report.to)
      opening == IF report.from = Null THEN 0 ELSE report.opening
  IN IF rows = << >> THEN << >>
     ELSE <<[account |-> a, entries |-> rows, running |-> Running(a, rows, opening),
             opened |-> report.opened, read |-> Len(journal)]>>
PageRows ==
  /\ report.kind = "ledger" /\ ~Finished
  /\ report.from = Null \/ report.opening # Null
  /\ report' = [report EXCEPT !.pages = @ \o Page(Head(report.todo)),
                              !.todo = Tail(@), !.opening = Null, !.opened = 0]
  /\ UNCHANGED bookVars
-----------------------------------------------------------------------------
(* Sheets: rows of accounts in sections, and a total of each section *)

Section(type, bal, sign) ==
  LET accounts == {a \in Accounts : Type[a] = type /\ bal[a] # 0}
  IN [a \in accounts |-> sign * bal[a]]
Sheet(rows, totals, to, begun) == [kind |-> "sheet", rows |-> rows, totals |-> totals,
                                   to |-> to, begun |-> begun, read |-> Len(journal)]
Render(sheet) == report = NoReport /\ report' = sheet /\ UNCHANGED bookVars

TrialBalanceCsv(asOf) ==
  LET bal == Balances(Null, asOf)
      debits == {a \in Accounts : bal[a] > 0}
      credits == {a \in Accounts : bal[a] < 0}
  IN Render(Sheet([debit |-> Restrict(bal, debits), credit |-> [a \in credits |-> -bal[a]]],
                 TrialBalance(asOf), asOf, Len(journal)))

PnlCsv(from, to) ==
  LET bal == Balances(from, to)
      rows == [income |-> Section("INCOME", bal, -1), expense |-> Section("EXPENSE", bal, 1)]
      income == SumFunction(rows.income)
      expense == SumFunction(rows.expense)
  IN Render(Sheet(rows, [income |-> income, expense |-> expense, net |-> income - expense],
                  to, Len(journal)))

\* The totals are mb_report_balance_sheet's ...
BalanceSheetTotals(asOf) == Render([kind |-> "totals", totals |-> BalanceSheet(asOf),
                                    to |-> asOf, begun |-> Len(journal)])
\* ... and the rows come from a query of their own.
BalanceSheetRows ==
  /\ report.kind = "totals"
  /\ LET bal == Balances(Null, report.to)
         rows == [assets |-> Section("ASSET", bal, 1),
                  liabilities |-> Section("LIABILITY", bal, -1),
                  equity |-> Section("EQUITY", bal, -1)]
     IN report' = Sheet(rows, report.totals, report.to, report.begun)
  /\ UNCHANGED bookVars

\* The journal export: the list as it is.
JournalCsv(from, to) ==
  Render([kind |-> "journal", rows |-> JournalList(from, to), from |-> from, to |-> to])
-----------------------------------------------------------------------------
Init == BookInit /\ report = NoReport

\* A report is put away before the book moves on; while one is being made, other
\* handles of the book commit.
PutAway == Finished /\ report # NoReport /\ report' = NoReport /\ UNCHANGED bookVars
CommitBetween == report = NoReport /\ Commit /\ UNCHANGED report
CommitDuring == /\ ~Finished /\ Len(journal) < report.begun + MaxLate
                /\ Commit /\ UNCHANGED report

Next == \/ CommitBetween \/ CommitDuring \/ PutAway
        \/ PageOpening \/ PageRows \/ BalanceSheetRows
        \/ \E w \in Windows :
              \/ AskGeneralLedger(w[1], w[2]) \/ PnlCsv(w[1], w[2]) \/ JournalCsv(w[1], w[2])
              \/ \E a \in Accounts : AskLedger(a, w[1], w[2])
        \/ \E asOf \in Ends : TrialBalanceCsv(asOf) \/ BalanceSheetTotals(asOf)
Spec == Init /\ [][Next]_vars
-----------------------------------------------------------------------------
\* What account a came to on the last date of a report when n entries were there.
BalanceOn(a, n, to) == Posted(a, {i \in 1 .. n : Within(journal[i], Null, to)})

\* A ledger page ends on the account's balance at the last date of its window, as
\* the second query found the book: it can be wrong only by entries dated before
\* the window and committed between its two queries.
LedgerOfOneMoment == report.kind = "ledger" => \A k \in DOMAIN report.pages :
  LET page == report.pages[k] IN
  \/ page.running[Len(page.running)] = BalanceOn(page.account, page.read, report.to)
  \/ report.from # Null /\ \E e \in Late(page.opened, page.read) : Before(e, report.from)

\* A finished ledger shows every entry that was there when it was asked for on the
\* page of every account asked for that it touches, archived ones included; an entry
\* that came later can be missing only from the pages before the first that shows it.
Shows(i, a) == \E k \in DOMAIN report.pages :
  report.pages[k].account = a /\ i \in Range(report.pages[k].entries)
LedgerIsWhole == report.kind = "ledger" /\ Finished =>
  \A i \in DOMAIN journal : Within(journal[i], report.from, report.to) =>
    \A n \in DOMAIN Chart : Chart[n] \in Touched(journal[i]) \cap report.asked =>
      \/ Shows(i, Chart[n])
      \/ i > report.begun /\ ~\E m \in 1 .. n - 1 : Shows(i, Chart[m])

\* The rows of a sheet's sections add up to the totals printed below them, unless
\* an entry of its window was committed between the totals and the rows.
SheetFootsUp == report.kind = "sheet" =>
  \A section \in DOMAIN report.rows :
    \/ SumFunction(report.rows[section]) = report.totals[section]
    \/ \E e \in Late(report.begun, report.read) : Within(e, Null, report.to)

\* An entry whose one line in the list says what it does to the P&L: it posts to income
\* or to expense alone, on its own side, and all the rest is on the other.
Plain(e) == Flow(e) \in {"INCOME", "EXPENSE"} => \A a \in Accounts :
  IF Type[a] = Flow(e) THEN Other(Flow(e), e.postings, a) = 0
  ELSE /\ Own(Flow(e), e.postings, a) = 0
       /\ Type[a] \in {"INCOME", "EXPENSE"} => Other(Flow(e), e.postings, a) = 0

\* The journal export's plain income and expense rows in force add up to the P&L of its
\* window less what is posted by the other entries in force and by second reversals.
JournalListsPnl == report.kind = "journal" =>
  LET inForce == {i \in DOMAIN report.rows : Effective(report.rows[i])}
      plain == {i \in inForce : Plain(journal[i])}
      total(type) == SumFunctionOnSet([i \in DOMAIN report.rows |-> report.rows[i].amount],
                                      {i \in plain : report.rows[i].flow = type})
      pnl == Pnl(report.from, report.to)
      surplus == Surplus(report.from, report.to)
  IN \A type \in {"INCOME", "EXPENSE"} :
       total(type) = Line(type, pnl)
         - Side(type) * (PostedTo(type, inForce \ plain) + PostedTo(type, surplus))

\* An export is complete and adds up.
ExportsFootUp == LedgerIsWhole /\ SheetFootsUp /\ JournalListsPnl
=============================================================================
