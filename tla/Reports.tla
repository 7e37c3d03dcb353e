------------------------------ MODULE Reports -------------------------------
(* The statements report.c makes of one book's journal in a single query each, *)
(* and the commits that change the journal.                                    *)
EXTENDS Integers, Sequences, FiniteSets, Functions

CONSTANTS Accounts, Type, Role,   \* Type, Role: functions of the account
          Kinds,                  \* the postings an entry may have
          Documents,              \* those an issued invoice or an entered bill posts
          LastDate,               \* bound: dates are 1 .. LastDate
          Null,                   \* an open end of a window
          MaxEntries,             \* bound
          Archivable              \* bound: accounts that may be archived
Types == {"ASSET", "LIABILITY", "EQUITY", "INCOME", "EXPENSE"}
ASSUME ChartAssumption == IsFiniteSet(Accounts) /\ \A a \in Accounts : Type[a] \in Types

\* An entry's postings by account: what it debits there in all and what it credits.  An
\* invoice with a discount line posts both to one account; a line may come to nothing.
Debit(ps, a) == IF a \in DOMAIN ps THEN ps[a].debit ELSE 0
Credit(ps, a) == IF a \in DOMAIN ps THEN ps[a].credit ELSE 0
Net(ps) == [a \in Accounts |-> Debit(ps, a) - Credit(ps, a)]

\* post_core refuses postings that do not sum to zero.
ASSUME KindsAssumption ==
  /\ Documents \subseteq Kinds
  /\ \A ps \in Kinds : /\ DOMAIN ps \subseteq Accounts
                        /\ ps \in [DOMAIN ps -> [debit : Nat, credit : Nat]]
                        /\ SumFunction(Net(ps)) = 0
ASSUME ReportsAssumption ==
  /\ {MaxEntries, LastDate} \subseteq Nat /\ Archivable \subseteq Accounts
  /\ Null \notin Int

Dates == 1 .. LastDate
Ends == Dates \cup {Null}

VARIABLES journal,   \* entries in seq order
          active     \* accounts that are not archived
bookVars == <<journal, active>>

\* reverses: the place of the entry that a reversal cancels, or 0.
Entry(date, ps, status, reverses) ==
  [date |-> date, postings |-> ps, status |-> status, reverses |-> reverses]
Touched(e) == DOMAIN e.postings

-----------------------------------------------------------------------------
(* The queries *)

\* slip: the window starts the day after `from`.
WithinAfter(e, from, to) == (from = Null \/ e.date > from) /\ (to = Null \/ e.date <= to)
\* The date condition of every query.
Within(e, from, to) == (from = Null \/ e.date >= from) /\ (to = Null \/ e.date <= to)

Posted(a, S) == SumFunctionOnSet([i \in DOMAIN journal |-> Net(journal[i].postings)[a]], S)

\* mb_report_balances: net posting of every account over the window.
Balances(from, to) ==
  [a \in Accounts |-> Posted(a, {i \in DOMAIN journal : Within(journal[i], from, to)})]

TotalOf(type, bal) == SumFunctionOnSet(bal, {a \in Accounts : Type[a] = type})

TrialBalance(asOf) ==
  LET bal == Balances(Null, asOf) IN
  [debit  |-> SumFunctionOnSet(bal, {a \in Accounts : bal[a] > 0}),
   credit |-> -SumFunctionOnSet(bal, {a \in Accounts : bal[a] < 0})]

Pnl(from, to) ==
  LET bal == Balances(from, to)
      income == -TotalOf("INCOME", bal)
      expense == TotalOf("EXPENSE", bal)
  IN [income |-> income, expense |-> expense, net |-> income - expense]

BalanceSheet(asOf) ==
  LET bal == Balances(Null, asOf) IN
  [assets |-> TotalOf("ASSET", bal), liabilities |-> -TotalOf("LIABILITY", bal),
   equity |-> -TotalOf("EQUITY", bal),
   netIncome |-> -TotalOf("INCOME", bal) - TotalOf("EXPENSE", bal)]

Cash == {a \in Accounts : Type[a] = "ASSET" /\ Role[a] = "ACCOUNT"}

\* slip: the negative postings summed with their sign.
CashFlowSigned(from, to) ==
  LET rows == {i \in DOMAIN journal : Within(journal[i], from, to)} \X Cash
      inflow == SumFunction([r \in rows |-> Debit(journal[r[1]].postings, r[2])])
      outflow == -SumFunction([r \in rows |-> Credit(journal[r[1]].postings, r[2])])
  IN [inflow |-> inflow, outflow |-> outflow, net |-> inflow - outflow]

\* mb_report_cash_flow: sums the positive and the negative postings to cash.
CashFlow(from, to) ==
  LET rows == {i \in DOMAIN journal : Within(journal[i], from, to)} \X Cash
      inflow == SumFunction([r \in rows |-> Debit(journal[r[1]].postings, r[2])])
      outflow == SumFunction([r \in rows |-> Credit(journal[r[1]].postings, r[2])])
  IN [inflow |-> inflow, outflow |-> outflow, net |-> inflow - outflow]

\* mb_report_category_txns and the total its handler adds up: magnitudes of the
\* postings to the type's accounts in entries whose status is POSTED.
Effective(e) == e.status = "POSTED"
InForce(from, to) ==
  {i \in DOMAIN journal : Effective(journal[i]) /\ Within(journal[i], from, to)}
Magnitude(ps, a) == Debit(ps, a) + Credit(ps, a)
CategoryTotal(type, from, to) ==
  LET rows == InForce(from, to) \X {a \in Accounts : Type[a] = type}
  IN SumFunction([r \in rows |-> Magnitude(journal[r[1]].postings, r[2])])

\* mb_report_journal: what an entry is listed as, and for how much.
Flow(e) ==
  CASE \E a \in Touched(e) : Type[a] = "INCOME" -> "INCOME"
    [] \A a \in Touched(e) : Type[a] \notin {"INCOME", "EXPENSE"} -> "OTHER"
    [] OTHER -> "EXPENSE"
Amount(e) == SumFunction([a \in Accounts |-> Debit(e.postings, a)])
JournalList(from, to) ==
  LET chosen == {i \in DOMAIN journal : Within(journal[i], from, to)}
  IN [i \in chosen |-> [flow |-> Flow(journal[i]), amount |-> Amount(journal[i]),
                        status |-> journal[i].status]]

-----------------------------------------------------------------------------
BookInit == journal = << >> /\ active = Accounts

\* post_core refuses an archived account.
Post == /\ Len(journal) < MaxEntries
        /\ \E date \in Dates, ps \in Kinds :
              LET e == Entry(date, ps, "POSTED", 0) IN
              Touched(e) \subseteq active /\ journal' = Append(journal, e)
        /\ UNCHANGED active

\* slip: the original keeps its status.
FlaggedNone(i) == journal
\* The journal with the entry a reversal cancels marked.
Flagged(i) == [journal EXCEPT ![i].status = "REVERSED"]
Negated(ps) == [a \in DOMAIN ps |-> [debit |-> ps[a].credit, credit |-> ps[a].debit]]
Reversal(i) ==
  Entry(journal[i].date, Negated(journal[i].postings), "REVERSAL", i)

\* A document is voided: mb_journal_reverse of its entry, which does not look at
\* the entry's status.  An entry is reversed again when two voids have both read the
\* document OPEN, or when a void that stopped before it marked the document is repeated.
Void(i) ==
  /\ Len(journal) < MaxEntries
  /\ journal[i].postings \in Documents /\ journal[i].status \in {"POSTED", "REVERSED"}
  /\ Touched(journal[i]) \subseteq active
  /\ journal' = Append(Flagged(i), Reversal(i))
  /\ UNCHANGED active

\* mb_account_set_active, either way, whatever the account's balance.
SetActive(a) ==
  /\ active' = IF a \in active THEN active \ {a} ELSE active \cup {a}
  /\ UNCHANGED journal

Commit == Post \/ (\E i \in DOMAIN journal : Void(i)) \/ (\E a \in Archivable : SetActive(a))
-----------------------------------------------------------------------------
\* Entries keep their shape, and each balances.
BookTypeOK ==
  /\ active \subseteq Accounts
  /\ \A i \in DOMAIN journal :
        /\ journal[i].date \in Dates /\ SumFunction(Net(journal[i].postings)) = 0
        /\ journal[i].status \in {"POSTED", "REVERSED", "REVERSAL"}
        /\ journal[i].reverses \in Nat

\* The three statements are one set of books on every date: debits equal
\* credits, assets equal liabilities, equity and income, and what the balance
\* sheet's income grows by between two dates is the P&L of the days between.
StatementsArticulate == \A d \in Dates :
  LET tb == TrialBalance(d)
      bs == BalanceSheet(d)
  IN /\ tb.debit = tb.credit
     /\ bs.assets = bs.liabilities + bs.equity + bs.netIncome
     /\ \A from \in Dates : from <= d =>
          bs.netIncome = BalanceSheet(from - 1).netIncome + Pnl(from, d).net

\* The journal is well formed and its statements are one set of books.
BooksConsistent == BookTypeOK /\ StatementsArticulate

\* Inflow less outflow of a window is the movement of the cash accounts over it.
CashFlowIsMovement == \A from, to \in Dates : from <= to =>
  CashFlow(from, to).net =
    SumFunctionOnSet(Balances(Null, to), Cash) - SumFunctionOnSet(Balances(Null, from - 1), Cash)

\* The side on which a category of the P&L grows.
Side(type) == IF type = "INCOME" THEN -1 ELSE 1
Line(type, pnl) == IF type = "INCOME" THEN pnl.income ELSE pnl.expense
PostedTo(type, S) == TotalOf(type, [a \in Accounts |-> Posted(a, S)])

\* Reversals of an entry that an earlier one has reversed.
Surplus(from, to) ==
  {i \in DOMAIN journal : /\ Within(journal[i], from, to) /\ journal[i].reverses # 0
                          /\ \E k \in 1 .. i - 1 : journal[k].reverses = journal[i].reverses}

\* What is posted on the side of a category and on the other: a discount, a refund.
Own(type, ps, a) == IF type = "INCOME" THEN Credit(ps, a) ELSE Debit(ps, a)
Other(type, ps, a) == IF type = "INCOME" THEN Debit(ps, a) ELSE Credit(ps, a)
Contrary(type, from, to) ==
  LET rows == InForce(from, to) \X {a \in Accounts : Type[a] = type}
  IN SumFunction([r \in rows |-> Other(type, journal[r[1]].postings, r[2])])

\* The list of income or expense in force adds up to the P&L line over every window,
\* each reversal with its original out of both, but for two things: it counts the other
\* side of a category where the P&L subtracts it, and an entry reversed again stays out
\* of the list while every reversal of it is in the P&L.
EffectiveMatchesPnl == \A from, to \in Ends :
  LET pnl == Pnl(from, to)
      surplus == Surplus(from, to)
  IN \A type \in {"INCOME", "EXPENSE"} :
       CategoryTotal(type, from, to) =
         Line(type, pnl) + 2 * Contrary(type, from, to) - Side(type) * PostedTo(type, surplus)

=============================================================================
