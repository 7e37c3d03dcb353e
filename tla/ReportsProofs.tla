---------------------------- MODULE ReportsProofs ---------------------------
(***************************************************************************)
(* The statements of a book agree with each other, for every chart, every  *)
(* kind of entry and every order of commits.                               *)
(***************************************************************************)
EXTENDS Exports, SumProofs

Statuses == {"POSTED", "REVERSED", "REVERSAL"}
Postings == UNION {[touched -> [debit : Nat, credit : Nat]] : touched \in SUBSET Accounts}
Entries == [date : Dates, postings : Postings, status : Statuses, reverses : Nat]

\* The journal is a list of balanced entries.
BookInv == /\ active \subseteq Accounts
           /\ journal \in Seq(Entries)
           /\ \A i \in DOMAIN journal : SumFunction(Net(journal[i].postings)) = 0

-----------------------------------------------------------------------------
(* What a commit does *)

\* There are finitely many accounts.
LEMMA FiniteChart == IsFiniteSet(Accounts)
BY ChartAssumption

\* A sequence after Append.
LEMMA AppendIs ==
  ASSUME NEW S, NEW s \in Seq(S), NEW e \in S
  PROVE  /\ Append(s, e) \in Seq(S)
         /\ DOMAIN Append(s, e) = 1 .. Len(s) + 1
         /\ \A k \in DOMAIN s : Append(s, e)[k] = s[k]
         /\ Append(s, e)[Len(s) + 1] = e
OBVIOUS

\* An entry of the journal, field by field.
LEMMA EntryIs ==
  ASSUME BookInv, NEW i \in DOMAIN journal
  PROVE  /\ journal[i] \in Entries /\ journal[i].date \in Dates
         /\ journal[i].postings \in Postings /\ journal[i].status \in Statuses
         /\ journal[i].reverses \in Nat
<1>1. journal[i] \in Entries
  BY DEF BookInv
<1> QED
  BY <1>1 DEF Entries

\* Postings are on some of the accounts.
LEMMA PostingsAre ==
  ASSUME NEW ps \in Postings
  PROVE  /\ DOMAIN ps \in SUBSET Accounts /\ ps \in [DOMAIN ps -> [debit : Nat, credit : Nat]]
         /\ \A a \in DOMAIN ps : ps[a].debit \in Nat /\ ps[a].credit \in Nat
<1>1. DOMAIN ps \in SUBSET Accounts /\ ps \in [DOMAIN ps -> [debit : Nat, credit : Nat]]
  BY DEF Postings
<1> QED
  BY <1>1

\* What they come to on one account.
LEMMA AmountsAre ==
  ASSUME NEW ps \in Postings, NEW a \in Accounts
  PROVE  /\ Debit(ps, a) \in Nat /\ Credit(ps, a) \in Nat /\ Net(ps)[a] \in Int
         /\ Net(ps)[a] = Debit(ps, a) - Credit(ps, a)
         /\ a \notin DOMAIN ps => Net(ps)[a] = 0
<1>1. a \in DOMAIN ps => ps[a].debit \in Nat /\ ps[a].credit \in Nat
  BY PostingsAre
<1>2. Debit(ps, a) \in Nat /\ Credit(ps, a) \in Nat
  BY <1>1 DEF Debit, Credit
<1>3. Net(ps)[a] = Debit(ps, a) - Credit(ps, a)
  BY DEF Net
<1>4. a \notin DOMAIN ps => Debit(ps, a) = 0 /\ Credit(ps, a) = 0
  BY DEF Debit, Credit
<1> QED
  BY <1>2, <1>3, <1>4

\* ... and on all of them.
LEMMA NetIs ==
  ASSUME NEW ps \in Postings
  PROVE  /\ Net(ps) \in [Accounts -> Int] /\ DOMAIN Net(ps) = Accounts
         /\ SumFunction(Net(ps)) = Sum(Net(ps), Accounts)
<1>1. DOMAIN Net(ps) = Accounts
  BY DEF Net
<1>2. \A a \in Accounts : Debit(ps, a) - Credit(ps, a) \in Int
  BY AmountsAre
<1>3. Net(ps) \in [Accounts -> Int]
  BY <1>2 DEF Net
<1> QED
  BY <1>1, <1>3, SumIs

\* The negative of balanced postings is balanced.
LEMMA ReversalBalances ==
  ASSUME NEW ps \in Postings
  PROVE  /\ Negated(ps) \in Postings
         /\ \A a \in Accounts : Net(Negated(ps))[a] = -Net(ps)[a]
         /\ SumFunction(Net(ps)) = 0 => SumFunction(Net(Negated(ps))) = 0
<1> DEFINE neg == Negated(ps)
<1>1. /\ DOMAIN neg = DOMAIN ps
      /\ \A a \in DOMAIN ps : neg[a] = [debit |-> ps[a].credit, credit |-> ps[a].debit]
  BY DEF Negated
<1>2. neg \in [DOMAIN ps -> [debit : Nat, credit : Nat]]
  <2>1. \A a \in DOMAIN ps : ps[a].debit \in Nat /\ ps[a].credit \in Nat
    BY PostingsAre
  <2> QED
    BY <2>1 DEF Negated
<1> HIDE DEF neg
<1>3. neg \in Postings
  BY <1>2, PostingsAre DEF Postings
<1>4. \A a \in Accounts : Net(ps)[a] \in Int /\ Net(neg)[a] = -Net(ps)[a]
  <2> TAKE a \in Accounts
  <2>1. Debit(neg, a) = Credit(ps, a) /\ Credit(neg, a) = Debit(ps, a)
    BY <1>1 DEF Debit, Credit
  <2>2. Net(neg)[a] = Debit(neg, a) - Credit(neg, a)
    BY <1>3, AmountsAre
  <2>3. /\ Debit(ps, a) \in Nat /\ Credit(ps, a) \in Nat /\ Net(ps)[a] \in Int
        /\ Net(ps)[a] = Debit(ps, a) - Credit(ps, a)
    BY AmountsAre
  <2> QED
    BY <2>1, <2>2, <2>3
<1>5. /\ SumFunction(Net(neg)) = Sum(Net(neg), Accounts)
      /\ SumFunction(Net(ps)) = Sum(Net(ps), Accounts)
  BY <1>3, NetIs
<1>6. Sum(Net(neg), Accounts) = -Sum(Net(ps), Accounts)
  BY <1>4, FiniteChart, SumNegates
<1> QED
  BY <1>3, <1>4, <1>5, <1>6 DEF neg

\* What posting does to the journal.
LEMMA PostIs ==
  ASSUME BookInv, Post
  PROVE  \E date \in Dates, ps \in Kinds :
           /\ Entry(date, ps, "POSTED", 0) \in Entries
           /\ journal' = Append(journal, Entry(date, ps, "POSTED", 0))
           /\ journal' \in Seq(Entries) /\ DOMAIN journal' = 1 .. Len(journal) + 1
           /\ \A k \in DOMAIN journal : journal'[k] = journal[k]
           /\ journal'[Len(journal) + 1] = Entry(date, ps, "POSTED", 0)
<1>1. PICK date \in Dates, ps \in Kinds : journal' = Append(journal, Entry(date, ps, "POSTED", 0))
  BY DEF Post
<1>2. Entry(date, ps, "POSTED", 0) \in Entries
  <2>1. ps \in Postings
    BY KindsAssumption DEF Postings
  <2> QED
    BY <2>1 DEF Entry, Entries, Statuses
<1>3. journal \in Seq(Entries)
  BY DEF BookInv
<1> QED
  BY <1>1, <1>2, <1>3, AppendIs

\* What a void does to the journal.
LEMMA VoidIs ==
  ASSUME BookInv, NEW i \in DOMAIN journal, Void(i)
  PROVE  /\ journal' \in Seq(Entries) /\ DOMAIN journal' = 1 .. Len(journal) + 1
         /\ \A k \in DOMAIN journal : k # i => journal'[k] = journal[k]
         /\ journal'[i] = [journal[i] EXCEPT !.status = "REVERSED"]
         /\ journal'[Len(journal) + 1] = Reversal(i)
         /\ Reversal(i) \in Entries
<1>1. journal \in Seq(Entries) /\ journal[i] \in Entries /\ i \in 1 .. Len(journal)
  BY DEF BookInv
<1>2. [journal[i] EXCEPT !.status = "REVERSED"] \in Entries
  BY <1>1 DEF Entries, Statuses
<1>3. Reversal(i) \in Entries
  <2>1. Negated(journal[i].postings) \in Postings /\ journal[i].date \in Dates /\ i \in Nat
    BY <1>1, ReversalBalances DEF Entries
  <2> QED
    BY <2>1 DEF Reversal, Entry, Entries, Statuses
<1> DEFINE F == [journal EXCEPT ![i].status = "REVERSED"]
<1>4. /\ F \in Seq(Entries) /\ Len(F) = Len(journal)
      /\ \A k \in DOMAIN journal : k # i => F[k] = journal[k]
      /\ F[i] = [journal[i] EXCEPT !.status = "REVERSED"]
  <2> DEFINE r == [journal[i] EXCEPT !.status = "REVERSED"]
  <2>1. F = [journal EXCEPT ![i] = r]
    OBVIOUS
  <2>2. r \in Entries
    BY <1>2
  <2> HIDE DEF r, F
  <2>3. F \in Seq(Entries) /\ Len(F) = Len(journal) /\ F[i] = r
        /\ \A k \in DOMAIN journal : k # i => F[k] = journal[k]
    BY <1>1, <2>1, <2>2
  <2> QED
    BY <2>3 DEF r
<1>5. journal' = Append(F, Reversal(i))
  BY DEF Void, Flagged
<1>6. DOMAIN F = DOMAIN journal /\ DOMAIN F = 1 .. Len(F)
  BY <1>1, <1>4
<1> HIDE DEF F
<1>7. /\ journal' \in Seq(Entries) /\ DOMAIN journal' = 1 .. Len(F) + 1
      /\ \A k \in DOMAIN F : journal'[k] = F[k]
      /\ journal'[Len(F) + 1] = Reversal(i)
  BY <1>3, <1>4, <1>5, AppendIs
<1> QED
  BY <1>3, <1>4, <1>6, <1>7

\* The book stays a list of balanced entries.
LEMMA BookKept ==
  ASSUME BookInv, Commit
  PROVE  BookInv'
<1>1. CASE Post
  <2>1. PICK date \in Dates, ps \in Kinds :
          /\ journal' \in Seq(Entries) /\ DOMAIN journal' = 1 .. Len(journal) + 1
          /\ \A k \in DOMAIN journal : journal'[k] = journal[k]
          /\ journal'[Len(journal) + 1] = Entry(date, ps, "POSTED", 0)
    BY <1>1, PostIs
  <2>2. DOMAIN journal = 1 .. Len(journal) /\ Len(journal) \in Nat
    BY DEF BookInv
  <2>3. \A k \in DOMAIN journal' : SumFunction(Net(journal'[k].postings)) = 0
    <3> TAKE k \in DOMAIN journal'
    <3>1. CASE k \in DOMAIN journal
      BY <2>1, <3>1 DEF BookInv
    <3>2. CASE k = Len(journal) + 1
      <4>1. journal'[k].postings = ps /\ ps \in Kinds
        BY <2>1, <3>2 DEF Entry
      <4> QED
        BY <4>1, KindsAssumption
    <3> QED
      BY <2>1, <2>2, <3>1, <3>2
  <2>4. active' \subseteq Accounts
    BY <1>1 DEF Post, BookInv
  <2> QED
    BY <2>1, <2>3, <2>4 DEF BookInv
<1>2. ASSUME NEW i \in DOMAIN journal, Void(i)
      PROVE  BookInv'
  <2>1. /\ journal' \in Seq(Entries) /\ DOMAIN journal' = 1 .. Len(journal) + 1
        /\ \A k \in DOMAIN journal : k # i => journal'[k] = journal[k]
        /\ journal'[i] = [journal[i] EXCEPT !.status = "REVERSED"]
        /\ journal'[Len(journal) + 1] = Reversal(i)
    BY <1>2, VoidIs
  <2>2. DOMAIN journal = 1 .. Len(journal) /\ Len(journal) \in Nat
    BY DEF BookInv
  <2>3. journal[i].postings \in Postings /\ SumFunction(Net(journal[i].postings)) = 0
    BY EntryIs DEF BookInv
  <2>4. journal'[i].postings = journal[i].postings
    BY <2>1, EntryIs DEF Entries
  <2>5. SumFunction(Net(journal'[Len(journal) + 1].postings)) = 0
    <3>1. journal'[Len(journal) + 1].postings = Negated(journal[i].postings)
      BY <2>1 DEF Reversal, Entry
    <3> QED
      BY <2>3, <3>1, ReversalBalances
  <2>6. \A k \in DOMAIN journal' : SumFunction(Net(journal'[k].postings)) = 0
    <3> TAKE k \in DOMAIN journal'
    <3>1. CASE k = i
      BY <2>3, <2>4, <3>1
    <3>2. CASE k \in DOMAIN journal /\ k # i
      BY <2>1, <3>2 DEF BookInv
    <3>3. CASE k = Len(journal) + 1
      BY <2>5, <3>3
    <3> QED
      BY <2>1, <2>2, <3>1, <3>2, <3>3
  <2>7. active' \subseteq Accounts
    BY <1>2 DEF Void, BookInv
  <2> QED
    BY <2>1, <2>6, <2>7 DEF BookInv
<1>3. ASSUME NEW a \in Archivable, SetActive(a)
      PROVE  BookInv'
  BY <1>3, ReportsAssumption DEF SetActive, BookInv
<1> QED
  BY <1>1, <1>2, <1>3 DEF Commit
-----------------------------------------------------------------------------
(* Sums over the journal *)

Rows(from, to) == {i \in DOMAIN journal : Within(journal[i], from, to)}
Column(a) == [i \in DOMAIN journal |-> Net(journal[i].postings)[a]]
Cells == [q \in (DOMAIN journal) \X Accounts |-> Net(journal[q[1]].postings)[q[2]]]

\* The journal is finite, and its dates and amounts are integers.
LEMMA JournalIs ==
  ASSUME BookInv
  PROVE  /\ DOMAIN journal = 1 .. Len(journal) /\ Len(journal) \in Nat
         /\ IsFiniteSet(DOMAIN journal)
         /\ \A i \in DOMAIN journal : journal[i].date \in Nat
         /\ \A i \in DOMAIN journal, a \in Accounts : Net(journal[i].postings)[a] \in Int
<1>1. DOMAIN journal = 1 .. Len(journal) /\ Len(journal) \in Nat
  BY DEF BookInv
<1>2. IsFiniteSet(DOMAIN journal)
  BY <1>1, FS_Interval
<1>3. \A i \in DOMAIN journal : journal[i].date \in Nat
  BY EntryIs DEF Dates
<1>4. \A i \in DOMAIN journal, a \in Accounts : Net(journal[i].postings)[a] \in Int
  <2> TAKE i \in DOMAIN journal, a \in Accounts
  <2>1. journal[i].postings \in Postings
    BY EntryIs
  <2> QED
    BY <2>1, AmountsAre
<1> QED
  BY <1>1, <1>2, <1>3, <1>4

\* What is posted to an account in some entries is the sum of a column.
LEMMA PostedIs ==
  ASSUME BookInv, NEW a \in Accounts, NEW W \in SUBSET (DOMAIN journal)
  PROVE  Posted(a, W) = Sum(Column(a), W) /\ Posted(a, W) \in Int
<1>1. Posted(a, W) = Sum(Column(a), W)
  BY SumOnSetIs DEF Posted, Column
<1>2. IsFiniteSet(W) /\ \A i \in W : Column(a)[i] \in Int
  BY JournalIs, FS_Subset DEF Column
<1>3. Sum(Column(a), W) \in Int
  BY <1>2, SumRemoves
<1> QED
  BY <1>1, <1>3

\* Balances of some accounts over some entries add up by entry as by account.
LEMMA CrossFoot ==
  ASSUME BookInv, NEW T \in SUBSET Accounts, NEW W \in SUBSET (DOMAIN journal),
         NEW bal, \A a \in T : bal[a] = Posted(a, W)
  PROVE  /\ Sum(bal, T) = Sum(Cells, W \X T)
         /\ Sum(bal, T) = Sum([i \in DOMAIN journal |-> Sum(Net(journal[i].postings), T)], W)
         /\ Sum(bal, T) \in Int
         /\ \A a \in T : bal[a] \in Int
<1> DEFINE r == [i \in DOMAIN journal |-> Net(journal[i].postings)]
           u == [i \in DOMAIN journal |-> Sum(Net(journal[i].postings), T)]
           c == [a \in Accounts |-> Column(a)]
<1>1. IsFiniteSet(W) /\ IsFiniteSet(T)
  BY JournalIs, FiniteChart, FS_Subset
<1>2. IsTable(Cells, W, T, r, u)
  <2>1. \A i \in W, a \in T : Cells[<<i, a>>] = Net(journal[i].postings)[a]
    BY DEF Cells
  <2>2. \A i \in W, a \in T : Net(journal[i].postings)[a] \in Int
    BY JournalIs
  <2>3. \A i \in W : r[i] = Net(journal[i].postings) /\ u[i] = Sum(r[i], T)
    OBVIOUS
  <2> HIDE DEF r, u
  <2> QED
    BY <2>1, <2>2, <2>3 DEF IsTable
<1>3. \A i \in W, a \in T : c[a][i] = Cells[<<i, a>>]
  BY DEF Column, Cells
<1>4. \A a \in T : bal[a] = Sum(c[a], W)
  <2>1. \A a \in T : c[a] = Column(a)
    OBVIOUS
  <2> HIDE DEF c
  <2> QED
    BY <2>1, PostedIs
<1>5. \A a \in T : bal[a] \in Int
  BY PostedIs
<1>6. Sum(bal, T) \in Int
  BY <1>1, <1>5, SumRemoves
<1> HIDE DEF r, u, c
<1>7. HasColumns(Cells, W, T, c, bal)
  BY <1>3, <1>4 DEF HasColumns
<1>8. /\ Sum(u, W) = Sum(bal, T)
      /\ Sum(Cells, W \X T) = Sum(bal, T)
      /\ \A a \in T : bal[a] \in Int
  BY <1>1, <1>2, <1>7, SumBothWays
<1> QED
  BY <1>5, <1>6, <1>8 DEF u

\* What is posted in two disjoint sets of entries is posted in them together.
LEMMA PostedParts ==
  ASSUME BookInv, NEW a \in Accounts, NEW W \in SUBSET (DOMAIN journal),
         NEW A \in SUBSET W, NEW B \in SUBSET W, \A i \in W : i \in A <=> i \notin B
  PROVE  Posted(a, W) = Posted(a, A) + Posted(a, B)
<1>1. IsFiniteSet(W) /\ \A i \in W : Column(a)[i] \in Int
  BY JournalIs, FS_Subset DEF Column
<1>2. Sum(Column(a), W) = Sum(Column(a), A) + Sum(Column(a), B)
      /\ Sum(Column(a), A) \in Int /\ Sum(Column(a), B) \in Int
  BY <1>1, SumParts
<1>3. A \in SUBSET (DOMAIN journal) /\ B \in SUBSET (DOMAIN journal)
  OBVIOUS
<1> QED
  BY <1>2, <1>3, PostedIs

\* Balances up to a day are those up to an earlier one and of the days between.
LEMMA WindowsAdd ==
  ASSUME BookInv, NEW a \in Accounts, NEW from \in Dates, NEW to \in Dates, from <= to
  PROVE  /\ Balances(Null, to)[a] = Balances(Null, from - 1)[a] + Balances(from, to)[a]
         /\ Balances(Null, from - 1)[a] \in Int /\ Balances(from, to)[a] \in Int
<1> DEFINE W == Rows(Null, to)
           A == Rows(Null, from - 1)
           B == Rows(from, to)
<1>1. /\ Balances(Null, to)[a] = Posted(a, W) /\ Balances(Null, from - 1)[a] = Posted(a, A)
      /\ Balances(from, to)[a] = Posted(a, B)
  BY DEF Balances, Rows
<1>2. /\ W \in SUBSET (DOMAIN journal) /\ A \in SUBSET (DOMAIN journal)
      /\ B \in SUBSET (DOMAIN journal)
  BY DEF Rows
<1>3. A \in SUBSET W /\ B \in SUBSET W /\ \A i \in W : i \in A <=> i \notin B
  <2>1. from \in Nat /\ to \in Nat /\ from - 1 \in Nat /\ from # Null /\ to # Null
        /\ from - 1 # Null
    BY ReportsAssumption DEF Dates
  <2>2. \A i \in DOMAIN journal :
          /\ journal[i].date \in Nat
          /\ i \in W <=> journal[i].date <= to
          /\ i \in A <=> journal[i].date <= from - 1
          /\ i \in B <=> journal[i].date >= from /\ journal[i].date <= to
    BY <2>1, JournalIs DEF Rows, Within
  <2> HIDE DEF W, A, B
  <2>3. \A i \in DOMAIN journal : (i \in A => i \in W) /\ (i \in B => i \in W)
                                  /\ (i \in W => (i \in A <=> i \notin B))
    BY <2>1, <2>2
  <2> QED
    BY <1>2, <2>3
<1> HIDE DEF W, A, B
<1>4. Posted(a, W) = Posted(a, A) + Posted(a, B)
  BY <1>2, <1>3, PostedParts
<1> QED
  BY <1>1, <1>2, <1>4, PostedIs
-----------------------------------------------------------------------------
(* The statements *)

OfType(t) == {a \in Accounts : Type[a] = t}

\* The balances of a window are integers, whose total is that of the five types.
LEMMA TypesAddUp ==
  ASSUME NEW bal, \A a \in Accounts : bal[a] \in Int
  PROVE  /\ \A t \in Types : TotalOf(t, bal) = Sum(bal, OfType(t)) /\ TotalOf(t, bal) \in Int
         /\ Sum(bal, Accounts) = TotalOf("ASSET", bal) + TotalOf("LIABILITY", bal)
              + TotalOf("EQUITY", bal) + TotalOf("INCOME", bal) + TotalOf("EXPENSE", bal)
<1>1. \A t \in Types : TotalOf(t, bal) = Sum(bal, OfType(t))
  BY SumOnSetIs DEF TotalOf, OfType
<1>2. \A t \in Types : OfType(t) \in SUBSET Accounts
  BY DEF OfType
<1>3. ASSUME NEW t \in Types
      PROVE  Sum(bal, OfType(t)) \in Int
  <2>1. IsFiniteSet(OfType(t)) /\ \A a \in OfType(t) : bal[a] \in Int
    BY <1>2, FiniteChart, FS_Subset
  <2> QED
    BY <2>1, SumRemoves
<1> DEFINE A4 == Accounts \ OfType("ASSET")
           A3 == A4 \ OfType("LIABILITY")
           A2 == A3 \ OfType("EQUITY")
<1>4. /\ A4 \in SUBSET Accounts /\ A3 \in SUBSET A4 /\ A2 \in SUBSET A3
      /\ OfType("ASSET") \in SUBSET Accounts /\ OfType("LIABILITY") \in SUBSET A4
      /\ OfType("EQUITY") \in SUBSET A3 /\ OfType("INCOME") \in SUBSET A2
      /\ OfType("EXPENSE") \in SUBSET A2
  BY DEF OfType
<1>5. /\ \A a \in Accounts : a \in OfType("ASSET") <=> a \notin A4
      /\ \A a \in A4 : a \in OfType("LIABILITY") <=> a \notin A3
      /\ \A a \in A3 : a \in OfType("EQUITY") <=> a \notin A2
  BY <1>4
<1>6. \A a \in A2 : a \in OfType("INCOME") <=> a \notin OfType("EXPENSE")
  BY ChartAssumption DEF OfType, Types
<1>7. /\ IsFiniteSet(Accounts) /\ IsFiniteSet(A4) /\ IsFiniteSet(A3) /\ IsFiniteSet(A2)
  BY FiniteChart, FS_Subset, <1>4
<1>8. /\ \A a \in A4 : bal[a] \in Int
      /\ \A a \in A3 : bal[a] \in Int
      /\ \A a \in A2 : bal[a] \in Int
  BY <1>4
<1> HIDE DEF A4, A3, A2
<1>9. Sum(bal, Accounts) = Sum(bal, OfType("ASSET")) + Sum(bal, A4)
  BY <1>4, <1>5, <1>7, SumParts
<1>10. Sum(bal, A4) = Sum(bal, OfType("LIABILITY")) + Sum(bal, A3)
  BY <1>4, <1>5, <1>7, <1>8, SumParts
<1>11. Sum(bal, A3) = Sum(bal, OfType("EQUITY")) + Sum(bal, A2)
  BY <1>4, <1>5, <1>7, <1>8, SumParts
<1>12. Sum(bal, A2) = Sum(bal, OfType("INCOME")) + Sum(bal, OfType("EXPENSE"))
  BY <1>4, <1>6, <1>7, <1>8, SumParts
<1>13. {"ASSET", "LIABILITY", "EQUITY", "INCOME", "EXPENSE"} = Types
  BY DEF Types
<1> QED
  BY <1>1, <1>3, <1>9, <1>10, <1>11, <1>12, <1>13

\* All accounts together come to nothing, in any window.
LEMMA BalancesBalance ==
  ASSUME BookInv, NEW from, NEW to
  PROVE  /\ Sum(Balances(from, to), Accounts) = 0
         /\ \A a \in Accounts : Balances(from, to)[a] \in Int
<1> DEFINE W == Rows(from, to)
           bal == Balances(from, to)
           u == [i \in DOMAIN journal |-> Sum(Net(journal[i].postings), Accounts)]
<1>1. W \in SUBSET (DOMAIN journal) /\ \A a \in Accounts : bal[a] = Posted(a, W)
  BY DEF Rows, Balances
<1>2. Accounts \in SUBSET Accounts
  OBVIOUS
<1>3. \A i \in W : u[i] = 0
  <2>1. ASSUME NEW i \in DOMAIN journal
        PROVE  u[i] = 0
    <3>1. SumFunction(Net(journal[i].postings)) = Sum(Net(journal[i].postings), Accounts)
      BY EntryIs, NetIs
    <3>2. SumFunction(Net(journal[i].postings)) = 0
      BY DEF BookInv
    <3> QED
      BY <3>1, <3>2
  <2> QED
    BY <1>1, <2>1
<1>4. IsFiniteSet(W)
  BY <1>1, JournalIs, FS_Subset
<1> HIDE DEF W, bal
<1>5. Sum(bal, Accounts) = Sum(u, W) /\ \A a \in Accounts : bal[a] \in Int
  BY <1>1, <1>2, CrossFoot
<1> HIDE DEF u
<1>6. Sum(u, W) = 0
  BY <1>3, <1>4, SumZero
<1> QED
  BY <1>5, <1>6 DEF bal

\* Debits equal credits.
LEMMA TrialBalances ==
  ASSUME BookInv, NEW d
  PROVE  TrialBalance(d).debit = TrialBalance(d).credit
<1> DEFINE bal == Balances(Null, d)
           P == {a \in Accounts : bal[a] > 0}
           N == {a \in Accounts : bal[a] < 0}
           R == Accounts \ P
           Z == {a \in Accounts : bal[a] = 0}
<1>1. Sum(bal, Accounts) = 0 /\ \A a \in Accounts : bal[a] \in Int
  BY BalancesBalance
<1>2. TrialBalance(d).debit = Sum(bal, P) /\ TrialBalance(d).credit = -Sum(bal, N)
  BY SumOnSetIs DEF TrialBalance
<1>3. /\ P \in SUBSET Accounts /\ R \in SUBSET Accounts /\ N \in SUBSET R /\ Z \in SUBSET R
      /\ \A a \in Accounts : a \in P <=> a \notin R
      /\ \A a \in R : a \in N <=> a \notin Z
      /\ \A a \in Z : bal[a] = 0
      /\ \A a \in R : bal[a] \in Int
  <2> HIDE DEF bal
  <2> QED
    BY <1>1
<1>4. IsFiniteSet(Accounts) /\ IsFiniteSet(R) /\ IsFiniteSet(Z)
  BY <1>3, FiniteChart, FS_Subset
<1> HIDE DEF bal, P, N, R, Z
<1>5. Sum(bal, Accounts) = Sum(bal, P) + Sum(bal, R) /\ Sum(bal, P) \in Int
  BY <1>1, <1>3, <1>4, SumParts
<1>6. Sum(bal, R) = Sum(bal, N) + Sum(bal, Z) /\ Sum(bal, N) \in Int
  BY <1>3, <1>4, SumParts
<1>7. Sum(bal, Z) = 0
  BY <1>3, <1>4, SumZero
<1> QED
  BY <1>1, <1>2, <1>5, <1>6, <1>7

\* Assets equal liabilities, equity and income.
LEMMA SheetBalances ==
  ASSUME BookInv, NEW d
  PROVE  BalanceSheet(d).assets =
           BalanceSheet(d).liabilities + BalanceSheet(d).equity + BalanceSheet(d).netIncome
<1> DEFINE bal == Balances(Null, d)
<1>1. Sum(bal, Accounts) = 0 /\ \A a \in Accounts : bal[a] \in Int
  BY BalancesBalance
<1>2. /\ BalanceSheet(d).assets = TotalOf("ASSET", bal)
      /\ BalanceSheet(d).liabilities = -TotalOf("LIABILITY", bal)
      /\ BalanceSheet(d).equity = -TotalOf("EQUITY", bal)
      /\ BalanceSheet(d).netIncome = -TotalOf("INCOME", bal) - TotalOf("EXPENSE", bal)
  BY DEF BalanceSheet
<1> HIDE DEF bal
<1>3. /\ \A t \in Types : TotalOf(t, bal) \in Int
      /\ Sum(bal, Accounts) = TotalOf("ASSET", bal) + TotalOf("LIABILITY", bal)
           + TotalOf("EQUITY", bal) + TotalOf("INCOME", bal) + TotalOf("EXPENSE", bal)
  BY <1>1, TypesAddUp
<1>4. /\ TotalOf("ASSET", bal) \in Int /\ TotalOf("LIABILITY", bal) \in Int
      /\ TotalOf("EQUITY", bal) \in Int /\ TotalOf("INCOME", bal) \in Int
      /\ TotalOf("EXPENSE", bal) \in Int
  BY <1>3 DEF Types
<1>5. \A p, q, r, s, t \in Int : p + q + r + s + t = 0 => p = (-q) + (-r) + ((-s) - t)
  OBVIOUS
<1>6. TotalOf("ASSET", bal) = (-TotalOf("LIABILITY", bal)) + (-TotalOf("EQUITY", bal))
                              + ((-TotalOf("INCOME", bal)) - TotalOf("EXPENSE", bal))
  BY <1>1, <1>3, <1>4, <1>5
<1> QED
  BY <1>2, <1>6

\* A set of accounts grows over a window by what the window holds.
LEMMA SetGrowsBy ==
  ASSUME BookInv, NEW T \in SUBSET Accounts, NEW from \in Dates, NEW to \in Dates, from <= to
  PROVE  /\ Sum(Balances(Null, to), T)
              = Sum(Balances(Null, from - 1), T) + Sum(Balances(from, to), T)
         /\ Sum(Balances(Null, from - 1), T) \in Int /\ Sum(Balances(from, to), T) \in Int
<1> DEFINE h == Balances(Null, to)
           f == Balances(Null, from - 1)
           g == Balances(from, to)
<1>1. \A a \in T : f[a] \in Int /\ g[a] \in Int /\ h[a] = f[a] + g[a]
  BY WindowsAdd
<1>2. IsFiniteSet(T)
  BY FiniteChart, FS_Subset
<1> HIDE DEF f, g, h
<1>3. Sum(h, T) = Sum(f, T) + Sum(g, T)
  BY <1>1, <1>2, SumPlus
<1>4. Sum(f, T) \in Int /\ Sum(g, T) \in Int
  BY <1>1, <1>2, SumRemoves
<1> QED
  BY <1>3, <1>4 DEF f, g, h

\* The balance sheet's income grows by the P&L of the days between.
LEMMA IncomeArticulates ==
  ASSUME BookInv, NEW from \in Dates, NEW to \in Dates, from <= to
  PROVE  BalanceSheet(to).netIncome = BalanceSheet(from - 1).netIncome + Pnl(from, to).net
<1> DEFINE h == Balances(Null, to)
           f == Balances(Null, from - 1)
           g == Balances(from, to)
<1>1. /\ BalanceSheet(to).netIncome = -TotalOf("INCOME", h) - TotalOf("EXPENSE", h)
      /\ BalanceSheet(from - 1).netIncome = -TotalOf("INCOME", f) - TotalOf("EXPENSE", f)
      /\ Pnl(from, to).net = -TotalOf("INCOME", g) - TotalOf("EXPENSE", g)
  BY DEF BalanceSheet, Pnl
<1>2. \A bal, t : TotalOf(t, bal) = Sum(bal, OfType(t))
  BY SumOnSetIs DEF TotalOf, OfType
<1>3. OfType("INCOME") \in SUBSET Accounts /\ OfType("EXPENSE") \in SUBSET Accounts
  BY DEF OfType
<1>4. /\ Sum(h, OfType("INCOME")) = Sum(f, OfType("INCOME")) + Sum(g, OfType("INCOME"))
      /\ Sum(f, OfType("INCOME")) \in Int /\ Sum(g, OfType("INCOME")) \in Int
  BY <1>3, SetGrowsBy
<1>5. /\ Sum(h, OfType("EXPENSE")) = Sum(f, OfType("EXPENSE")) + Sum(g, OfType("EXPENSE"))
      /\ Sum(f, OfType("EXPENSE")) \in Int /\ Sum(g, OfType("EXPENSE")) \in Int
  BY <1>3, SetGrowsBy
<1> HIDE DEF f, g, h
<1> QED
  BY <1>1, <1>2, <1>4, <1>5

\* A well-formed journal has one set of books.
LEMMA BooksAgree ==
  ASSUME BookInv
  PROVE  BooksConsistent
<1>1. BookTypeOK
  BY EntryIs DEF BookTypeOK, BookInv, Statuses
<1>2. ASSUME NEW d \in Dates
      PROVE  /\ TrialBalance(d).debit = TrialBalance(d).credit
             /\ BalanceSheet(d).assets = BalanceSheet(d).liabilities + BalanceSheet(d).equity
                                         + BalanceSheet(d).netIncome
             /\ \A from \in Dates : from <= d =>
                  BalanceSheet(d).netIncome
                    = BalanceSheet(from - 1).netIncome + Pnl(from, d).net
  BY TrialBalances, SheetBalances, IncomeArticulates
<1>3. StatementsArticulate
  BY <1>2 DEF StatementsArticulate
<1> QED
  BY <1>1, <1>3 DEF BooksConsistent

\* Cash receipts less payments over a window are the postings to cash over it.
LEMMA CashFlowNet ==
  ASSUME BookInv, NEW from, NEW to
  PROVE  CashFlow(from, to).net = Sum(Balances(from, to), Cash)
<1> DEFINE W == Rows(from, to)
           D == W \X Cash
           in == [q \in D |-> Debit(journal[q[1]].postings, q[2])]
           out == [q \in D |-> Credit(journal[q[1]].postings, q[2])]
<1>1. CashFlow(from, to).net = Sum(in, D) - Sum(out, D)
  <2>1. CashFlow(from, to).net = SumFunction(in) - SumFunction(out)
    BY DEF CashFlow, Rows
  <2>2. DOMAIN in = D /\ DOMAIN out = D
    OBVIOUS
  <2> HIDE DEF in, out
  <2> QED
    BY <2>1, <2>2, SumIs
<1>2. W \in SUBSET (DOMAIN journal) /\ Cash \in SUBSET Accounts
  BY DEF Rows, Cash
<1>3. \A q \in D : in[q] \in Int /\ out[q] \in Int /\ Cells[q] \in Int /\ in[q] = Cells[q] + out[q]
  <2> SUFFICES ASSUME NEW q \in D
               PROVE  /\ in[q] \in Int /\ out[q] \in Int /\ Cells[q] \in Int
                      /\ in[q] = Cells[q] + out[q]
    OBVIOUS
  <2> DEFINE ps == journal[q[1]].postings
             a == q[2]
  <2>1. q[1] \in DOMAIN journal /\ a \in Accounts
    BY <1>2
  <2>2. in[q] = Debit(ps, a) /\ out[q] = Credit(ps, a) /\ Cells[q] = Net(ps)[a]
    BY <2>1 DEF Cells
  <2>3. ps \in Postings
    BY <2>1, EntryIs
  <2> HIDE DEF in, out, D, ps, a
  <2>4. /\ Debit(ps, a) \in Nat /\ Credit(ps, a) \in Nat
        /\ Net(ps)[a] = Debit(ps, a) - Credit(ps, a)
    BY <2>1, <2>3, AmountsAre
  <2> QED
    BY <2>2, <2>4
<1>4. IsFiniteSet(W) /\ IsFiniteSet(Cash) /\ IsFiniteSet(D)
  <2>1. IsFiniteSet(W) /\ IsFiniteSet(Cash)
    BY <1>2, JournalIs, FiniteChart, FS_Subset
  <2> QED
    BY <2>1, FS_Product
<1>5. Sum(Balances(from, to), Cash) = Sum(Cells, D)
  <2>1. \A a \in Cash : Balances(from, to)[a] = Posted(a, W)
    BY <1>2 DEF Balances, Rows
  <2> HIDE DEF W
  <2> QED
    BY <1>2, <2>1, CrossFoot
<1> HIDE DEF W, D, in, out
<1>6. Sum(in, D) = Sum(Cells, D) + Sum(out, D)
  BY <1>3, <1>4, SumPlus
<1>7. Sum(Cells, D) \in Int /\ Sum(out, D) \in Int
  BY <1>3, <1>4, SumRemoves
<1> QED
  BY <1>1, <1>5, <1>6, <1>7

\* The cash flow statement agrees with the cash accounts.
LEMMA CashAgrees ==
  ASSUME BookInv
  PROVE  CashFlowIsMovement
<1> SUFFICES ASSUME NEW from \in Dates, NEW to \in Dates, from <= to
             PROVE  CashFlow(from, to).net = SumFunctionOnSet(Balances(Null, to), Cash)
                      - SumFunctionOnSet(Balances(Null, from - 1), Cash)
  BY DEF CashFlowIsMovement
<1>1. Cash \in SUBSET Accounts
  BY DEF Cash
<1>2. /\ Sum(Balances(Null, to), Cash)
           = Sum(Balances(Null, from - 1), Cash) + Sum(Balances(from, to), Cash)
      /\ Sum(Balances(Null, from - 1), Cash) \in Int /\ Sum(Balances(from, to), Cash) \in Int
  BY <1>1, SetGrowsBy
<1>3. CashFlow(from, to).net = Sum(Balances(from, to), Cash)
  BY CashFlowNet
<1> QED
  BY <1>2, <1>3, SumOnSetIs
-----------------------------------------------------------------------------
(* Entries in force *)

Dead(from, to) == {i \in Rows(from, to) : ~Effective(journal[i])}

\* What a reversal reverses is marked, and what is marked is reversed.  Entries that are
\* not in force then come to as much as the second reversals among them, in every account
\* and window: the first reversal of an entry takes it along.
ForceInv ==
  /\ \A i \in DOMAIN journal : journal[i].reverses # 0 =>
       /\ journal[i].reverses \in DOMAIN journal
       /\ journal[journal[i].reverses].status = "REVERSED"
  /\ \A i \in DOMAIN journal : journal[i].status = "REVERSED" =>
       \E k \in DOMAIN journal : journal[k].reverses = i
  /\ \A a \in Accounts, from \in Ends, to \in Ends :
       Posted(a, Dead(from, to)) = Posted(a, Surplus(from, to))

\* Of what the primed sums are made.
LEMMA SumsNext ==
  ASSUME NEW a \in Accounts, NEW from \in Ends, NEW to \in Ends
  PROVE  /\ Posted(a, Dead(from, to))' = Sum(Column(a)', Dead(from, to)')
         /\ Posted(a, Surplus(from, to))' = Sum(Column(a)', Surplus(from, to)')
BY SumOnSetIs DEF Posted, Column

\* Amounts posted stay, and with them the sums over old entries.
LEMMA OldSums ==
  ASSUME BookInv, NEW a \in Accounts, NEW W \in SUBSET (DOMAIN journal),
         DOMAIN journal' = 1 .. Len(journal) + 1,
         \A k \in DOMAIN journal : journal'[k].postings = journal[k].postings
  PROVE  Sum(Column(a)', W) = Posted(a, W) /\ Posted(a, W) \in Int
<1>1. \A k \in W : Column(a)'[k] = Column(a)[k]
  BY JournalIs DEF Column
<1>2. IsFiniteSet(W)
  BY JournalIs, FS_Subset
<1>3. Sum(Column(a)', W) = Sum(Column(a), W)
  BY <1>1, <1>2, SumAgrees
<1> QED
  BY <1>3, PostedIs

\* Posting leaves what is not in force alone.
LEMMA PostKeepsForce ==
  ASSUME BookInv, ForceInv, Post
  PROVE  ForceInv'
<1>1. PICK date \in Dates, ps \in Kinds :
        /\ DOMAIN journal' = 1 .. Len(journal) + 1
        /\ \A k \in DOMAIN journal : journal'[k] = journal[k]
        /\ journal'[Len(journal) + 1] = Entry(date, ps, "POSTED", 0)
  BY PostIs
<1>2. DOMAIN journal = 1 .. Len(journal) /\ Len(journal) \in Nat
  BY JournalIs
<1>3. journal'[Len(journal) + 1].status = "POSTED" /\ journal'[Len(journal) + 1].reverses = 0
  BY <1>1 DEF Entry
<1>4. \A k \in DOMAIN journal' : k \in DOMAIN journal \/ k = Len(journal) + 1
  BY <1>1, <1>2
<1>5. \A k \in DOMAIN journal : k \in DOMAIN journal'
  BY <1>1, <1>2
<1>6. \A i \in DOMAIN journal' : journal'[i].reverses # 0 =>
        /\ journal'[i].reverses \in DOMAIN journal'
        /\ journal'[journal'[i].reverses].status = "REVERSED"
  BY <1>1, <1>3, <1>4, <1>5 DEF ForceInv
<1>7. \A i \in DOMAIN journal' : journal'[i].status = "REVERSED" =>
        \E k \in DOMAIN journal' : journal'[k].reverses = i
  BY <1>1, <1>3, <1>4, <1>5 DEF ForceInv
<1>8. ASSUME NEW a \in Accounts, NEW from \in Ends, NEW to \in Ends
      PROVE  Posted(a, Dead(from, to))' = Posted(a, Surplus(from, to))'
  <2>1. Dead(from, to) \in SUBSET (DOMAIN journal)
        /\ Surplus(from, to) \in SUBSET (DOMAIN journal)
    BY DEF Dead, Rows, Surplus
  <2>2. Dead(from, to)' = Dead(from, to)
    <3>1. Effective(journal'[Len(journal) + 1])
      BY <1>3 DEF Effective
    <3> QED
      BY <1>1, <1>4, <1>5, <3>1 DEF Dead, Rows
  <2>3. Surplus(from, to)' = Surplus(from, to)
    <3>1. \A k \in DOMAIN journal : 1 .. k - 1 \subseteq DOMAIN journal
      BY <1>2
    <3>2. \A k \in DOMAIN journal : \A m \in 1 .. k - 1 : journal'[m] = journal[m]
      BY <1>1, <3>1
    <3> QED
      BY <1>1, <1>3, <1>4, <1>5, <3>2 DEF Surplus
  <2>4. \A W \in SUBSET (DOMAIN journal) : Sum(Column(a)', W) = Posted(a, W)
    BY <1>1, OldSums
  <2> QED
    BY <2>1, <2>2, <2>3, <2>4, SumsNext DEF ForceInv
<1> QED
  BY <1>6, <1>7, <1>8 DEF ForceInv

\* A void takes an entry and its reversal out of force together, or adds a second
\* reversal of an entry that was out of force already.
LEMMA VoidKeepsForce ==
  ASSUME BookInv, BookInv', ForceInv, NEW v \in DOMAIN journal, Void(v)
  PROVE  ForceInv'
<1> DEFINE n == Len(journal) + 1
<1>1. /\ DOMAIN journal' = 1 .. Len(journal) + 1
      /\ \A k \in DOMAIN journal : k # v => journal'[k] = journal[k]
      /\ journal'[v] = [journal[v] EXCEPT !.status = "REVERSED"]
      /\ journal'[n] = Reversal(v)
  BY VoidIs
<1>2. DOMAIN journal = 1 .. Len(journal) /\ Len(journal) \in Nat
  BY JournalIs
<1>3. journal[v].status \in {"POSTED", "REVERSED"} /\ journal[v] \in Entries
  BY EntryIs DEF Void
<1>4. /\ journal'[v].postings = journal[v].postings /\ journal'[v].date = journal[v].date
      /\ journal'[v].status = "REVERSED" /\ journal'[v].reverses = journal[v].reverses
  BY <1>1, <1>3 DEF Entries
<1>5. /\ journal'[n].postings = Negated(journal[v].postings)
      /\ journal'[n].date = journal[v].date /\ journal'[n].status = "REVERSAL"
      /\ journal'[n].reverses = v
  BY <1>1 DEF Reversal, Entry
<1>6. \A k \in DOMAIN journal' : k = v \/ k = n \/ (k \in DOMAIN journal /\ k # v /\ k # n)
  BY <1>1, <1>2
<1>7. v \in DOMAIN journal' /\ n \in DOMAIN journal' /\ v # n /\ n \notin DOMAIN journal
      /\ v # 0 /\ 1 .. n - 1 = DOMAIN journal /\ \A k \in DOMAIN journal : k \in DOMAIN journal'
  BY <1>1, <1>2
<1>8. \A k \in DOMAIN journal :
        /\ journal'[k].postings = journal[k].postings /\ journal'[k].date = journal[k].date
        /\ journal'[k].reverses = journal[k].reverses
        /\ journal[k].status = "REVERSED" => journal'[k].status = "REVERSED"
  <2> TAKE k \in DOMAIN journal
  <2>1. CASE k = v
    BY <1>4, <2>1
  <2>2. CASE k # v
    BY <1>1, <2>2
  <2> QED
    BY <2>1, <2>2
<1> HIDE DEF n
<1>9. \A i \in DOMAIN journal' : journal'[i].reverses # 0 =>
        /\ journal'[i].reverses \in DOMAIN journal'
        /\ journal'[journal'[i].reverses].status = "REVERSED"
  <2> TAKE i \in DOMAIN journal'
  <2>1. CASE i = n
    BY <1>4, <1>5, <1>7, <2>1
  <2>2. CASE i \in DOMAIN journal
    BY <1>7, <1>8, <2>2 DEF ForceInv
  <2> QED
    BY <1>6, <2>1, <2>2
<1>10. \A i \in DOMAIN journal' : journal'[i].status = "REVERSED" =>
         \E k \in DOMAIN journal' : journal'[k].reverses = i
  <2> SUFFICES ASSUME NEW i \in DOMAIN journal', journal'[i].status = "REVERSED"
               PROVE  \E k \in DOMAIN journal' : journal'[k].reverses = i
    OBVIOUS
  <2>1. CASE i = v
    BY <1>5, <1>7, <2>1
  <2>2. CASE i = n
    BY <1>5, <2>2
  <2>3. CASE i \in DOMAIN journal /\ i # v /\ i # n
    <3>1. journal[i].status = "REVERSED"
      BY <1>1, <2>3
    <3> QED
      BY <1>7, <1>8, <2>3, <3>1 DEF ForceInv
  <2> QED
    BY <1>6, <2>1, <2>2, <2>3
<1>11. ASSUME NEW a \in Accounts, NEW from \in Ends, NEW to \in Ends
       PROVE  Posted(a, Dead(from, to))' = Posted(a, Surplus(from, to))'
  <2> DEFINE W == Dead(from, to)
             X == Surplus(from, to)
             f == Column(a)'
  <2>1. W \in SUBSET (DOMAIN journal) /\ X \in SUBSET (DOMAIN journal)
    BY DEF Dead, Rows, Surplus
  <2>2. /\ Sum(f, W) = Posted(a, W) /\ Sum(f, X) = Posted(a, X)
        /\ Posted(a, W) \in Int /\ Posted(a, X) \in Int
    <3> HIDE DEF W, X, f
    <3>1. \A S \in SUBSET (DOMAIN journal) :
            Sum(Column(a)', S) = Posted(a, S) /\ Posted(a, S) \in Int
      BY <1>1, <1>8, OldSums
    <3> QED
      BY <2>1, <3>1 DEF f
  <2>3. Sum(f, W) = Sum(f, X) /\ Sum(f, X) \in Int
    <3>1. Posted(a, W) = Posted(a, X)
      BY DEF ForceInv
    <3> HIDE DEF W, X, f
    <3> QED
      BY <2>2, <3>1
  <2>4. f[n] = -f[v] /\ f[v] \in Int
    <3>1. f[n] = Net(journal'[n].postings)[a] /\ f[v] = Net(journal'[v].postings)[a]
      BY <1>7 DEF Column
    <3> HIDE DEF f
    <3>2. Net(journal[v].postings)[a] \in Int
      BY JournalIs
    <3>3. Net(journal'[v].postings)[a] = Net(journal[v].postings)[a]
      BY <1>4
    <3>4. Net(journal'[n].postings)[a] = -Net(journal[v].postings)[a]
      BY <1>3, <1>5, ReversalBalances DEF Entries
    <3> QED
      BY <3>1, <3>2, <3>3, <3>4
  <2>5. IsFiniteSet(DOMAIN journal') /\ \A k \in DOMAIN journal' : f[k] \in Int
    <3>1. IsFiniteSet(DOMAIN journal')
      BY <1>1, <1>2, FS_Interval
    <3>2. ASSUME NEW k \in DOMAIN journal'
          PROVE  Net(journal'[k].postings)[a] \in Int
      <4>1. journal'[k] \in Entries
        BY <3>2 DEF BookInv
      <4> QED
        BY <4>1, AmountsAre DEF Entries
    <3> QED
      BY <3>1, <3>2 DEF Column
  <2>6. n \notin W /\ n \notin X /\ n \in DOMAIN journal' /\ v \in DOMAIN journal'
        /\ W \in SUBSET (DOMAIN journal') /\ X \in SUBSET (DOMAIN journal')
    BY <1>7, <2>1
  \* What becomes of the second reversals.
  <2>7. \A k \in DOMAIN journal : k \in Surplus(from, to)' <=> k \in X
    <3>1. \A k \in DOMAIN journal : \A m \in 1 .. k - 1 :
            m \in DOMAIN journal /\ journal'[m].reverses = journal[m].reverses
      BY <1>2, <1>8
    <3>2. \A k \in DOMAIN journal : Within(journal'[k], from, to) <=> Within(journal[k], from, to)
      BY <1>8 DEF Within
    <3> QED
      BY <1>7, <1>8, <3>1, <3>2 DEF Surplus
  <2>8. n \in Surplus(from, to)' <=> /\ Within(journal[v], from, to)
                                     /\ journal[v].status = "REVERSED"
    <3>1. Within(journal'[n], from, to) <=> Within(journal[v], from, to)
      BY <1>5 DEF Within
    <3>2. (\E k \in 1 .. n - 1 : journal'[k].reverses = v) <=> journal[v].status = "REVERSED"
      <4>1. ASSUME NEW k \in 1 .. n - 1, journal'[k].reverses = v
            PROVE  journal[v].status = "REVERSED"
        <5>1. k \in DOMAIN journal /\ journal[k].reverses = v
          BY <1>7, <1>8, <4>1
        <5> QED
          BY <1>7, <5>1 DEF ForceInv
      <4>2. ASSUME journal[v].status = "REVERSED"
            PROVE  \E k \in 1 .. n - 1 : journal'[k].reverses = v
        <5>1. PICK k \in DOMAIN journal : journal[k].reverses = v
          BY <4>2 DEF ForceInv
        <5> QED
          BY <1>7, <1>8, <5>1
      <4> QED
        BY <4>1, <4>2
    <3> QED
      BY <1>5, <1>7, <3>1, <3>2 DEF Surplus
  <2>9. Dead(from, to)' \in SUBSET (DOMAIN journal')
        /\ Surplus(from, to)' \in SUBSET (DOMAIN journal')
    BY DEF Dead, Rows, Surplus
  <2>10. \A S \in SUBSET (DOMAIN journal'), x \in DOMAIN journal' : x \notin S =>
           Sum(f, S \cup {x}) = f[x] + Sum(f, S) /\ Sum(f, S) \in Int /\ f[x] \in Int
    <3> HIDE DEF f
    <3> QED
      BY <2>5, SumAdds
  <2>11. CASE Within(journal[v], from, to) /\ journal[v].status = "POSTED"
    <3>1. Surplus(from, to)' = X
      BY <1>6, <1>7, <2>1, <2>7, <2>8, <2>9, <2>11
    <3>2. Dead(from, to)' = (W \cup {v}) \cup {n} /\ v \notin W
      <4>1. \A k \in DOMAIN journal' : k \in Dead(from, to)' <=> k = v \/ k = n \/ k \in W
        BY <1>1, <1>4, <1>5, <1>6, <1>7, <2>11 DEF Dead, Rows, Within, Effective
      <4>2. v \notin W
        BY <2>11 DEF Dead, Effective
      <4> QED
        BY <1>7, <2>1, <2>9, <4>1, <4>2
    <3> DEFINE U == W \cup {v}
    <3>3. U \in SUBSET (DOMAIN journal') /\ n \notin U
      BY <1>7, <2>6
    <3> HIDE DEF f, W, X
    <3>4. Sum(f, U) = f[v] + Sum(f, W)
      BY <2>6, <2>10, <3>2
    <3> HIDE DEF U
    <3>5. Sum(f, U \cup {n}) = f[n] + Sum(f, U)
      BY <2>6, <2>10, <3>3
    <3>6. Sum(f, Dead(from, to)') = Sum(f, X)
      BY <2>3, <2>4, <3>2, <3>4, <3>5 DEF U
    <3> QED
      BY <3>1, <3>6, SumsNext DEF f
  <2>12. CASE Within(journal[v], from, to) /\ journal[v].status = "REVERSED"
    <3>1. Surplus(from, to)' = X \cup {n}
      BY <1>6, <1>7, <2>1, <2>7, <2>8, <2>9, <2>12
    <3>2. Dead(from, to)' = W \cup {n}
      <4>1. \A k \in DOMAIN journal' : k \in Dead(from, to)' <=> k = n \/ k \in W
        BY <1>1, <1>4, <1>5, <1>6, <1>7, <2>12 DEF Dead, Rows, Within, Effective
      <4> QED
        BY <1>7, <2>1, <2>9, <4>1
    <3> HIDE DEF f, W, X
    <3>3. Sum(f, W \cup {n}) = f[n] + Sum(f, W) /\ Sum(f, X \cup {n}) = f[n] + Sum(f, X)
      BY <2>6, <2>10
    <3> QED
      BY <2>3, <3>1, <3>2, <3>3, SumsNext DEF f
  <2>13. CASE ~Within(journal[v], from, to)
    <3>1. \A k \in DOMAIN journal' : k \in Dead(from, to)' <=> k \in W
      BY <1>1, <1>4, <1>5, <1>6, <1>7, <2>13 DEF Dead, Rows, Within, Effective
    <3>2. Dead(from, to)' = W
      BY <1>7, <2>1, <2>9, <3>1
    <3>3. Surplus(from, to)' = X
      BY <1>6, <1>7, <2>1, <2>7, <2>8, <2>9, <2>13
    <3> QED
      BY <2>3, <3>2, <3>3, SumsNext DEF f
  <2> QED
    BY <1>3, <2>11, <2>12, <2>13
<1> QED
  BY <1>9, <1>10, <1>11 DEF ForceInv

\* So it is with every commit.
LEMMA ForceKept ==
  ASSUME BookInv, ForceInv, Commit
  PROVE  ForceInv'
<1>1. CASE Post
  BY <1>1, PostKeepsForce
<1>2. ASSUME NEW i \in DOMAIN journal, Void(i)
      PROVE  ForceInv'
  BY <1>2, BookKept, VoidKeepsForce DEF Commit
<1>3. ASSUME NEW a \in Archivable, SetActive(a)
      PROVE  ForceInv'
  <2>1. journal' = journal
    BY <1>3 DEF SetActive
  <2> QED
    BY <2>1 DEF ForceInv, Posted, Dead, Rows, Surplus
<1> QED
  BY <1>1, <1>2, <1>3 DEF Commit

\* What some entries post to a type's accounts, by row and by entry.
LEMMA PostedToIs ==
  ASSUME BookInv, NEW t \in Types, NEW W \in SUBSET (DOMAIN journal)
  PROVE  /\ PostedTo(t, W) = Sum(Cells, W \X OfType(t))
         /\ PostedTo(t, W)
              = Sum([i \in DOMAIN journal |-> Sum(Net(journal[i].postings), OfType(t))], W)
         /\ PostedTo(t, W) \in Int
<1> DEFINE bal == [a \in Accounts |-> Posted(a, W)]
           T == OfType(t)
<1>1. T \in SUBSET Accounts
  BY DEF OfType
<1>2. PostedTo(t, W) = Sum(bal, T)
  BY SumOnSetIs DEF PostedTo, TotalOf, OfType
<1>3. \A a \in T : bal[a] = Posted(a, W)
  BY <1>1
<1> HIDE DEF bal, T
<1>4. /\ Sum(bal, T) = Sum(Cells, W \X T)
      /\ Sum(bal, T) = Sum([i \in DOMAIN journal |-> Sum(Net(journal[i].postings), T)], W)
      /\ Sum(bal, T) \in Int
  BY <1>1, <1>3, CrossFoot
<1> QED
  BY <1>2, <1>4 DEF T

\* What an entry posts to a type is an integer.
LEMMA EntrySum ==
  ASSUME BookInv, NEW t \in Types, NEW i \in DOMAIN journal
  PROVE  Sum(Net(journal[i].postings), OfType(t)) \in Int
<1>1. IsFiniteSet(OfType(t)) /\ \A a \in OfType(t) : Net(journal[i].postings)[a] \in Int
  BY JournalIs, FiniteChart, FS_Subset DEF OfType
<1> QED
  BY <1>1, SumRemoves

\* Two parts of some entries post what they post together.
LEMMA PostedToParts ==
  ASSUME BookInv, NEW t \in Types, NEW W \in SUBSET (DOMAIN journal),
         NEW A \in SUBSET W, NEW B \in SUBSET W, \A i \in W : i \in A <=> i \notin B
  PROVE  PostedTo(t, W) = PostedTo(t, A) + PostedTo(t, B)
<1> DEFINE u == [i \in DOMAIN journal |-> Sum(Net(journal[i].postings), OfType(t))]
<1>1. IsFiniteSet(W) /\ \A i \in W : u[i] \in Int
  BY JournalIs, FS_Subset, EntrySum
<1>2. A \in SUBSET (DOMAIN journal) /\ B \in SUBSET (DOMAIN journal)
  OBVIOUS
<1>3. PostedTo(t, W) = Sum(u, W) /\ PostedTo(t, A) = Sum(u, A) /\ PostedTo(t, B) = Sum(u, B)
  BY <1>2, PostedToIs
<1> HIDE DEF u
<1>4. Sum(u, W) = Sum(u, A) + Sum(u, B)
  BY <1>1, SumParts
<1> QED
  BY <1>3, <1>4

\* A line of the P&L is what its entries in force and second reversals post.
LEMMA LineIs ==
  ASSUME BookInv, ForceInv, NEW t \in {"INCOME", "EXPENSE"}, NEW from \in Ends, NEW to \in Ends
  PROVE  /\ Line(t, Pnl(from, to))
              = Side(t) * (PostedTo(t, InForce(from, to)) + PostedTo(t, Surplus(from, to)))
         /\ PostedTo(t, InForce(from, to)) \in Int /\ PostedTo(t, Surplus(from, to)) \in Int
<1> DEFINE W == Rows(from, to)
           A == InForce(from, to)
           B == Dead(from, to)
           X == Surplus(from, to)
<1>1. /\ W \in SUBSET (DOMAIN journal) /\ A \in SUBSET W /\ B \in SUBSET W
      /\ A \in SUBSET (DOMAIN journal) /\ X \in SUBSET (DOMAIN journal)
      /\ \A i \in W : i \in A <=> i \notin B
  BY DEF Rows, InForce, Dead, Surplus
<1>2. TotalOf(t, Balances(from, to)) = PostedTo(t, W)
  BY DEF Balances, PostedTo, Rows
<1>3. PostedTo(t, B) = PostedTo(t, X)
  <2>1. \A a \in Accounts : Posted(a, B) = Posted(a, X)
    BY DEF ForceInv
  <2> HIDE DEF B, X
  <2>2. [a \in Accounts |-> Posted(a, B)] = [a \in Accounts |-> Posted(a, X)]
    BY <2>1
  <2> QED
    BY <2>2 DEF PostedTo
<1>4. t \in Types
  BY DEF Types
<1>5. Line(t, Pnl(from, to)) = Side(t) * TotalOf(t, Balances(from, to))
  <2> DEFINE bal == Balances(from, to)
  <2>1. \A a \in Accounts : bal[a] \in Int
    BY BalancesBalance
  <2>2. /\ Pnl(from, to).expense = TotalOf("EXPENSE", bal)
        /\ Pnl(from, to).income = -TotalOf("INCOME", bal)
    BY DEF Pnl
  <2> HIDE DEF bal
  <2>3. TotalOf(t, bal) \in Int
    BY <1>4, <2>1, TypesAddUp
  <2>4. CASE t = "INCOME"
    BY <2>2, <2>3, <2>4 DEF Line, Side, bal
  <2>5. CASE t = "EXPENSE"
    BY <2>2, <2>3, <2>5 DEF Line, Side, bal
  <2> QED
    BY <2>4, <2>5
<1> HIDE DEF W, A, B, X
<1>6. PostedTo(t, W) = PostedTo(t, A) + PostedTo(t, B)
  BY <1>1, <1>4, PostedToParts
<1>7. PostedTo(t, A) \in Int /\ PostedTo(t, X) \in Int
  BY <1>1, <1>4, PostedToIs
<1> QED
  BY <1>2, <1>3, <1>5, <1>6, <1>7 DEF A, X

\* The magnitudes listed for a type are what is in force, and twice what is contrary.
LEMMA CategoryIs ==
  ASSUME BookInv, NEW t \in {"INCOME", "EXPENSE"}, NEW from \in Ends, NEW to \in Ends
  PROVE  /\ CategoryTotal(t, from, to)
              = Side(t) * PostedTo(t, InForce(from, to)) + 2 * Contrary(t, from, to)
         /\ Contrary(t, from, to) \in Int
<1> DEFINE T == OfType(t)
           L == InForce(from, to)
           D == L \X T
           s == Side(t)
           mags == [q \in D |-> Magnitude(journal[q[1]].postings, q[2])]
           h == [q \in D |-> Other(t, journal[q[1]].postings, q[2])]
           k == [q \in D |-> s * Cells[q]]
           m == [q \in D |-> k[q] + h[q]]
<1>1. t \in Types /\ s \in {1, -1}
  BY DEF Types, Side
<1>2. CategoryTotal(t, from, to) = Sum(mags, D)
  <2>1. CategoryTotal(t, from, to) = SumFunction(mags)
    BY DEF CategoryTotal, OfType
  <2>2. DOMAIN mags = D
    OBVIOUS
  <2> HIDE DEF mags
  <2> QED
    BY <2>1, <2>2, SumIs
<1>3. Contrary(t, from, to) = Sum(h, D)
  <2>1. Contrary(t, from, to) = SumFunction(h)
    BY DEF Contrary, OfType
  <2>2. DOMAIN h = D
    OBVIOUS
  <2> HIDE DEF h
  <2> QED
    BY <2>1, <2>2, SumIs
<1>4. L \in SUBSET (DOMAIN journal) /\ T \in SUBSET Accounts
  BY DEF InForce, OfType
<1>5. IsFiniteSet(D)
  <2>1. IsFiniteSet(L) /\ IsFiniteSet(T)
    BY <1>4, JournalIs, FiniteChart, FS_Subset
  <2> QED
    BY <2>1, FS_Product
<1>6. \A q \in D : /\ Cells[q] \in Int /\ h[q] \in Int /\ k[q] = s * Cells[q] /\ k[q] \in Int
                   /\ m[q] = k[q] + h[q] /\ m[q] \in Int /\ mags[q] = m[q] + h[q]
  <2> SUFFICES ASSUME NEW q \in D
               PROVE  /\ Cells[q] \in Int /\ h[q] \in Int /\ k[q] = s * Cells[q] /\ k[q] \in Int
                      /\ m[q] = k[q] + h[q] /\ m[q] \in Int /\ mags[q] = m[q] + h[q]
    OBVIOUS
  <2>1. q[1] \in DOMAIN journal /\ q[2] \in Accounts
    BY <1>4
  <2> DEFINE ps == journal[q[1]].postings
  <2>2. /\ Cells[q] = Net(ps)[q[2]] /\ mags[q] = Magnitude(ps, q[2]) /\ h[q] = Other(t, ps, q[2])
        /\ k[q] = s * Cells[q] /\ m[q] = k[q] + h[q]
    BY <1>4, <2>1 DEF Cells
  <2>3. ps \in Postings
    BY <2>1, EntryIs
  <2> HIDE DEF mags, h, k, m, D, ps
  <2>4. /\ Debit(ps, q[2]) \in Nat /\ Credit(ps, q[2]) \in Nat
        /\ Net(ps)[q[2]] = Debit(ps, q[2]) - Credit(ps, q[2])
    BY <2>1, <2>3, AmountsAre
  <2>5. CASE t = "INCOME"
    <3>1. s = -1 /\ h[q] = Debit(ps, q[2]) /\ mags[q] = Debit(ps, q[2]) + Credit(ps, q[2])
      BY <2>2, <2>5 DEF Side, Other, Magnitude
    <3> HIDE DEF s
    <3> QED
      BY <2>2, <2>4, <3>1
  <2>6. CASE t = "EXPENSE"
    <3>1. s = 1 /\ h[q] = Credit(ps, q[2]) /\ mags[q] = Debit(ps, q[2]) + Credit(ps, q[2])
      BY <2>2, <2>6 DEF Side, Other, Magnitude
    <3> HIDE DEF s
    <3> QED
      BY <2>2, <2>4, <3>1
  <2> QED
    BY <2>5, <2>6
<1>7. PostedTo(t, L) = Sum(Cells, D) /\ PostedTo(t, L) \in Int
  BY <1>1, <1>4, PostedToIs
<1> HIDE DEF mags, h, k, m, D, L, T, s
<1>8. Sum(k, D) = s * Sum(Cells, D)
  <2>1. CASE s = 1
    <3>1. \A q \in D : k[q] = Cells[q]
      BY <1>6, <2>1
    <3>2. Sum(k, D) = Sum(Cells, D)
      BY <1>5, <3>1, SumAgrees
    <3> QED
      BY <1>7, <2>1, <3>2
  <2>2. CASE s = -1
    <3>1. \A q \in D : Cells[q] \in Int /\ k[q] = -Cells[q]
      BY <1>6, <2>2
    <3>2. Sum(k, D) = -Sum(Cells, D)
      BY <1>5, <3>1, SumNegates
    <3> QED
      BY <1>7, <2>2, <3>2
  <2> QED
    BY <1>1, <2>1, <2>2
<1>9. Sum(m, D) = Sum(k, D) + Sum(h, D)
  BY <1>5, <1>6, SumPlus
<1>10. Sum(mags, D) = Sum(m, D) + Sum(h, D)
  BY <1>5, <1>6, SumPlus
<1>11. Sum(h, D) \in Int
  BY <1>5, <1>6, SumRemoves
<1>12. s * PostedTo(t, L) \in Int
  BY <1>1, <1>7
<1>13. Sum(mags, D) = s * PostedTo(t, L) + 2 * Sum(h, D)
  BY <1>7, <1>8, <1>9, <1>10, <1>11, <1>12
<1> QED
  BY <1>2, <1>3, <1>11, <1>13 DEF s, L

\* The list of entries in force agrees with the P&L.
LEMMA ListAgrees ==
  ASSUME BookInv, ForceInv
  PROVE  EffectiveMatchesPnl
<1> SUFFICES ASSUME NEW from \in Ends, NEW to \in Ends, NEW t \in {"INCOME", "EXPENSE"}
             PROVE  CategoryTotal(t, from, to)
                      = Line(t, Pnl(from, to)) + 2 * Contrary(t, from, to)
                          - Side(t) * PostedTo(t, Surplus(from, to))
  BY DEF EffectiveMatchesPnl
<1>1. /\ Line(t, Pnl(from, to))
           = Side(t) * (PostedTo(t, InForce(from, to)) + PostedTo(t, Surplus(from, to)))
      /\ PostedTo(t, InForce(from, to)) \in Int /\ PostedTo(t, Surplus(from, to)) \in Int
  BY LineIs
<1>2. /\ CategoryTotal(t, from, to)
           = Side(t) * PostedTo(t, InForce(from, to)) + 2 * Contrary(t, from, to)
      /\ Contrary(t, from, to) \in Int
  BY CategoryIs
<1>3. Side(t) = 1 \/ Side(t) = -1
  BY DEF Side
<1> QED
  BY <1>1, <1>2, <1>3
-----------------------------------------------------------------------------
(* The theorems *)

\* A step commits to the book or leaves it alone.
LEMMA StepKinds ==
  ASSUME [Next]_vars
  PROVE  Commit \/ UNCHANGED bookVars
BY DEF Next, vars, bookVars, CommitBetween, CommitDuring, PutAway, PageOpening, PageRows,
       BalanceSheetRows, AskLedger, AskGeneralLedger, TrialBalanceCsv, PnlCsv, JournalCsv,
       BalanceSheetTotals, Render

\* A new book has no entries.
LEMMA InitBook ==
  ASSUME Init
  PROVE  BookInv /\ ForceInv
<1>1. journal = << >> /\ active = Accounts
  BY DEF Init, BookInit
<1>2. BookInv
  BY <1>1 DEF BookInv
<1>3. ASSUME NEW a \in Accounts, NEW from \in Ends, NEW to \in Ends
      PROVE  Posted(a, Dead(from, to)) = Posted(a, Surplus(from, to))
  <2>1. Dead(from, to) = {} /\ Surplus(from, to) = {}
    BY <1>1 DEF Dead, Rows, Surplus
  <2> QED
    BY <2>1
<1> QED
  BY <1>1, <1>2, <1>3 DEF ForceInv

\* The journal is always a list of balanced entries, whoever commits and whatever
\* reports are being made: post_core's check and the reversal's negation.
THEOREM JournalBalances == Spec => []BookInv
<1>1. BookInv /\ [Next]_vars => BookInv'
  <2> SUFFICES ASSUME BookInv, [Next]_vars
               PROVE  BookInv'
    OBVIOUS
  <2>1. CASE Commit
    BY <2>1, BookKept
  <2>2. CASE UNCHANGED bookVars
    BY <2>2 DEF bookVars, BookInv
  <2> QED
    BY <2>1, <2>2, StepKinds
<1> QED
  BY <1>1, InitBook, PTL DEF Spec

\* Trial balance, balance sheet and P&L are one set of books on every date: debits
\* equal credits, assets equal liabilities, equity and income, and income grows by
\* the P&L of the days between.
THEOREM StatementsAgree == Spec => []BooksConsistent
BY JournalBalances, BooksAgree, PTL

\* The cash flow of a window is the movement of the cash accounts over it.
THEOREM CashFlowAgrees == Spec => []CashFlowIsMovement
BY JournalBalances, CashAgrees, PTL

\* Entries that are not in force cancel out in every account and every window, but for
\* the reversals of an entry that was reversed before: a void takes an entry and its first
\* reversal out of force together, whoever else voids it.
THEOREM ReversalsCancel == Spec => [](BookInv /\ ForceInv)
<1>1. BookInv /\ ForceInv /\ [Next]_vars => ForceInv'
  <2> SUFFICES ASSUME BookInv, ForceInv, [Next]_vars
               PROVE  ForceInv'
    OBVIOUS
  <2>1. CASE Commit
    BY <2>1, ForceKept
  <2>2. CASE UNCHANGED bookVars
    BY <2>2 DEF bookVars, ForceInv, Posted, Dead, Rows, Surplus
  <2> QED
    BY <2>1, <2>2, StepKinds
<1> QED
  BY <1>1, InitBook, JournalBalances, PTL DEF Spec

\* The income and the expenses listed as in force differ from the P&L of every window by
\* exactly twice what was posted to the other side of a category, and by what entries that
\* were reversed again were reversed for, whatever is posted and however voids race.
THEOREM EffectiveAgrees == Spec => []EffectiveMatchesPnl
<1>1. BookInv /\ ForceInv => EffectiveMatchesPnl
  BY ListAgrees
<1> QED
  BY <1>1, ReversalsCancel, PTL
-----------------------------------------------------------------------------
(* History, for any journal j: what is committed later changes no date and no  *)
(* amount of what was there.                                                   *)

Grows(j, k) == /\ Len(j) <= Len(k)
               /\ \A i \in DOMAIN j : k[i].date = j[i].date /\ k[i].postings = j[i].postings
ColumnOf(j, a) == [i \in DOMAIN j |-> Net(j[i].postings)[a]]
BalanceIn(j, a, n, to) == Sum(ColumnOf(j, a), {i \in 1 .. n : Within(j[i], Null, to)})
BeforeIn(j, a, n, from) == Sum(ColumnOf(j, a), {i \in 1 .. n : Before(j[i], from)})

\* A commit adds to history.
LEMMA CommitGrows ==
  ASSUME BookInv, Commit
  PROVE  Grows(journal, journal')
<1>1. Len(journal) \in Nat /\ DOMAIN journal = 1 .. Len(journal)
  BY JournalIs
<1>2. CASE Post
  <2>1. /\ journal' \in Seq(Entries) /\ DOMAIN journal' = 1 .. Len(journal) + 1
        /\ \A k \in DOMAIN journal : journal'[k] = journal[k]
    BY <1>2, PostIs
  <2>2. Len(journal') = Len(journal) + 1
    BY <1>1, <2>1
  <2> QED
    BY <1>1, <2>1, <2>2 DEF Grows
<1>3. ASSUME NEW v \in DOMAIN journal, Void(v)
      PROVE  Grows(journal, journal')
  <2>1. /\ journal' \in Seq(Entries) /\ DOMAIN journal' = 1 .. Len(journal) + 1
        /\ \A k \in DOMAIN journal : k # v => journal'[k] = journal[k]
        /\ journal'[v] = [journal[v] EXCEPT !.status = "REVERSED"]
    BY <1>3, VoidIs
  <2>2. Len(journal') = Len(journal) + 1
    BY <1>1, <2>1
  <2>3. journal'[v].date = journal[v].date /\ journal'[v].postings = journal[v].postings
    BY <2>1, EntryIs DEF Entries
  <2>4. \A k \in DOMAIN journal :
          journal'[k].date = journal[k].date /\ journal'[k].postings = journal[k].postings
    <3> TAKE k \in DOMAIN journal
    <3>1. CASE k = v
      BY <2>3, <3>1
    <3>2. CASE k # v
      BY <2>1, <3>2
    <3> QED
      BY <3>1, <3>2
  <2>5. Len(journal) <= Len(journal')
    BY <1>1, <2>2
  <2> QED
    BY <2>4, <2>5 DEF Grows
<1>4. ASSUME NEW a \in Archivable, SetActive(a)
      PROVE  Grows(journal, journal')
  BY <1>1, <1>4 DEF SetActive, Grows
<1> QED
  BY <1>2, <1>3, <1>4 DEF Commit

\* Journals that grow have the old places and the same sums over old entries.
LEMMA GrowsIs ==
  ASSUME NEW j \in Seq(Entries), NEW k \in Seq(Entries), Grows(j, k)
  PROVE  /\ DOMAIN j = 1 .. Len(j) /\ DOMAIN k = 1 .. Len(k) /\ DOMAIN j \subseteq DOMAIN k
         /\ Len(j) \in Nat /\ Len(k) \in Nat /\ Len(j) <= Len(k)
         /\ \A i \in DOMAIN j : k[i].date = j[i].date /\ k[i].postings = j[i].postings
BY DEF Grows

\* ... and so balances and openings taken earlier still stand.
LEMMA SumsKept ==
  ASSUME NEW j \in Seq(Entries), NEW k \in Seq(Entries), Grows(j, k),
         NEW a \in Accounts, NEW n \in 0 .. Len(j), NEW end
  PROVE  /\ BalanceIn(k, a, n, end) = BalanceIn(j, a, n, end)
         /\ BeforeIn(k, a, n, end) = BeforeIn(j, a, n, end)
<1>1. /\ DOMAIN j = 1 .. Len(j) /\ DOMAIN k = 1 .. Len(k) /\ DOMAIN j \subseteq DOMAIN k
      /\ Len(j) \in Nat /\ Len(k) \in Nat /\ Len(j) <= Len(k)
      /\ \A i \in DOMAIN j : k[i].date = j[i].date /\ k[i].postings = j[i].postings
  BY GrowsIs
<1>2. 1 .. n \subseteq DOMAIN j /\ IsFiniteSet(1 .. n)
  <2>1. Len(j) \in Nat /\ DOMAIN j = 1 .. Len(j)
    BY <1>1
  <2>2. n \in Int /\ n <= Len(j)
    BY <2>1
  <2>3. IsFiniteSet(1 .. n)
    BY <2>2, FS_Interval
  <2> QED
    BY ONLY <2>1, <2>2, <2>3
<1>3. \A i \in 1 .. n : ColumnOf(k, a)[i] = ColumnOf(j, a)[i]
  BY <1>1, <1>2 DEF ColumnOf
<1>4. \A W \in SUBSET (1 .. n) : Sum(ColumnOf(k, a), W) = Sum(ColumnOf(j, a), W)
  <2> TAKE W \in SUBSET (1 .. n)
  <2>1. IsFiniteSet(W) /\ \A i \in W : ColumnOf(k, a)[i] = ColumnOf(j, a)[i]
    BY <1>2, <1>3, FS_Subset
  <2> QED
    BY <2>1, SumAgrees
<1>5. {i \in 1 .. n : Within(k[i], Null, end)} = {i \in 1 .. n : Within(j[i], Null, end)}
  BY <1>1, <1>2 DEF Within
<1>6. {i \in 1 .. n : Before(k[i], end)} = {i \in 1 .. n : Before(j[i], end)}
  BY <1>1, <1>2 DEF Before
<1> QED
  BY <1>4, <1>5, <1>6 DEF BalanceIn, BeforeIn
-----------------------------------------------------------------------------
(* Sheets *)

\* The balances of the first n entries up to a day, and the part of a type in them.
First(j, n, to) == [a \in Accounts |-> BalanceIn(j, a, n, to)]
PartOf(t, j, n, to) == Sum(First(j, n, to), OfType(t))

\* The totals that are waiting for their rows are those of the entries there were.
TotalsOK(rep, j) == rep.kind = "totals" =>
  /\ rep.begun \in 0 .. Len(j)
  /\ DOMAIN rep = {"kind", "totals", "to", "begun"}
  /\ rep.totals.assets = PartOf("ASSET", j, rep.begun, rep.to)
  /\ rep.totals.liabilities = -PartOf("LIABILITY", j, rep.begun, rep.to)
  /\ rep.totals.equity = -PartOf("EQUITY", j, rep.begun, rep.to)

\* Balances are those of all entries.
LEMMA FirstIs ==
  ASSUME BookInv, NEW to
  PROVE  Balances(Null, to) = First(journal, Len(journal), to)
<1>1. ASSUME NEW a \in Accounts
      PROVE  Balances(Null, to)[a] = BalanceIn(journal, a, Len(journal), to)
  <2>1. {i \in DOMAIN journal : Within(journal[i], Null, to)} \in SUBSET (DOMAIN journal)
    OBVIOUS
  <2>2. Balances(Null, to)[a]
          = Sum(Column(a), {i \in DOMAIN journal : Within(journal[i], Null, to)})
    BY <2>1, PostedIs DEF Balances
  <2> QED
    BY <2>2, JournalIs DEF BalanceIn, ColumnOf, Column
<1> QED
  BY <1>1 DEF Balances, First

\* The rows of a section add up to the total of its type.
LEMMA SectionAddsUp ==
  ASSUME NEW t \in Types, NEW bal, \A a \in Accounts : bal[a] \in Int, NEW s \in {1, -1}
  PROVE  SumFunction(Section(t, bal, s)) = s * Sum(bal, OfType(t))
<1> DEFINE A == {a \in Accounts : Type[a] = t /\ bal[a] # 0}
           T == OfType(t)
           Z == T \ A
           f == [a \in A |-> s * bal[a]]
<1>1. A \in SUBSET T /\ Z \in SUBSET T /\ \A a \in T : a \in A <=> a \notin Z
  BY DEF OfType
<1>2. T \in SUBSET Accounts /\ IsFiniteSet(T) /\ \A a \in T : bal[a] \in Int
  BY FiniteChart, FS_Subset DEF OfType
<1>3. IsFiniteSet(A) /\ IsFiniteSet(Z)
  BY <1>1, <1>2, FS_Subset
<1>4. SumFunction(Section(t, bal, s)) = Sum(f, A)
  <2>1. Section(t, bal, s) = f
    BY DEF Section
  <2>2. DOMAIN f = A
    OBVIOUS
  <2> HIDE DEF f, A
  <2> QED
    BY <2>1, <2>2, SumIs
<1>5. \A a \in Z : bal[a] = 0
  BY DEF OfType
<1>6. \A a \in A : bal[a] \in Int /\ f[a] = s * bal[a]
  OBVIOUS
<1> HIDE DEF A, T, Z, f
<1>7. Sum(bal, T) = Sum(bal, A) + Sum(bal, Z) /\ Sum(bal, A) \in Int /\ Sum(bal, Z) \in Int
  BY <1>1, <1>2, SumParts
<1>8. Sum(bal, Z) = 0
  BY <1>3, <1>5, SumZero
<1>9. CASE s = 1
  <2>1. \A a \in A : f[a] = bal[a]
    BY <1>6, <1>9
  <2>2. Sum(f, A) = Sum(bal, A)
    BY <1>3, <2>1, SumAgrees
  <2> QED
    BY <1>4, <1>7, <1>8, <1>9, <2>2 DEF T
<1>10. CASE s = -1
  <2>1. \A a \in A : bal[a] \in Int /\ f[a] = -bal[a]
    BY <1>6, <1>10
  <2>2. Sum(f, A) = -Sum(bal, A)
    BY <1>3, <2>1, SumNegates
  <2> QED
    BY <1>4, <1>7, <1>8, <1>10, <2>2 DEF T
<1> QED
  BY <1>9, <1>10

\* Sheets foot up, for any report and journal.
SheetOK(rep, j) == rep.kind = "sheet" => \A section \in DOMAIN rep.rows :
  \/ SumFunction(rep.rows[section]) = rep.totals[section]
  \/ \E i \in rep.begun + 1 .. rep.read : Within(j[i], Null, rep.to)

\* That is the property of the model.
LEMMA SheetIs == /\ SheetOK(report, journal) => SheetFootsUp
                 /\ SheetFootsUp => SheetOK(report, journal)
BY DEF SheetOK, SheetFootsUp, Late

\* Totals that wait are kept by commits.
LEMMA TotalsKept ==
  ASSUME NEW j \in Seq(Entries), NEW k \in Seq(Entries), Grows(j, k),
         NEW rep, TotalsOK(rep, j)
  PROVE  TotalsOK(rep, k)
<1> SUFFICES ASSUME rep.kind = "totals"
             PROVE  TotalsOK(rep, k)
  BY DEF TotalsOK
<1>1. rep.begun \in 0 .. Len(j)
  BY DEF TotalsOK
<1>2. rep.begun \in 0 .. Len(k)
  BY <1>1, GrowsIs
<1>3. First(k, rep.begun, rep.to) = First(j, rep.begun, rep.to)
  BY <1>1, SumsKept DEF First
<1> QED
  BY <1>2, <1>3 DEF TotalsOK, PartOf

\* The totals of a balance sheet are taken as the book stands.
LEMMA TotalsTaken ==
  ASSUME BookInv, NEW asOf, BalanceSheetTotals(asOf)
  PROVE  TotalsOK(report', journal) /\ report'.kind = "totals"
<1>1. report' = [kind |-> "totals", totals |-> BalanceSheet(asOf), to |-> asOf,
                 begun |-> Len(journal)]
  BY DEF BalanceSheetTotals, Render
<1>2. \A t : PartOf(t, journal, Len(journal), asOf) = TotalOf(t, Balances(Null, asOf))
  BY FirstIs, SumOnSetIs DEF PartOf, TotalOf, OfType
<1>3. Len(journal) \in 0 .. Len(journal)
  BY JournalIs
<1>4. /\ BalanceSheet(asOf).assets = TotalOf("ASSET", Balances(Null, asOf))
      /\ BalanceSheet(asOf).liabilities = -TotalOf("LIABILITY", Balances(Null, asOf))
      /\ BalanceSheet(asOf).equity = -TotalOf("EQUITY", Balances(Null, asOf))
  BY DEF BalanceSheet
<1> HIDE DEF BalanceSheet
<1> QED
  BY <1>1, <1>2, <1>3, <1>4 DEF TotalsOK

\* The rows of a balance sheet add up to its totals, or an entry came between.
LEMMA RowsTaken ==
  ASSUME BookInv, TotalsOK(report, journal), BalanceSheetRows
  PROVE  SheetOK(report', journal) /\ report'.kind = "sheet"
<1> DEFINE b == report.begun
           n == Len(journal)
           to == report.to
           bal == Balances(Null, to)
           rows == [assets |-> Section("ASSET", bal, 1),
                    liabilities |-> Section("LIABILITY", bal, -1),
                    equity |-> Section("EQUITY", bal, -1)]
<1>1. /\ report' = [kind |-> "sheet", rows |-> rows, totals |-> report.totals,
                    to |-> to, begun |-> b, read |-> n]
  BY DEF BalanceSheetRows, Sheet
<1>2. /\ b \in 0 .. n /\ n \in Nat
      /\ report.totals.assets = PartOf("ASSET", journal, b, to)
      /\ report.totals.liabilities = -PartOf("LIABILITY", journal, b, to)
      /\ report.totals.equity = -PartOf("EQUITY", journal, b, to)
  BY JournalIs DEF BalanceSheetRows, TotalsOK
<1>3. (\A a \in Accounts : bal[a] \in Int) /\ bal = First(journal, n, to)
  BY BalancesBalance, FirstIs
<1>4. /\ SumFunction(rows.assets) = 1 * Sum(bal, OfType("ASSET"))
      /\ SumFunction(rows.liabilities) = (-1) * Sum(bal, OfType("LIABILITY"))
      /\ SumFunction(rows.equity) = (-1) * Sum(bal, OfType("EQUITY"))
  <2>1. "ASSET" \in Types /\ "LIABILITY" \in Types /\ "EQUITY" \in Types
        /\ 1 \in {1, -1} /\ -1 \in {1, -1}
    BY DEF Types
  <2> HIDE DEF bal
  <2>2. SumFunction(Section("ASSET", bal, 1)) = 1 * Sum(bal, OfType("ASSET"))
    BY <1>3, <2>1, SectionAddsUp
  <2>3. SumFunction(Section("LIABILITY", bal, -1)) = (-1) * Sum(bal, OfType("LIABILITY"))
    BY <1>3, <2>1, SectionAddsUp
  <2>4. SumFunction(Section("EQUITY", bal, -1)) = (-1) * Sum(bal, OfType("EQUITY"))
    BY <1>3, <2>1, SectionAddsUp
  <2> QED
    BY <2>2, <2>3, <2>4
<1>5. \A t \in Types : Sum(bal, OfType(t)) \in Int
  BY <1>3, TypesAddUp
<1>6. DOMAIN rows = {"assets", "liabilities", "equity"}
  OBVIOUS
<1>7. CASE \E i \in b + 1 .. n : Within(journal[i], Null, to)
  <2> HIDE DEF rows, b, n, to
  <2> QED
    BY <1>1, <1>7 DEF SheetOK
<1>8. CASE ~\E i \in b + 1 .. n : Within(journal[i], Null, to)
  <2>1. {i \in 1 .. n : Within(journal[i], Null, to)} = {i \in 1 .. b : Within(journal[i], Null, to)}
    <3>1. \A i \in 1 .. n : i \in 1 .. b \/ i \in b + 1 .. n
      BY <1>2
    <3>2. \A i \in 1 .. b : i \in 1 .. n
      BY <1>2
    <3> HIDE DEF b, n, to
    <3> QED
      BY <1>8, <3>1, <3>2
  <2>2. First(journal, n, to) = First(journal, b, to)
    BY <2>1 DEF First, BalanceIn
  <2>3. \A t \in Types : PartOf(t, journal, b, to) = Sum(bal, OfType(t))
    <3> HIDE DEF bal, b, n, to
    <3> QED
      BY <1>3, <2>2 DEF PartOf
  <2>4. /\ SumFunction(rows.assets) = report.totals.assets
        /\ SumFunction(rows.liabilities) = report.totals.liabilities
        /\ SumFunction(rows.equity) = report.totals.equity
    <3>1. "ASSET" \in Types /\ "LIABILITY" \in Types /\ "EQUITY" \in Types
      BY DEF Types
    <3> HIDE DEF rows, bal, b, n, to
    <3> QED
      BY <1>2, <1>4, <1>5, <2>3, <3>1
  <2> HIDE DEF rows, b, n, to
  <2> QED
    BY <1>1, <1>6, <2>4 DEF SheetOK
<1> HIDE DEF rows, b, n, to
<1> QED
  BY <1>1, <1>7, <1>8

\* The rows of a trial balance add up to its totals.
LEMMA TrialBalanceTaken ==
  ASSUME BookInv, NEW asOf, TrialBalanceCsv(asOf)
  PROVE  SheetOK(report', journal) /\ report'.kind = "sheet"
<1> DEFINE bal == Balances(Null, asOf)
           P == {a \in Accounts : bal[a] > 0}
           N == {a \in Accounts : bal[a] < 0}
           debit == Restrict(bal, P)
           credit == [a \in N |-> -bal[a]]
           rows == [debit |-> debit, credit |-> credit]
<1>1. report' = [kind |-> "sheet", rows |-> rows, totals |-> TrialBalance(asOf),
                 to |-> asOf, begun |-> Len(journal), read |-> Len(journal)]
  BY DEF TrialBalanceCsv, Render, Sheet
<1>2. \A a \in Accounts : bal[a] \in Int
  BY BalancesBalance
<1>3. IsFiniteSet(P) /\ IsFiniteSet(N)
  BY FiniteChart, FS_Subset
<1>4. TrialBalance(asOf).debit = Sum(bal, P) /\ TrialBalance(asOf).credit = -Sum(bal, N)
  BY SumOnSetIs DEF TrialBalance
<1>5. DOMAIN debit = P /\ \A a \in P : debit[a] = bal[a]
  BY DEF Restrict
<1>6. DOMAIN credit = N /\ \A a \in N : bal[a] \in Int /\ credit[a] = -bal[a]
  BY <1>2
<1>7. rows.debit = debit /\ rows.credit = credit /\ DOMAIN rows = {"debit", "credit"}
  OBVIOUS
<1> HIDE DEF bal, P, N, debit, credit, rows, TrialBalance
<1>8. SumFunction(debit) = Sum(bal, P)
  <2>1. Sum(debit, P) = Sum(bal, P)
    BY <1>3, <1>5, SumAgrees
  <2> QED
    BY <1>5, <2>1, SumIs
<1>9. SumFunction(credit) = -Sum(bal, N)
  <2>1. Sum(credit, N) = -Sum(bal, N)
    BY <1>3, <1>6, SumNegates
  <2> QED
    BY <1>6, <2>1, SumIs
<1> QED
  BY <1>1, <1>4, <1>7, <1>8, <1>9 DEF SheetOK

\* The totals of a P&L are the sums of its rows.
LEMMA PnlTaken ==
  ASSUME NEW from, NEW to, PnlCsv(from, to)
  PROVE  SheetOK(report', journal) /\ report'.kind = "sheet"
<1> DEFINE rows == [income |-> Section("INCOME", Balances(from, to), -1),
                    expense |-> Section("EXPENSE", Balances(from, to), 1)]
           totals == [income |-> SumFunction(rows.income), expense |-> SumFunction(rows.expense),
                      net |-> SumFunction(rows.income) - SumFunction(rows.expense)]
<1>1. report' = [kind |-> "sheet", rows |-> rows, totals |-> totals,
                 to |-> to, begun |-> Len(journal), read |-> Len(journal)]
  BY DEF PnlCsv, Render, Sheet
<1>2. DOMAIN rows = {"income", "expense"}
  OBVIOUS
<1>3. totals.income = SumFunction(rows.income) /\ totals.expense = SumFunction(rows.expense)
  OBVIOUS
<1> HIDE DEF rows, totals
<1> QED
  BY <1>1, <1>2, <1>3 DEF SheetOK
-----------------------------------------------------------------------------
(* The list of the journal *)

\* When some accounts are only debited and the others only credited, or the other way
\* round, what the debits come to is what is posted to them.
LEMMA LegIsAmount ==
  ASSUME NEW ps \in Postings, SumFunction(Net(ps)) = 0, NEW T \in SUBSET Accounts
  PROVE  /\ (\A a \in T : Credit(ps, a) = 0) /\ (\A a \in Accounts \ T : Debit(ps, a) = 0)
              => SumFunction([a \in Accounts |-> Debit(ps, a)]) = Sum(Net(ps), T)
         /\ (\A a \in T : Debit(ps, a) = 0) /\ (\A a \in Accounts \ T : Credit(ps, a) = 0)
              => SumFunction([a \in Accounts |-> Debit(ps, a)]) = -Sum(Net(ps), T)
<1> DEFINE d == [a \in Accounts |-> Debit(ps, a)]
           R == Accounts \ T
<1>1. \A a \in Accounts : /\ Debit(ps, a) \in Nat /\ Credit(ps, a) \in Nat /\ Net(ps)[a] \in Int
                        /\ Net(ps)[a] = Debit(ps, a) - Credit(ps, a)
  BY AmountsAre
<1>2. DOMAIN d = Accounts
  OBVIOUS
<1>3. \A a \in Accounts : d[a] = Debit(ps, a) /\ d[a] \in Int /\ Net(ps)[a] \in Int
  BY <1>1
<1>4. /\ R \in SUBSET Accounts /\ T \in SUBSET Accounts
      /\ \A a \in Accounts : a \in T <=> a \notin R
  OBVIOUS
<1>5. IsFiniteSet(Accounts) /\ IsFiniteSet(T) /\ IsFiniteSet(R)
  BY <1>4, FiniteChart, FS_Subset
<1> HIDE DEF d, R
<1>6. SumFunction(d) = Sum(d, Accounts) /\ SumFunction(Net(ps)) = Sum(Net(ps), Accounts)
  BY <1>2, SumIs, NetIs
<1>7. Sum(d, Accounts) = Sum(d, T) + Sum(d, R) /\ Sum(d, T) \in Int /\ Sum(d, R) \in Int
  BY <1>3, <1>4, <1>5, SumParts
<1>8. /\ Sum(Net(ps), Accounts) = Sum(Net(ps), T) + Sum(Net(ps), R)
      /\ Sum(Net(ps), T) \in Int /\ Sum(Net(ps), R) \in Int
  <2> DEFINE net == Net(ps)
  <2>1. \A a \in Accounts : net[a] \in Int
    BY <1>3
  <2> HIDE DEF net
  <2>2. /\ Sum(net, Accounts) = Sum(net, T) + Sum(net, R)
        /\ Sum(net, T) \in Int /\ Sum(net, R) \in Int
    BY <1>4, <1>5, <2>1, SumParts
  <2> QED
    BY <2>2 DEF net
<1>9. ASSUME \A a \in T : Credit(ps, a) = 0, \A a \in R : Debit(ps, a) = 0
      PROVE  Sum(d, Accounts) = Sum(Net(ps), T)
  <2>1. \A a \in T : d[a] = Net(ps)[a]
    BY <1>1, <1>3, <1>4, <1>9
  <2>2. \A a \in R : d[a] = 0
    BY <1>3, <1>4, <1>9
  <2>3. Sum(d, T) = Sum(Net(ps), T) /\ Sum(d, R) = 0
    BY <1>5, <2>1, <2>2, SumAgrees, SumZero
  <2> QED
    BY <1>7, <1>8, <2>3
<1>10. ASSUME \A a \in T : Debit(ps, a) = 0, \A a \in R : Credit(ps, a) = 0
       PROVE  Sum(d, Accounts) = -Sum(Net(ps), T)
  <2>1. \A a \in R : d[a] = Net(ps)[a]
    BY <1>1, <1>3, <1>4, <1>10
  <2>2. \A a \in T : d[a] = 0
    BY <1>3, <1>4, <1>10
  <2>3. Sum(d, R) = Sum(Net(ps), R) /\ Sum(d, T) = 0
    BY <1>5, <2>1, <2>2, SumAgrees, SumZero
  <2> QED
    BY <1>6, <1>7, <1>8, <2>3
<1> QED
  BY <1>6, <1>9, <1>10 DEF d, R

\* What a plain entry is listed as and for how much.
LEMMA FlowIs ==
  ASSUME BookInv, NEW i \in DOMAIN journal, Plain(journal[i]), NEW t \in {"INCOME", "EXPENSE"}
  PROVE  /\ Flow(journal[i]) = t
              => Amount(journal[i]) = Side(t) * Sum(Net(journal[i].postings), OfType(t))
         /\ Flow(journal[i]) # t => \A a \in OfType(t) : Net(journal[i].postings)[a] = 0
<1> DEFINE ps == journal[i].postings
           T == OfType(t)
           f == Flow(journal[i])
<1>1. ps \in Postings /\ SumFunction(Net(ps)) = 0
  BY EntryIs DEF BookInv
<1>2. T \in SUBSET Accounts
  BY DEF OfType
<1>3. Amount(journal[i]) = SumFunction([a \in Accounts |-> Debit(ps, a)])
  BY DEF Amount
<1>4. \/ f = "INCOME"
      \/ f = "OTHER" /\ \A a \in T : a \notin DOMAIN ps
      \/ f = "EXPENSE"
  BY DEF Flow, Touched, OfType
<1>5. f \in {"INCOME", "EXPENSE"} => \A a \in Accounts :
        IF Type[a] = f THEN Other(f, ps, a) = 0
        ELSE Own(f, ps, a) = 0 /\ (Type[a] \in {"INCOME", "EXPENSE"} => Other(f, ps, a) = 0)
  BY DEF Plain
<1>6. (\A a \in T : Type[a] = t) /\ \A a \in Accounts \ T : Type[a] # t
  BY DEF OfType
<1> HIDE DEF ps, T, f
<1>7. ASSUME f = t
      PROVE  Amount(journal[i]) = Side(t) * Sum(Net(ps), T)
  <2>1. (\A a \in T : Other(t, ps, a) = 0) /\ \A a \in Accounts \ T : Own(t, ps, a) = 0
    BY <1>2, <1>5, <1>6, <1>7
  <2>2. IsFiniteSet(T) /\ \A a \in T : Net(ps)[a] \in Int
    <3>1. IsFiniteSet(T)
      BY <1>2, FiniteChart, FS_Subset
    <3>2. ASSUME NEW a \in T
          PROVE  Net(ps)[a] \in Int
      <4>1. a \in Accounts
        BY <1>2
      <4> QED
        BY <1>1, <4>1, AmountsAre
    <3> QED
      BY <3>1, <3>2
  <2>3. Sum(Net(ps), T) \in Int
    BY <2>2, SumRemoves
  <2>4. CASE t = "EXPENSE"
    <3>1. (\A a \in T : Credit(ps, a) = 0) /\ \A a \in Accounts \ T : Debit(ps, a) = 0
      BY <2>1, <2>4 DEF Own, Other
    <3>2. Amount(journal[i]) = Sum(Net(ps), T)
      BY <1>1, <1>2, <1>3, <3>1, LegIsAmount
    <3> QED
      BY <2>3, <2>4, <3>2 DEF Side
  <2>5. CASE t = "INCOME"
    <3>1. (\A a \in T : Debit(ps, a) = 0) /\ \A a \in Accounts \ T : Credit(ps, a) = 0
      BY <2>1, <2>5 DEF Own, Other
    <3>2. Amount(journal[i]) = -Sum(Net(ps), T)
      BY <1>1, <1>2, <1>3, <3>1, LegIsAmount
    <3> QED
      BY <2>3, <2>5, <3>2 DEF Side
  <2> QED
    BY <2>4, <2>5
<1>8. ASSUME f # t
      PROVE  \A a \in T : Net(ps)[a] = 0
  <2>1. CASE f = "OTHER"
    <3> TAKE a \in T
    <3>1. a \in Accounts /\ a \notin DOMAIN ps
      BY <1>2, <1>4, <2>1
    <3> QED
      BY <1>1, <3>1, AmountsAre
  <2>2. CASE f \in {"INCOME", "EXPENSE"}
    <3> TAKE a \in T
    <3>1. a \in Accounts /\ Own(f, ps, a) = 0 /\ Other(f, ps, a) = 0
      BY <1>2, <1>5, <1>6, <1>8, <2>2
    <3>2. Debit(ps, a) = 0 /\ Credit(ps, a) = 0
      BY <2>2, <3>1 DEF Own, Other
    <3>3. Net(ps)[a] = Debit(ps, a) - Credit(ps, a)
      BY <1>1, <3>1, AmountsAre
    <3> QED
      BY <3>2, <3>3
  <2> QED
    BY <1>4, <2>1, <2>2
<1> QED
  BY <1>7, <1>8 DEF ps, T, f

\* The plain entries in force that are listed as a flow.
PlainIn(from, to) == {i \in InForce(from, to) : Plain(journal[i])}
InFlow(t, from, to) == {i \in PlainIn(from, to) : Flow(journal[i]) = t}

\* Their amounts add up to what plain entries post to the type.
LEMMA FlowAddsUp ==
  ASSUME BookInv, NEW from \in Ends, NEW to \in Ends, NEW t \in {"INCOME", "EXPENSE"},
         NEW f, \A i \in InFlow(t, from, to) : f[i] = Amount(journal[i])
  PROVE  Sum(f, InFlow(t, from, to)) = Side(t) * PostedTo(t, PlainIn(from, to))
<1> DEFINE T == OfType(t)
           L == PlainIn(from, to)
           A == InFlow(t, from, to)
           Z == L \ A
           s == Side(t)
           u == [i \in DOMAIN journal |-> Sum(Net(journal[i].postings), T)]
<1>1. /\ L \in SUBSET (DOMAIN journal) /\ A \in SUBSET L /\ Z \in SUBSET L
      /\ T \in SUBSET Accounts /\ t \in Types /\ s \in {1, -1}
  BY DEF InForce, PlainIn, InFlow, OfType, Types, Side
<1>2. IsFiniteSet(L) /\ IsFiniteSet(A) /\ IsFiniteSet(Z) /\ IsFiniteSet(T)
  <2>1. IsFiniteSet(L) /\ IsFiniteSet(T)
    BY <1>1, JournalIs, FiniteChart, FS_Subset
  <2> HIDE DEF L, A, Z, T
  <2> QED
    BY <1>1, <2>1, FS_Subset
<1>3. \A i \in L : u[i] \in Int
  BY <1>1, EntrySum
<1>4. \A i \in A : f[i] = s * u[i]
  BY <1>1, FlowIs DEF PlainIn, InFlow
<1>5. \A i \in Z : u[i] = 0
  <2>1. ASSUME NEW i \in Z
        PROVE  Sum(Net(journal[i].postings), T) = 0
    <3>1. \A a \in T : Net(journal[i].postings)[a] = 0
      BY <1>1, FlowIs DEF PlainIn, InFlow
    <3> HIDE DEF T
    <3> QED
      BY <1>2, <3>1, SumZero
  <2> QED
    BY <1>1, <2>1
<1>6. PostedTo(t, L) = Sum(u, L)
  BY <1>1, PostedToIs
<1>7. \A i \in L : i \in A <=> i \notin Z
  BY <1>1
<1> HIDE DEF T, L, A, Z, u, s
<1>8. Sum(u, L) = Sum(u, A) + Sum(u, Z) /\ Sum(u, A) \in Int /\ Sum(u, Z) \in Int
  BY <1>1, <1>2, <1>3, <1>7, SumParts
<1>9. Sum(u, Z) = 0
  BY <1>2, <1>5, SumZero
<1>10. Sum(f, A) = s * Sum(u, A)
  <2>1. CASE s = 1
    <3>1. \A i \in A : f[i] = u[i]
      BY <1>1, <1>3, <1>4, <2>1
    <3>2. Sum(f, A) = Sum(u, A)
      BY <1>2, <3>1, SumAgrees
    <3> QED
      BY <1>8, <2>1, <3>2
  <2>2. CASE s = -1
    <3>1. \A i \in A : u[i] \in Int /\ f[i] = -u[i]
      BY <1>1, <1>3, <1>4, <2>2
    <3>2. Sum(f, A) = -Sum(u, A)
      BY <1>2, <3>1, SumNegates
    <3> QED
      BY <1>8, <2>2, <3>2
  <2> QED
    BY <1>1, <2>1, <2>2
<1> QED
  BY <1>6, <1>8, <1>9, <1>10 DEF A, L, s

\* The plain lines in force of a list add up to the P&L, for any report.
ListOK(rep) == rep.kind = "journal" =>
  LET inForce == {i \in DOMAIN rep.rows : Effective(rep.rows[i])}
      plain == {i \in inForce : Plain(journal[i])}
  IN \A t \in {"INCOME", "EXPENSE"} :
       SumFunctionOnSet([i \in DOMAIN rep.rows |-> rep.rows[i].amount],
                        {i \in plain : rep.rows[i].flow = t})
         = Line(t, Pnl(rep.from, rep.to))
             - Side(t) * (PostedTo(t, inForce \ plain)
                            + PostedTo(t, Surplus(rep.from, rep.to)))

\* That is the property of the model.
LEMMA ListIs == ListOK(report) => JournalListsPnl
BY DEF ListOK, JournalListsPnl

\* The journal export's income and expense lines add up to the P&L.
LEMMA JournalListAgrees ==
  ASSUME BookInv, ForceInv, NEW from \in Ends, NEW to \in Ends, NEW rep,
         rep = [kind |-> "journal", rows |-> JournalList(from, to), from |-> from, to |-> to]
  PROVE  ListOK(rep)
<1> DEFINE rows == JournalList(from, to)
           amounts == [i \in DOMAIN rows |-> rows[i].amount]
           inForce == {i \in DOMAIN rows : Effective(rows[i])}
           plain == {i \in inForce : Plain(journal[i])}
           apart == inForce \ plain
<1>1. rep.rows = rows /\ rep.from = from /\ rep.to = to
  OBVIOUS
<1>2. /\ DOMAIN rows = Rows(from, to)
      /\ \A i \in Rows(from, to) :
           /\ rows[i].flow = Flow(journal[i]) /\ rows[i].amount = Amount(journal[i])
           /\ rows[i].status = journal[i].status
  BY DEF JournalList, Rows
<1> HIDE DEF rows
<1>3. inForce = InForce(from, to)
  BY <1>2 DEF InForce, Rows, Effective
<1>4. plain = PlainIn(from, to)
  BY <1>3 DEF PlainIn
<1>5. \A t : {i \in plain : rows[i].flow = t} = InFlow(t, from, to)
  <2>1. \A i \in plain : rows[i].flow = Flow(journal[i])
    BY <1>2
  <2> HIDE DEF plain
  <2> QED
    BY <1>4, <2>1 DEF InFlow
<1>6. \A t : \A i \in InFlow(t, from, to) : amounts[i] = Amount(journal[i])
  <2>1. \A i \in plain : i \in DOMAIN rows /\ rows[i].amount = Amount(journal[i])
    BY <1>2
  <2> HIDE DEF plain
  <2> QED
    BY <1>4, <2>1 DEF InFlow
<1>7. /\ inForce \in SUBSET (DOMAIN journal) /\ plain \in SUBSET inForce
      /\ apart \in SUBSET inForce /\ apart \in SUBSET (DOMAIN journal)
      /\ plain \in SUBSET (DOMAIN journal) /\ \A i \in inForce : i \in plain <=> i \notin apart
  BY <1>2 DEF Rows
<1> HIDE DEF amounts, inForce, plain, apart
<1>8. ASSUME NEW t \in {"INCOME", "EXPENSE"}
      PROVE  SumFunctionOnSet(amounts, InFlow(t, from, to))
               = Line(t, Pnl(from, to))
                   - Side(t) * (PostedTo(t, apart) + PostedTo(t, Surplus(from, to)))
  <2>1. t \in Types /\ Side(t) \in {1, -1}
    BY DEF Types, Side
  <2>2. PostedTo(t, inForce) = PostedTo(t, plain) + PostedTo(t, apart)
    BY <1>7, <2>1, PostedToParts
  <2>3. PostedTo(t, plain) \in Int /\ PostedTo(t, apart) \in Int
    BY <1>7, <2>1, PostedToIs
  <2>4. SumFunctionOnSet(amounts, InFlow(t, from, to)) = Side(t) * PostedTo(t, plain)
    <3>1. SumFunctionOnSet(amounts, InFlow(t, from, to)) = Sum(amounts, InFlow(t, from, to))
      BY SumOnSetIs
    <3> QED
      BY <1>4, <1>6, <3>1, FlowAddsUp
  <2>5. /\ Line(t, Pnl(from, to))
             = Side(t) * (PostedTo(t, inForce) + PostedTo(t, Surplus(from, to)))
        /\ PostedTo(t, Surplus(from, to)) \in Int
    BY <1>3, LineIs
  <2> QED
    BY <2>1, <2>2, <2>3, <2>4, <2>5
<1> QED
  BY <1>1, <1>5, <1>8 DEF ListOK, amounts, inForce, plain, apart
-----------------------------------------------------------------------------
(* The rows of a ledger page *)

\* The entries a page lists.
OfAccount(a, from, to) ==
  {i \in DOMAIN journal : a \in Touched(journal[i]) /\ Within(journal[i], from, to)}

\* The second query lists exactly those, each once.
LEMMA RowsListed ==
  ASSUME BookInv, NEW a \in Accounts, NEW from, NEW to
  PROVE  /\ RowsOf(a, from, to) \in Seq(DOMAIN journal)
         /\ Len(RowsOf(a, from, to)) = Cardinality(OfAccount(a, from, to))
         /\ {RowsOf(a, from, to)[m] : m \in 1 .. Len(RowsOf(a, from, to))}
              = OfAccount(a, from, to)
<1> DEFINE S == OfAccount(a, from, to)
           n == Cardinality(S)
           upTo(i) == {j \in S : j = i \/ LedgerOrder(j, i)}
           rank == [i \in S |-> Cardinality(upTo(i))]
           rows == RowsOf(a, from, to)
<1>1. S \in SUBSET (DOMAIN journal) /\ IsFiniteSet(S) /\ n \in Nat
  <2>1. S \in SUBSET (DOMAIN journal)
    BY DEF OfAccount
  <2>2. IsFiniteSet(S)
    BY <2>1, JournalIs, FS_Subset
  <2> QED
    BY <2>1, <2>2, FS_CardinalityType
<1>2. rows = [k \in 1 .. n |-> CHOOSE i \in S : Cardinality(upTo(i)) = k]
  BY DEF RowsOf, OfAccount
<1>3. \A i \in S : i \in Nat /\ journal[i].date \in Nat
  BY <1>1, JournalIs
<1>4. \A i \in S : upTo(i) \in SUBSET S /\ i \in upTo(i) /\ IsFiniteSet(upTo(i))
                   /\ Cardinality(upTo(i)) \in Nat
  <2>1. \A i \in S : upTo(i) \in SUBSET S /\ i \in upTo(i)
    OBVIOUS
  <2> HIDE DEF upTo, S
  <2> QED
    BY <1>1, <2>1, FS_Subset, FS_CardinalityType
<1>5. ASSUME NEW i \in S, NEW j \in S, LedgerOrder(i, j)
      PROVE  Cardinality(upTo(i)) < Cardinality(upTo(j))
  <2>1. upTo(i) \in SUBSET upTo(j) /\ j \notin upTo(i)
    BY <1>3, <1>5 DEF LedgerOrder
  <2>2. upTo(i) # upTo(j)
    BY <1>4, <2>1
  <2> HIDE DEF upTo, S
  <2>3. Cardinality(upTo(i)) <= Cardinality(upTo(j))
        /\ Cardinality(upTo(j)) # Cardinality(upTo(i))
    BY <1>4, <2>1, <2>2, FS_Subset
  <2> QED
    BY <1>4, <2>3
<1>6. \A i, j \in S : i = j \/ LedgerOrder(i, j) \/ LedgerOrder(j, i)
  BY <1>3 DEF LedgerOrder
<1> HIDE DEF upTo, S, n
<1>7. \A i, j \in S : Cardinality(upTo(i)) = Cardinality(upTo(j)) => i = j
  BY <1>4, <1>5, <1>6
<1>8. \A i \in S : Cardinality(upTo(i)) \in 1 .. n
  <2> TAKE i \in S
  <2>1. Cardinality(upTo(i)) <= n
    BY <1>1, <1>4, FS_Subset DEF n
  <2>2. Cardinality(upTo(i)) # 0
    BY <1>4, FS_EmptySet
  <2> QED
    BY <1>1, <1>4, <2>1, <2>2
<1>9. rank \in Injection(S, 1 .. n)
  <2>1. rank \in [S -> 1 .. n]
    BY <1>8
  <2>2. \A i, j \in S : rank[i] = rank[j] => i = j
    BY <1>7
  <2> HIDE DEF rank
  <2> QED
    BY <2>1, <2>2 DEF Injection, IsInjective
<1>10. \A k \in 1 .. n : \E i \in S : Cardinality(upTo(i)) = k
  <2>1. IsFiniteSet(1 .. n) /\ Cardinality(1 .. n) = n
    BY <1>1, FS_Interval
  <2>2. rank \in Surjection(S, 1 .. n)
    <3>1. Cardinality(S) = Cardinality(1 .. n) <=> rank \in Surjection(S, 1 .. n)
      BY <1>9, <2>1, FS_Injection
    <3> QED
      BY <2>1, <3>1 DEF n
  <2>3. \A k \in 1 .. n : \E i \in S : rank[i] = k
    BY <2>2 DEF Surjection
  <2> QED
    BY <2>3
<1>11. \A k \in 1 .. n : rows[k] \in S /\ Cardinality(upTo(rows[k])) = k
  BY <1>2, <1>10
<1>12. \A i \in S : \E k \in 1 .. n : rows[k] = i
  BY <1>7, <1>8, <1>11
<1>13. rows \in Seq(DOMAIN journal) /\ Len(rows) = n
  <2>1. DOMAIN rows = 1 .. n
    BY <1>2
  <2>2. rows \in [1 .. n -> DOMAIN journal]
    <3>1. \A k \in 1 .. n : rows[k] \in DOMAIN journal
      BY <1>1, <1>11
    <3> QED
      BY <1>2, <3>1
  <2> HIDE DEF rows
  <2> QED
    BY <1>1, <2>1, <2>2
<1> HIDE DEF rows
<1>14. {rows[m] : m \in 1 .. n} = S
  BY <1>11, <1>12
<1> QED
  BY <1>13, <1>14 DEF rows, S, n

\* What is posted to an account is posted to it in the entries that touch it.
LEMMA TouchedSum ==
  ASSUME BookInv, NEW a \in Accounts, NEW from, NEW to
  PROVE  Posted(a, OfAccount(a, from, to)) = Posted(a, Rows(from, to))
<1> DEFINE W == Rows(from, to)
           A == OfAccount(a, from, to)
           Z == W \ A
<1>1. /\ W \in SUBSET (DOMAIN journal) /\ A \in SUBSET W /\ Z \in SUBSET W
      /\ A \in SUBSET (DOMAIN journal) /\ Z \in SUBSET (DOMAIN journal)
      /\ \A i \in W : i \in A <=> i \notin Z
  BY DEF Rows, OfAccount
<1>2. \A i \in Z : Column(a)[i] = 0
  <2> TAKE i \in Z
  <2>1. i \in DOMAIN journal /\ a \notin DOMAIN journal[i].postings
    BY DEF Rows, OfAccount, Touched
  <2>2. journal[i].postings \in Postings
    BY <2>1, EntryIs
  <2> QED
    BY <2>1, <2>2, AmountsAre DEF Column
<1>3. IsFiniteSet(Z)
  BY <1>1, JournalIs, FS_Subset
<1> HIDE DEF W, A, Z
<1>4. Posted(a, W) = Posted(a, A) + Posted(a, Z)
  BY <1>1, PostedParts
<1>5. Sum(Column(a), Z) = 0
  BY <1>2, <1>3, SumZero
<1>6. Posted(a, Z) = 0 /\ Posted(a, A) \in Int
  BY <1>1, <1>5, PostedIs
<1> QED
  BY <1>4, <1>6 DEF W, A

\* A page that lists anything ends on the account's balance at the last date of its
\* window, or an entry dated before the window came between its queries.
LEMMA PageEnds ==
  ASSUME BookInv, NEW a \in Accounts, NEW from \in Ends, NEW to \in Ends,
         RowsOf(a, from, to) # << >>, NEW opened \in 0 .. Len(journal), NEW opening,
         from = Null => opening = 0,
         from # Null => opening = BeforeIn(journal, a, opened, from)
  PROVE  \/ Running(a, RowsOf(a, from, to), opening)[Len(RowsOf(a, from, to))]
              = BalanceIn(journal, a, Len(journal), to)
         \/ from # Null /\ \E i \in opened + 1 .. Len(journal) : Before(journal[i], from)
<1> DEFINE rows == RowsOf(a, from, to)
           W == Rows(Null, to)
           A == Rows(from, to)
<1>1. /\ rows \in Seq(DOMAIN journal)
      /\ {rows[m] : m \in 1 .. Len(rows)} = OfAccount(a, from, to)
  BY RowsListed
<1>2. Len(rows) \in DOMAIN rows /\ rows[1] \in OfAccount(a, from, to)
  <2>1. rows # << >>
    OBVIOUS
  <2> HIDE DEF rows
  <2>2. Len(rows) \in Nat /\ Len(rows) # 0 /\ DOMAIN rows = 1 .. Len(rows)
    BY <1>1, <2>1
  <2>3. 1 \in 1 .. Len(rows) /\ Len(rows) \in 1 .. Len(rows)
    BY <2>2
  <2> QED
    BY <1>1, <2>2, <2>3
<1>3. Running(a, rows, opening)[Len(rows)] = opening + Posted(a, A)
  <2>1. Running(a, rows, opening)[Len(rows)]
          = opening + Posted(a, {rows[m] : m \in 1 .. Len(rows)})
    BY <1>2 DEF Running
  <2> HIDE DEF rows
  <2> QED
    BY <1>1, <2>1, TouchedSum
<1>4. /\ W \in SUBSET (DOMAIN journal) /\ A \in SUBSET (DOMAIN journal)
      /\ DOMAIN journal = 1 .. Len(journal) /\ Len(journal) \in Nat
  BY JournalIs DEF Rows
<1>5. BalanceIn(journal, a, Len(journal), to) = Posted(a, W) /\ Posted(a, W) \in Int
      /\ Posted(a, A) \in Int
  BY <1>4, PostedIs DEF BalanceIn, ColumnOf, Column, Rows
<1>6. CASE from = Null
  <2>1. A = W /\ opening = 0
    BY <1>6
  <2> HIDE DEF W, A, rows
  <2> QED
    BY <1>3, <1>5, <2>1 DEF rows
<1>7. CASE from # Null /\ ~\E i \in opened + 1 .. Len(journal) : Before(journal[i], from)
  <2> DEFINE B == {i \in DOMAIN journal : Before(journal[i], from)}
  <2>1. {i \in 1 .. opened : Before(journal[i], from)} = B
    <3>1. \A i \in 1 .. Len(journal) : i \in 1 .. opened \/ i \in opened + 1 .. Len(journal)
      BY <1>4
    <3>2. \A i \in 1 .. opened : i \in 1 .. Len(journal)
      BY <1>4
    <3> QED
      BY <1>4, <1>7, <3>1, <3>2
  <2>2. B \in SUBSET (DOMAIN journal)
    OBVIOUS
  <2>3. opening = Posted(a, B)
    <3>1. opening = Sum(Column(a), B)
      BY <1>7, <2>1 DEF BeforeIn, ColumnOf, Column
    <3> HIDE DEF B
    <3> QED
      BY <2>2, <3>1, PostedIs
  <2>4. from \in Nat /\ (to = Null \/ to \in Nat) /\ \A i \in DOMAIN journal : journal[i].date \in Nat
    BY <1>7, JournalIs DEF Ends, Dates
  <2>5. to = Null \/ from <= to
    <3>1. PICK i \in DOMAIN journal : Within(journal[i], from, to)
      BY <1>2 DEF OfAccount
    <3> QED
      BY <1>7, <2>4, <3>1 DEF Within
  <2>6. B \in SUBSET W /\ A \in SUBSET W /\ \A i \in W : i \in B <=> i \notin A
    <3>1. \A i \in DOMAIN journal :
            /\ i \in B <=> journal[i].date < from
            /\ i \in A <=> journal[i].date >= from /\ (to = Null \/ journal[i].date <= to)
            /\ i \in W <=> to = Null \/ journal[i].date <= to
      BY <1>7 DEF Rows, Within, Before
    <3>2. \A i \in DOMAIN journal : (i \in B => i \in W) /\ (i \in A => i \in W)
                                    /\ (i \in W => (i \in B <=> i \notin A))
      <4> HIDE DEF W, A, B
      <4> QED
        BY <2>4, <2>5, <3>1
    <3> QED
      BY <1>4, <2>2, <3>2
  <2> HIDE DEF W, A, B
  <2>7. Posted(a, W) = Posted(a, B) + Posted(a, A)
    BY <1>4, <2>6, PostedParts
  <2> QED
    BY <1>3, <1>5, <2>3, <2>7
<1> HIDE DEF rows, W, A
<1> QED
  BY <1>6, <1>7 DEF rows
-----------------------------------------------------------------------------
(* Ledgers, for any report and journal *)

PageType == [account : Accounts, entries : Seq(Nat), running : Seq(Int),
             opened : Nat, read : Nat]
LedgerReports == [kind : {"ledger"}, asked : SUBSET Accounts, todo : Seq(Accounts),
                  from : Ends, to : Ends, begun : Nat, opening : Int \cup {Null},
                  opened : Nat, pages : Seq(PageType)]

\* What is left to do is the end of what was asked for, in the chart's order.
Todo(rep) == {rep.todo[x] : x \in DOMAIN rep.todo}
TodoOK(rep) ==
  /\ Todo(rep) \subseteq rep.asked
  /\ \A x, y \in DOMAIN rep.todo, m, n \in DOMAIN Chart :
       Chart[m] = rep.todo[x] /\ Chart[n] = rep.todo[y] /\ x < y => m < n
  /\ \A m, n \in DOMAIN Chart :
       Chart[n] \in Todo(rep) /\ Chart[m] \in rep.asked /\ n <= m => Chart[m] \in Todo(rep)

\* An opening balance that was read is that of the next page's account.
OpeningOK(rep, j) ==
  /\ rep.opening = Null => rep.opened = 0
  /\ rep.opening # Null =>
       /\ rep.from # Null /\ rep.todo # << >> /\ rep.opened <= Len(j)
       /\ rep.opening = BeforeIn(j, Head(rep.todo), rep.opened, rep.from)

\* A page is of an account that is done, lists entries, and ends on the balance.
PageOK(rep, j, page) ==
  /\ page.account \in rep.asked /\ page.account \notin Todo(rep)
  /\ page.read <= Len(j)
  /\ \A x \in DOMAIN page.entries : page.entries[x] \in DOMAIN j
  /\ \/ page.running[Len(page.running)] = BalanceIn(j, page.account, page.read, rep.to)
     \/ rep.from # Null /\ \E i \in page.opened + 1 .. page.read : Before(j[i], rep.from)

\* The pages that are done show what they should.
ShowsIn(rep, i, a) ==
  \E k \in DOMAIN rep.pages : /\ rep.pages[k].account = a
                              /\ \E x \in DOMAIN rep.pages[k].entries : rep.pages[k].entries[x] = i
WholeOK(rep, j) == \A n \in DOMAIN Chart, i \in DOMAIN j :
  Chart[n] \in rep.asked /\ Chart[n] \notin Todo(rep) /\ Within(j[i], rep.from, rep.to)
    /\ Chart[n] \in DOMAIN j[i].postings
  => \/ ShowsIn(rep, i, Chart[n])
     \/ i > rep.begun /\ \A m \in 1 .. n - 1 : ~ShowsIn(rep, i, Chart[m])

LedgerOK(rep, j) == rep.kind = "ledger" =>
  /\ rep \in LedgerReports /\ rep.begun <= Len(j)
  /\ TodoOK(rep) /\ OpeningOK(rep, j) /\ WholeOK(rep, j)
  /\ \A k \in DOMAIN rep.pages : PageOK(rep, j, rep.pages[k])

\* The chart is a list of all accounts, each once.
LEMMA ChartIs ==
  /\ Chart \in Seq(Accounts) /\ DOMAIN Chart = 1 .. Len(Chart) /\ Len(Chart) \in Nat
  /\ \A a \in Accounts : \E n \in DOMAIN Chart : Chart[n] = a
  /\ \A m, n \in DOMAIN Chart : Chart[m] = Chart[n] => m = n
  /\ \A n \in DOMAIN Chart : Chart[n] \in Accounts
BY ExportsAssumption DEF Range

\* A ledger that is as it should be is one moment's, ...
LEMMA LedgerIsOfOneMoment ==
  ASSUME BookInv, LedgerOK(report, journal)
  PROVE  LedgerOfOneMoment
<1> SUFFICES ASSUME report.kind = "ledger", NEW k \in DOMAIN report.pages
             PROVE  LET page == report.pages[k] IN
                    \/ page.running[Len(page.running)]
                         = BalanceOn(page.account, page.read, report.to)
                    \/ report.from # Null
                       /\ \E e \in Late(page.opened, page.read) : Before(e, report.from)
  BY DEF LedgerOfOneMoment
<1> DEFINE page == report.pages[k]
<1>1. PageOK(report, journal, page) /\ report \in LedgerReports
  BY DEF LedgerOK
<1>2. page \in PageType
  BY <1>1 DEF LedgerReports
<1> HIDE DEF page
<1>3. page.account \in Accounts /\ page.read \in 0 .. Len(journal)
  BY <1>1, <1>2, JournalIs DEF PageType, PageOK
<1>4. BalanceOn(page.account, page.read, report.to)
        = BalanceIn(journal, page.account, page.read, report.to)
  <2> DEFINE W == {i \in 1 .. page.read : Within(journal[i], Null, report.to)}
  <2>1. W \in SUBSET (DOMAIN journal)
    BY <1>3, JournalIs
  <2>2. BalanceOn(page.account, page.read, report.to) = Posted(page.account, W)
    BY DEF BalanceOn
  <2>3. BalanceIn(journal, page.account, page.read, report.to) = Sum(Column(page.account), W)
    BY DEF BalanceIn, ColumnOf, Column
  <2> HIDE DEF W
  <2> QED
    BY <1>3, <2>1, <2>2, <2>3, PostedIs
<1>5. \/ page.running[Len(page.running)] = BalanceOn(page.account, page.read, report.to)
      \/ report.from # Null
         /\ \E e \in Late(page.opened, page.read) : Before(e, report.from)
  BY <1>1, <1>4 DEF PageOK, Late
<1> QED
  BY <1>5 DEF page

\* ... and whole when it is finished.
LEMMA LedgerIsAllThere ==
  ASSUME BookInv, LedgerOK(report, journal)
  PROVE  LedgerIsWhole
<1> SUFFICES ASSUME report.kind = "ledger", Finished, NEW i \in DOMAIN journal,
                    Within(journal[i], report.from, report.to),
                    NEW n \in DOMAIN Chart, Chart[n] \in Touched(journal[i]) \cap report.asked
             PROVE  \/ Shows(i, Chart[n])
                    \/ i > report.begun /\ ~\E m \in 1 .. n - 1 : Shows(i, Chart[m])
  BY DEF LedgerIsWhole
<1>1. WholeOK(report, journal) /\ report.todo = << >>
  BY DEF LedgerOK, Finished
<1>2. Todo(report) = {}
  BY <1>1 DEF Todo
<1>3. \A a : ShowsIn(report, i, a) <=> Shows(i, a)
  BY DEF ShowsIn, Shows, Range
<1>4. Chart[n] \in DOMAIN journal[i].postings
  BY DEF Touched
<1> QED
  BY <1>1, <1>2, <1>3, <1>4 DEF WholeOK

\* Commits leave a ledger as it should be.
LEMMA LedgerKept ==
  ASSUME NEW j \in Seq(Entries), NEW k \in Seq(Entries), Grows(j, k),
         NEW rep, LedgerOK(rep, j)
  PROVE  LedgerOK(rep, k)
<1> SUFFICES ASSUME rep.kind = "ledger"
             PROVE  LedgerOK(rep, k)
  BY DEF LedgerOK
<1>1. /\ rep \in LedgerReports /\ rep.begun <= Len(j)
      /\ TodoOK(rep) /\ OpeningOK(rep, j) /\ WholeOK(rep, j)
      /\ \A p \in DOMAIN rep.pages : PageOK(rep, j, rep.pages[p])
  BY DEF LedgerOK
<1>2. /\ DOMAIN j = 1 .. Len(j) /\ DOMAIN k = 1 .. Len(k) /\ DOMAIN j \subseteq DOMAIN k
      /\ Len(j) \in Nat /\ Len(k) \in Nat /\ Len(j) <= Len(k)
      /\ \A i \in DOMAIN j : k[i].date = j[i].date /\ k[i].postings = j[i].postings
  BY GrowsIs
<1>3. /\ rep.begun \in Nat /\ rep.opened \in Nat /\ rep.todo \in Seq(Accounts)
      /\ rep.pages \in Seq(PageType)
  BY <1>1 DEF LedgerReports
<1>4. rep.begun <= Len(k)
  BY <1>1, <1>2, <1>3
<1>5. OpeningOK(rep, k)
  <2>1. CASE rep.opening = Null
    BY <1>1, <2>1 DEF OpeningOK
  <2>2. CASE rep.opening # Null
    <3>1. /\ rep.from # Null /\ rep.todo # << >> /\ rep.opened <= Len(j)
          /\ rep.opening = BeforeIn(j, Head(rep.todo), rep.opened, rep.from)
      BY <1>1, <2>2 DEF OpeningOK
    <3>2. Head(rep.todo) \in Accounts /\ rep.opened \in 0 .. Len(j)
      BY <1>2, <1>3, <3>1
    <3>3. BeforeIn(k, Head(rep.todo), rep.opened, rep.from)
            = BeforeIn(j, Head(rep.todo), rep.opened, rep.from)
      BY <3>2, SumsKept
    <3>4. rep.opened <= Len(k)
      BY <1>2, <1>3, <3>1
    <3> QED
      BY <2>2, <3>1, <3>3, <3>4 DEF OpeningOK
  <2> QED
    BY <2>1, <2>2
<1>6. ASSUME NEW p \in DOMAIN rep.pages
      PROVE  PageOK(rep, k, rep.pages[p])
  <2> DEFINE page == rep.pages[p]
  <2>1. PageOK(rep, j, page)
    BY <1>1
  <2>0. page \in PageType
    BY <1>3
  <2> HIDE DEF page
  <2>2. page.account \in Accounts /\ page.read \in Nat /\ page.opened \in Nat
    BY <2>0 DEF PageType
  <2>3. page.read \in 0 .. Len(j) /\ page.read <= Len(k)
    BY <1>2, <2>1, <2>2 DEF PageOK
  <2>4. BalanceIn(k, page.account, page.read, rep.to)
          = BalanceIn(j, page.account, page.read, rep.to)
    BY <2>2, <2>3, SumsKept
  <2>5. \A i \in page.opened + 1 .. page.read : Before(j[i], rep.from) => Before(k[i], rep.from)
    <3>1. \A i \in page.opened + 1 .. page.read : i \in DOMAIN j
      BY <1>2, <2>2, <2>3
    <3> QED
      BY <1>2, <3>1 DEF Before
  <2>6. \A x \in DOMAIN page.entries : page.entries[x] \in DOMAIN k
    BY <1>2, <2>1 DEF PageOK
  <2> QED
    BY <2>1, <2>3, <2>4, <2>5, <2>6 DEF PageOK, page
<1>7. WholeOK(rep, k)
  <2> SUFFICES ASSUME NEW n \in DOMAIN Chart, NEW i \in DOMAIN k,
                      Chart[n] \in rep.asked, Chart[n] \notin Todo(rep),
                      Within(k[i], rep.from, rep.to), Chart[n] \in DOMAIN k[i].postings
               PROVE  \/ ShowsIn(rep, i, Chart[n])
                      \/ i > rep.begun /\ \A m \in 1 .. n - 1 : ~ShowsIn(rep, i, Chart[m])
    BY DEF WholeOK
  <2>1. CASE i \in DOMAIN j
    <3>1. Within(j[i], rep.from, rep.to) /\ Chart[n] \in DOMAIN j[i].postings
      BY <1>2, <2>1 DEF Within
    <3> QED
      BY <1>1, <2>1, <3>1 DEF WholeOK
  <2>2. CASE i \notin DOMAIN j
    <3>1. i > rep.begun
      BY <1>1, <1>2, <1>3, <2>2
    <3>2. \A a : ~ShowsIn(rep, i, a)
      BY <1>1, <2>2 DEF ShowsIn, PageOK
    <3> QED
      BY <3>1, <3>2
  <2> QED
    BY <2>1, <2>2
<1> QED
  BY <1>1, <1>4, <1>5, <1>6, <1>7 DEF LedgerOK

\* A ledger asked for is as it should be: nothing is done yet.
LEMMA LedgerAsked ==
  ASSUME BookInv, NEW from \in Ends, NEW to \in Ends,
         NEW asked \in SUBSET Accounts, NEW listed \in Seq(Accounts),
         asked = {listed[x] : x \in DOMAIN listed},
         TodoOK(Ledger(asked, listed, from, to))
  PROVE  LedgerOK(Ledger(asked, listed, from, to), journal)
<1> DEFINE rep == Ledger(asked, listed, from, to)
<1>1. /\ rep.kind = "ledger" /\ rep.asked = asked /\ rep.todo = listed
      /\ rep.begun = Len(journal) /\ rep.opening = Null /\ rep.opened = 0 /\ rep.pages = << >>
  BY DEF Ledger
<1>2. rep \in LedgerReports
  BY JournalIs DEF Ledger, LedgerReports
<1> HIDE DEF rep
<1>3. rep.begun <= Len(journal)
  BY <1>1, JournalIs
<1>4. OpeningOK(rep, journal)
  BY <1>1 DEF OpeningOK
<1>5. Todo(rep) = asked
  BY <1>1 DEF Todo
<1>6. WholeOK(rep, journal)
  BY <1>1, <1>5 DEF WholeOK
<1>7. \A k \in DOMAIN rep.pages : PageOK(rep, journal, rep.pages[k])
  BY <1>1
<1> QED
  BY <1>2, <1>3, <1>4, <1>6, <1>7 DEF LedgerOK, rep

\* So it is with the ledger of one account ...
LEMMA AskTaken ==
  ASSUME BookInv, NEW a \in Accounts, NEW from \in Ends, NEW to \in Ends,
         AskLedger(a, from, to)
  PROVE  LedgerOK(report', journal) /\ report'.kind = "ledger"
<1> DEFINE rep == Ledger({a}, <<a>>, from, to)
<1>1. report' = rep
  BY DEF AskLedger
<1>2. rep.todo = <<a>> /\ rep.asked = {a} /\ rep.kind = "ledger"
  BY DEF Ledger
<1>3. <<a>> \in Seq(Accounts) /\ DOMAIN <<a>> = {1} /\ <<a>>[1] = a
  OBVIOUS
<1>4. {a} = {<<a>>[x] : x \in DOMAIN <<a>>}
  BY <1>3
<1> HIDE DEF rep
<1>5. Todo(rep) = {a}
  BY <1>2, <1>4 DEF Todo
<1>6. \A x, y \in DOMAIN rep.todo : ~(x < y)
  BY <1>2, <1>3
<1>7. TodoOK(rep)
  BY <1>2, <1>5, <1>6 DEF TodoOK
<1>8. {a} \in SUBSET Accounts
  OBVIOUS
<1>9. LedgerOK(rep, journal)
  BY <1>3, <1>4, <1>7, <1>8, LedgerAsked DEF rep
<1> QED
  BY <1>1, <1>2, <1>9

\* ... and with that of all of them, in the chart's order.
LEMMA GeneralTaken ==
  ASSUME BookInv, NEW from \in Ends, NEW to \in Ends, AskGeneralLedger(from, to)
  PROVE  LedgerOK(report', journal) /\ report'.kind = "ledger"
<1> DEFINE rep == Ledger(Accounts, Chart, from, to)
<1>1. report' = rep
  BY DEF AskGeneralLedger, Listed
<1>2. rep.todo = Chart /\ rep.asked = Accounts /\ rep.kind = "ledger"
  BY DEF Ledger
<1>3. Accounts = {Chart[x] : x \in DOMAIN Chart}
  BY ExportsAssumption DEF Range
<1> HIDE DEF rep
<1>4. Todo(rep) = Accounts
  BY <1>2, <1>3 DEF Todo
<1>5. TodoOK(rep)
  BY <1>2, <1>4, ChartIs DEF TodoOK
<1>6. Accounts \in SUBSET Accounts
  OBVIOUS
<1>7. LedgerOK(rep, journal)
  BY <1>3, <1>5, <1>6, ChartIs, LedgerAsked DEF rep
<1> QED
  BY <1>1, <1>2, <1>7

\* The first query of a page reads what lies before the window.
LEMMA OpeningTaken ==
  ASSUME BookInv, LedgerOK(report, journal), PageOpening
  PROVE  LedgerOK(report', journal) /\ report'.kind = "ledger"
<1> DEFINE a == Head(report.todo)
           B == {i \in DOMAIN journal : Before(journal[i], report.from)}
<1>1. /\ report.kind = "ledger" /\ report.todo # << >> /\ report.from # Null
      /\ report' = [report EXCEPT !.opening = Posted(a, B), !.opened = Len(journal)]
  BY DEF PageOpening, Finished
<1>2. /\ report \in LedgerReports /\ report.begun <= Len(journal)
      /\ TodoOK(report) /\ WholeOK(report, journal)
      /\ \A k \in DOMAIN report.pages : PageOK(report, journal, report.pages[k])
  BY <1>1 DEF LedgerOK
<1>3. report.todo \in Seq(Accounts)
  BY <1>2 DEF LedgerReports
<1>4. a \in Accounts
  BY <1>1, <1>3
<1>5. Posted(a, B) \in Int /\ Posted(a, B) = BeforeIn(journal, a, Len(journal), report.from)
  <2>1. B \in SUBSET (DOMAIN journal)
    OBVIOUS
  <2>2. BeforeIn(journal, a, Len(journal), report.from) = Sum(Column(a), B)
    BY JournalIs DEF BeforeIn, ColumnOf, Column
  <2> HIDE DEF B, a
  <2> QED
    BY <1>4, <2>1, <2>2, PostedIs
<1>6. Len(journal) \in Nat
  BY JournalIs
<1> HIDE DEF a, B
<1>7. /\ report'.kind = "ledger" /\ report'.asked = report.asked /\ report'.todo = report.todo
      /\ report'.from = report.from /\ report'.to = report.to /\ report'.begun = report.begun
      /\ report'.pages = report.pages /\ report'.opening = Posted(a, B)
      /\ report'.opened = Len(journal) /\ report' \in LedgerReports
  BY <1>1, <1>2, <1>5, <1>6 DEF LedgerReports
<1>8. OpeningOK(report', journal)
  BY <1>1, <1>5, <1>6, <1>7, ReportsAssumption DEF OpeningOK, a
<1>9. Todo(report') = Todo(report)
  BY <1>7 DEF Todo
<1>10. TodoOK(report')
  BY <1>2, <1>7, <1>9 DEF TodoOK
<1>11. WholeOK(report', journal)
  BY <1>2, <1>7, <1>9 DEF WholeOK, ShowsIn
<1>12. \A k \in DOMAIN report'.pages : PageOK(report', journal, report'.pages[k])
  BY <1>2, <1>7, <1>9 DEF PageOK
<1> QED
  BY <1>2, <1>7, <1>8, <1>10, <1>11, <1>12 DEF LedgerOK

\* The first of what is to be done and what is left after it.
LEMMA TodoNext ==
  ASSUME NEW rep \in LedgerReports, TodoOK(rep), rep.todo # << >>,
         NEW new, new.todo = Tail(rep.todo), new.asked = rep.asked
  PROVE  /\ Head(rep.todo) \in Accounts /\ Head(rep.todo) \in Todo(rep)
         /\ Head(rep.todo) \in rep.asked
         /\ Todo(new) \subseteq Todo(rep) /\ Head(rep.todo) \notin Todo(new)
         /\ \A b \in Todo(rep) : b = Head(rep.todo) \/ b \in Todo(new)
         /\ TodoOK(new)
<1> DEFINE t == rep.todo
           a == Head(t)
<1>1. t \in Seq(Accounts) /\ t # << >>
  BY DEF LedgerReports
<1> HIDE DEF t
<1>2. /\ DOMAIN t = 1 .. Len(t) /\ Len(t) \in Nat /\ 1 \in DOMAIN t /\ a = t[1]
      /\ DOMAIN Tail(t) = 1 .. Len(t) - 1
      /\ \A x \in DOMAIN Tail(t) : x + 1 \in DOMAIN t /\ Tail(t)[x] = t[x + 1]
      /\ \A x \in DOMAIN t : t[x] \in Accounts
  BY <1>1
<1>3. /\ Todo(rep) = {t[x] : x \in DOMAIN t}
      /\ Todo(new) = {Tail(t)[x] : x \in DOMAIN Tail(t)}
      /\ new.todo = Tail(t)
  BY DEF Todo, t
<1>4. /\ Todo(rep) \subseteq rep.asked
      /\ \A x, y \in DOMAIN t, m, n \in DOMAIN Chart :
           Chart[m] = t[x] /\ Chart[n] = t[y] /\ x < y => m < n
      /\ \A m, n \in DOMAIN Chart :
           Chart[n] \in Todo(rep) /\ Chart[m] \in rep.asked /\ n <= m => Chart[m] \in Todo(rep)
  BY DEF TodoOK, t
<1> HIDE DEF a
<1>5. a \in Accounts /\ a \in Todo(rep) /\ a \in rep.asked
  BY <1>2, <1>3, <1>4
<1>6. ASSUME NEW m \in DOMAIN Chart, NEW n \in DOMAIN Chart, NEW x \in DOMAIN Tail(t),
             Chart[m] = a, Chart[n] = Tail(t)[x]
      PROVE  m < n
  <2>1. 1 < x + 1 /\ x + 1 \in DOMAIN t /\ Chart[n] = t[x + 1] /\ Chart[m] = t[1]
    BY <1>2, <1>6
  <2> QED
    BY <1>2, <1>4, <2>1
<1>7. a \notin Todo(new)
  <2> SUFFICES ASSUME NEW x \in DOMAIN Tail(t), a = Tail(t)[x]
               PROVE  FALSE
    BY <1>3
  <2>1. PICK m \in DOMAIN Chart : Chart[m] = a
    BY <1>5, ChartIs
  <2>2. m < m /\ m \in Nat
    BY <1>6, <2>1, ChartIs
  <2> QED
    BY <2>2
<1>8. Todo(new) \subseteq Todo(rep)
  BY <1>2, <1>3
<1>9. \A b \in Todo(rep) : b = a \/ b \in Todo(new)
  <2> SUFFICES ASSUME NEW x \in DOMAIN t, x # 1
               PROVE  t[x] \in Todo(new)
    BY <1>2, <1>3
  <2>1. x - 1 \in DOMAIN Tail(t) /\ (x - 1) + 1 = x
    BY <1>2
  <2>2. Tail(t)[x - 1] = t[x]
    BY <1>2, <2>1
  <2> QED
    BY <1>3, <2>1, <2>2
<1>10. \A x, y \in DOMAIN Tail(t), m, n \in DOMAIN Chart :
         Chart[m] = Tail(t)[x] /\ Chart[n] = Tail(t)[y] /\ x < y => m < n
  <2> SUFFICES ASSUME NEW x \in DOMAIN Tail(t), NEW y \in DOMAIN Tail(t),
                      NEW m \in DOMAIN Chart, NEW n \in DOMAIN Chart,
                      Chart[m] = Tail(t)[x], Chart[n] = Tail(t)[y], x < y
               PROVE  m < n
    OBVIOUS
  <2>1. /\ x + 1 < y + 1 /\ x + 1 \in DOMAIN t /\ y + 1 \in DOMAIN t
        /\ Chart[m] = t[x + 1] /\ Chart[n] = t[y + 1]
    BY <1>2
  <2> QED
    BY <1>4, <2>1
<1>11. \A m, n \in DOMAIN Chart :
         Chart[n] \in Todo(new) /\ Chart[m] \in new.asked /\ n <= m => Chart[m] \in Todo(new)
  <2> SUFFICES ASSUME NEW m \in DOMAIN Chart, NEW n \in DOMAIN Chart, Chart[n] \in Todo(new),
                      Chart[m] \in rep.asked, n <= m, Chart[m] \notin Todo(new)
               PROVE  FALSE
    OBVIOUS
  <2>1. Chart[m] = a
    BY <1>4, <1>8, <1>9
  <2>2. PICK x \in DOMAIN Tail(t) : Chart[n] = Tail(t)[x]
    BY <1>3
  <2>3. m < n /\ m \in Nat /\ n \in Nat
    BY <1>6, <2>1, <2>2, ChartIs
  <2> QED
    BY <2>3
<1>12. Todo(new) \subseteq new.asked
  BY <1>4, <1>8
<1>13. TodoOK(new)
  BY <1>3, <1>10, <1>11, <1>12 DEF TodoOK
<1> QED
  BY <1>5, <1>7, <1>8, <1>9, <1>13 DEF a, t

\* The page of an account, if it has one.
LEMMA PageMade ==
  ASSUME BookInv, report \in LedgerReports, report.todo # << >>,
         OpeningOK(report, journal), report.from = Null \/ report.opening # Null,
         NEW a, a = Head(report.todo), a \in Accounts
  PROVE  \/ Page(a) = << >> /\ OfAccount(a, report.from, report.to) = {}
         \/ \E page \in PageType :
              /\ Page(a) = <<page>>
              /\ page.account = a /\ page.read = Len(journal)
              /\ page.entries \in Seq(DOMAIN journal)
              /\ {page.entries[x] : x \in DOMAIN page.entries}
                   = OfAccount(a, report.from, report.to)
              /\ \/ page.running[Len(page.running)] = BalanceIn(journal, a, page.read, report.to)
                 \/ report.from # Null
                    /\ \E i \in page.opened + 1 .. page.read : Before(journal[i], report.from)
<1> DEFINE from == report.from
           to == report.to
           opening == IF from = Null THEN 0 ELSE report.opening
           rows == RowsOf(a, from, to)
           running == Running(a, rows, opening)
           page == [account |-> a, entries |-> rows, running |-> running,
                    opened |-> report.opened, read |-> Len(journal)]
<1>1. /\ rows \in Seq(DOMAIN journal)
      /\ {rows[m] : m \in 1 .. Len(rows)} = OfAccount(a, from, to)
  BY RowsListed
<1>2. /\ from \in Ends /\ to \in Ends /\ report.opened \in Nat
      /\ report.opening \in Int \cup {Null}
  BY DEF LedgerReports
<1>3. opening \in Int
  BY <1>2
<1>4. /\ DOMAIN journal = 1 .. Len(journal) /\ Len(journal) \in Nat
      /\ report.opened \in 0 .. Len(journal)
  BY <1>2, JournalIs DEF OpeningOK
<1>5. /\ from = Null => opening = 0
      /\ from # Null => opening = BeforeIn(journal, a, report.opened, from)
  BY DEF OpeningOK
<1>6. Page(a) = IF rows = << >> THEN << >> ELSE <<page>>
  BY DEF Page
<1> HIDE DEF opening, rows
<1>7. DOMAIN rows = 1 .. Len(rows) /\ Len(rows) \in Nat
  BY <1>1
<1>8. CASE rows = << >>
  <2>1. OfAccount(a, from, to) = {}
    BY <1>1, <1>7, <1>8
  <2> HIDE DEF from, to
  <2> QED
    BY <1>6, <1>8, <2>1 DEF from, to
<1>9. CASE rows # << >>
  <2>1. running \in Seq(Int) /\ Len(running) = Len(rows)
    <3>1. \A k \in DOMAIN rows : Posted(a, {rows[m] : m \in 1 .. k}) \in Int
      <4> TAKE k \in DOMAIN rows
      <4>1. {rows[m] : m \in 1 .. k} \in SUBSET (DOMAIN journal)
        BY <1>1, <1>7
      <4> QED
        BY <4>1, PostedIs
    <3>2. DOMAIN running = 1 .. Len(rows)
      BY <1>7 DEF Running
    <3>3. \A k \in 1 .. Len(rows) : running[k] \in Int
      <4> TAKE k \in 1 .. Len(rows)
      <4> DEFINE posted == Posted(a, {rows[m] : m \in 1 .. k})
      <4>1. running[k] = opening + posted
        BY <1>7 DEF Running
      <4>2. posted \in Int
        BY <1>7, <3>1
      <4> HIDE DEF posted
      <4> QED
        BY <1>3, <4>1, <4>2
    <3>4. running = [k \in 1 .. Len(rows) |-> running[k]]
      BY <1>7 DEF Running
    <3> HIDE DEF running
    <3> QED
      BY <1>7, <3>2, <3>3, <3>4
  <2>2. rows \in Seq(Nat)
    BY <1>1, <1>4
  <2>3. \/ running[Len(rows)] = BalanceIn(journal, a, Len(journal), to)
        \/ from # Null /\ \E i \in report.opened + 1 .. Len(journal) : Before(journal[i], from)
    <3> HIDE DEF from, to
    <3> QED
      BY <1>2, <1>4, <1>5, <1>9, PageEnds DEF rows
  <2> HIDE DEF running
  <2>4. /\ page.account = a /\ page.read = Len(journal) /\ page.entries = rows
        /\ page.running = running /\ page.opened = report.opened
    OBVIOUS
  <2>5. page \in PageType
    BY <1>2, <1>4, <2>1, <2>2 DEF PageType
  <2>6. Page(a) = <<page>>
    BY <1>6, <1>9
  <2> HIDE DEF page
  <2>7. {page.entries[x] : x \in DOMAIN page.entries} = OfAccount(a, from, to)
    BY <1>1, <1>7, <2>4
  <2>8. \/ page.running[Len(page.running)] = BalanceIn(journal, a, page.read, to)
        \/ from # Null /\ \E i \in page.opened + 1 .. page.read : Before(journal[i], from)
    BY <2>1, <2>3, <2>4
  <2> HIDE DEF from, to
  <2>9. page.entries \in Seq(DOMAIN journal)
    BY <1>1, <2>4
  <2> QED
    BY <2>4, <2>5, <2>6, <2>7, <2>8, <2>9 DEF from, to
<1> QED
  BY <1>8, <1>9

\* The second query finishes an account: its page ends on the balance and lists all
\* that the book holds of it, and no page before its turn shows what it lists.
LEMMA PageTaken ==
  ASSUME BookInv, LedgerOK(report, journal), PageRows
  PROVE  LedgerOK(report', journal) /\ report'.kind = "ledger"
<1> DEFINE a == Head(report.todo)
           new == report'
           F == OfAccount(a, report.from, report.to)
<1>1. /\ report.kind = "ledger" /\ report.todo # << >>
      /\ report.from = Null \/ report.opening # Null
      /\ new = [report EXCEPT !.pages = report.pages \o Page(a),
                              !.todo = Tail(report.todo), !.opening = Null, !.opened = 0]
  BY DEF PageRows, Finished
<1>2. /\ report \in LedgerReports /\ report.begun <= Len(journal)
      /\ TodoOK(report) /\ OpeningOK(report, journal) /\ WholeOK(report, journal)
      /\ \A k \in DOMAIN report.pages : PageOK(report, journal, report.pages[k])
  BY <1>1 DEF LedgerOK
<1>3. /\ report.todo \in Seq(Accounts) /\ report.pages \in Seq(PageType)
      /\ Tail(report.todo) \in Seq(Accounts)
  BY <1>1, <1>2 DEF LedgerReports
<1>4. /\ new.kind = "ledger" /\ new.asked = report.asked /\ new.todo = Tail(report.todo)
      /\ new.from = report.from /\ new.to = report.to /\ new.begun = report.begun
      /\ new.pages = report.pages \o Page(a) /\ new.opening = Null /\ new.opened = 0
  BY <1>1, <1>2 DEF LedgerReports
<1>5. /\ a \in Accounts /\ a \in Todo(report) /\ a \in report.asked
      /\ Todo(new) \subseteq Todo(report) /\ a \notin Todo(new)
      /\ \A b \in Todo(report) : b = a \/ b \in Todo(new)
      /\ TodoOK(new)
  <2> HIDE DEF new, F
  <2>1. /\ report \in LedgerReports /\ TodoOK(report) /\ report.todo # << >>
        /\ new.todo = Tail(report.todo) /\ new.asked = report.asked
    BY <1>1, <1>2, <1>4
  <2> HIDE DEF a
  <2>2. /\ Head(report.todo) \in Accounts /\ Head(report.todo) \in Todo(report)
        /\ Head(report.todo) \in report.asked
        /\ Todo(new) \subseteq Todo(report) /\ Head(report.todo) \notin Todo(new)
        /\ \A b \in Todo(report) : b = Head(report.todo) \/ b \in Todo(new)
        /\ TodoOK(new)
    BY ONLY <2>1, TodoNext
  <2>3. a = Head(report.todo)
    BY DEF a
  <2> QED
    BY ONLY <2>2, <2>3
<1> HIDE DEF a
<1>6. \/ Page(a) = << >> /\ F = {}
      \/ \E page \in PageType :
           /\ Page(a) = <<page>>
           /\ page.account = a /\ page.read = Len(journal)
           /\ page.entries \in Seq(DOMAIN journal)
           /\ {page.entries[x] : x \in DOMAIN page.entries} = F
           /\ \/ page.running[Len(page.running)]
                   = BalanceIn(journal, a, page.read, report.to)
              \/ report.from # Null
                 /\ \E i \in page.opened + 1 .. page.read : Before(journal[i], report.from)
  BY <1>1, <1>2, <1>5, PageMade DEF a
<1> DEFINE Listed1(page) ==
             /\ page.account = a /\ page.read = Len(journal)
             /\ page.entries \in Seq(DOMAIN journal)
             /\ {page.entries[x] : x \in DOMAIN page.entries} = F
             /\ \/ page.running[Len(page.running)]
                     = BalanceIn(journal, a, page.read, report.to)
                \/ report.from # Null
                   /\ \E i \in page.opened + 1 .. page.read : Before(journal[i], report.from)
<1> HIDE DEF F, new
<1>7. /\ new.pages \in Seq(PageType)
      /\ \A k \in DOMAIN report.pages : k \in DOMAIN new.pages /\ new.pages[k] = report.pages[k]
      /\ \A k \in DOMAIN new.pages : k \in DOMAIN report.pages \/ Listed1(new.pages[k])
      /\ F # {} => \E k \in DOMAIN new.pages : Listed1(new.pages[k])
  <2> DEFINE s == report.pages
  <2>1. CASE Page(a) = << >> /\ F = {}
    <3>1. new.pages = s
      BY <1>3, <1>4, <2>1
    <3> QED
      BY <1>3, <2>1, <3>1
  <2>2. ASSUME NEW page \in PageType, Page(a) = <<page>>, Listed1(page)
        PROVE  /\ new.pages \in Seq(PageType)
               /\ \A k \in DOMAIN s : k \in DOMAIN new.pages /\ new.pages[k] = s[k]
               /\ \A k \in DOMAIN new.pages : k \in DOMAIN s \/ Listed1(new.pages[k])
               /\ \E k \in DOMAIN new.pages : Listed1(new.pages[k])
    <3> HIDE DEF Listed1
    <3>1. new.pages = s \o <<page>> /\ s \in Seq(PageType)
      BY <1>3, <1>4, <2>2
    <3> HIDE DEF s
    <3>2. /\ new.pages \in Seq(PageType) /\ DOMAIN new.pages = 1 .. Len(s) + 1
          /\ DOMAIN s = 1 .. Len(s) /\ Len(s) \in Nat
          /\ \A k \in DOMAIN s : new.pages[k] = s[k]
          /\ new.pages[Len(s) + 1] = page
      BY <3>1
    <3>3. /\ \A k \in DOMAIN s : k \in DOMAIN new.pages
          /\ \A k \in DOMAIN new.pages : k \in DOMAIN s \/ k = Len(s) + 1
          /\ Len(s) + 1 \in DOMAIN new.pages
      BY <3>2
    <3> QED
      BY <2>2, <3>2, <3>3
  <2>3. \/ Page(a) = << >> /\ F = {}
        \/ \E page \in PageType : Page(a) = <<page>> /\ Listed1(page)
    BY <1>6
  <2> HIDE DEF Listed1
  <2> QED
    BY <2>1, <2>2, <2>3
<1>8. new \in LedgerReports
  BY <1>1, <1>2, <1>3, <1>4, <1>7 DEF LedgerReports
<1>9. OpeningOK(new, journal)
  BY <1>4 DEF OpeningOK
<1>10. \A k \in DOMAIN new.pages : PageOK(new, journal, new.pages[k])
  <2> TAKE k \in DOMAIN new.pages
  <2>1. CASE k \in DOMAIN report.pages
    <3>1. PageOK(report, journal, report.pages[k]) /\ new.pages[k] = report.pages[k]
      BY <1>2, <1>7, <2>1
    <3> QED
      BY <1>4, <1>5, <3>1 DEF PageOK
  <2>2. CASE Listed1(new.pages[k])
    <3> DEFINE page == new.pages[k]
    <3>1. Listed1(page)
      BY <2>2
    <3> HIDE DEF page
    <3>2. page.read <= Len(journal)
      BY <3>1, JournalIs
    <3>3. \A x \in DOMAIN page.entries : page.entries[x] \in DOMAIN journal
      BY <3>1
    <3>4. PageOK(new, journal, page)
      BY <1>4, <1>5, <3>1, <3>2, <3>3 DEF PageOK
    <3> QED
      BY <3>4 DEF page
  <2> QED
    BY <1>7, <2>1, <2>2
<1>11. \A i, b : ShowsIn(new, i, b) <=> ShowsIn(report, i, b) \/ (b = a /\ i \in F)
  <2> SUFFICES ASSUME NEW i, NEW b
               PROVE  ShowsIn(new, i, b) <=> ShowsIn(report, i, b) \/ (b = a /\ i \in F)
    OBVIOUS
  <2>1. \A k \in DOMAIN new.pages : Listed1(new.pages[k]) =>
          /\ new.pages[k].account = a
          /\ (\E x \in DOMAIN new.pages[k].entries : new.pages[k].entries[x] = i) <=> i \in F
    OBVIOUS
  <2> HIDE DEF Listed1
  <2>2. ShowsIn(report, i, b) => ShowsIn(new, i, b)
    BY <1>7 DEF ShowsIn
  <2>3. b = a /\ i \in F => ShowsIn(new, i, b)
    BY <1>7, <2>1 DEF ShowsIn
  <2>4. ShowsIn(new, i, b) => ShowsIn(report, i, b) \/ (b = a /\ i \in F)
    BY <1>7, <2>1 DEF ShowsIn
  <2> QED
    BY <2>2, <2>3, <2>4
<1>12. WholeOK(new, journal)
  <2> SUFFICES ASSUME NEW n \in DOMAIN Chart, NEW i \in DOMAIN journal,
                      Chart[n] \in report.asked, Chart[n] \notin Todo(new),
                      Within(journal[i], report.from, report.to),
                      Chart[n] \in DOMAIN journal[i].postings
               PROVE  \/ ShowsIn(new, i, Chart[n])
                      \/ i > report.begun /\ \A m \in 1 .. n - 1 : ~ShowsIn(new, i, Chart[m])
    BY <1>4 DEF WholeOK
  <2>1. CASE Chart[n] = a
    <3>1. i \in F
      BY <1>5, <2>1 DEF F, OfAccount, Touched
    <3> QED
      BY <1>11, <2>1, <3>1
  <2>2. CASE Chart[n] # a
    <3>1. Chart[n] \notin Todo(report)
      BY <1>5, <2>2
    <3>2. \/ ShowsIn(report, i, Chart[n])
          \/ i > report.begun /\ \A m \in 1 .. n - 1 : ~ShowsIn(report, i, Chart[m])
      BY <1>2, <3>1 DEF WholeOK
    <3>3. \A m \in 1 .. n - 1 : Chart[m] # a
      <4> SUFFICES ASSUME NEW m \in 1 .. n - 1, Chart[m] = a
                   PROVE  FALSE
        OBVIOUS
      <4>1. m \in DOMAIN Chart /\ m <= n
        BY ChartIs
      <4>2. Chart[m] \in Todo(report)
        BY <1>5
      <4> QED
        BY <1>2, <3>1, <4>1, <4>2 DEF TodoOK
    <3> QED
      BY <1>11, <3>2, <3>3
  <2> QED
    BY <2>1, <2>2
<1>13. LedgerOK(new, journal)
  BY <1>2, <1>4, <1>5, <1>8, <1>9, <1>10, <1>12 DEF LedgerOK
<1> QED
  BY <1>4, <1>13 DEF new
-----------------------------------------------------------------------------
(* Every report *)

\* Whatever is being made or was made last is as it should be.
ReportInv == /\ TotalsOK(report, journal) /\ SheetOK(report, journal)
             /\ LedgerOK(report, journal)

\* A new report is as it should be.
LEMMA ReportTaken ==
  ASSUME BookInv, ReportInv, Next, UNCHANGED bookVars
  PROVE  ReportInv'
<1>0. journal' = journal
  BY DEF bookVars
<1>1. CASE UNCHANGED report
  BY <1>0, <1>1 DEF ReportInv
<1>2. CASE report' = NoReport
  BY <1>2 DEF ReportInv, TotalsOK, SheetOK, LedgerOK, NoReport
<1>3. CASE PageOpening
  BY <1>0, <1>3, OpeningTaken DEF ReportInv, TotalsOK, SheetOK
<1>4. CASE PageRows
  BY <1>0, <1>4, PageTaken DEF ReportInv, TotalsOK, SheetOK
<1>5. CASE BalanceSheetRows
  BY <1>0, <1>5, RowsTaken DEF ReportInv, TotalsOK, LedgerOK
<1>6. ASSUME NEW w \in Windows
      PROVE  /\ w[1] \in Ends /\ w[2] \in Ends
             /\ AskGeneralLedger(w[1], w[2]) \/ PnlCsv(w[1], w[2]) \/ JournalCsv(w[1], w[2])
                  \/ (\E a \in Accounts : AskLedger(a, w[1], w[2])) => ReportInv'
  <2> DEFINE from == w[1]
             to == w[2]
  <2>1. from \in Ends /\ to \in Ends
    BY ExportsAssumption
  <2> HIDE DEF from, to
  <2>2. ASSUME AskGeneralLedger(from, to)
        PROVE  ReportInv'
    BY <1>0, <2>1, <2>2, GeneralTaken DEF ReportInv, TotalsOK, SheetOK
  <2>3. ASSUME PnlCsv(from, to)
        PROVE  ReportInv'
    BY <1>0, <2>3, PnlTaken DEF ReportInv, TotalsOK, LedgerOK
  <2>4. ASSUME JournalCsv(from, to)
        PROVE  ReportInv'
    <3>1. report'.kind = "journal"
      BY <2>4 DEF JournalCsv, Render
    <3> QED
      BY <3>1 DEF ReportInv, TotalsOK, SheetOK, LedgerOK
  <2>5. ASSUME NEW a \in Accounts, AskLedger(a, from, to)
        PROVE  ReportInv'
    BY <1>0, <2>1, <2>5, AskTaken DEF ReportInv, TotalsOK, SheetOK
  <2> QED
    BY <2>1, <2>2, <2>3, <2>4, <2>5 DEF from, to
<1>7. ASSUME NEW asOf \in Ends, TrialBalanceCsv(asOf)
      PROVE  ReportInv'
  BY <1>0, <1>7, TrialBalanceTaken DEF ReportInv, TotalsOK, LedgerOK
<1>8. ASSUME NEW asOf \in Ends, BalanceSheetTotals(asOf)
      PROVE  ReportInv'
  BY <1>0, <1>8, TotalsTaken DEF ReportInv, SheetOK, LedgerOK
<1> QED
  BY <1>1, <1>2, <1>3, <1>4, <1>5, <1>6, <1>7, <1>8
     DEF Next, CommitBetween, CommitDuring, PutAway

\* A commit finds no report or one that is still being made, and leaves it right.
LEMMA ReportKept ==
  ASSUME BookInv, ReportInv, Next, Commit, UNCHANGED report
  PROVE  ReportInv' \/ UNCHANGED bookVars
<1>1. BookInv' /\ Grows(journal, journal')
  BY BookKept, CommitGrows
<1>2. journal \in Seq(Entries) /\ journal' \in Seq(Entries)
  BY <1>1 DEF BookInv
<1>3. TotalsOK(report', journal')
  BY <1>1, <1>2, TotalsKept DEF ReportInv
<1>4. LedgerOK(report', journal')
  BY <1>1, <1>2, LedgerKept DEF ReportInv
<1>5. report.kind # "sheet" \/ UNCHANGED bookVars
  <2>1. CASE CommitBetween \/ CommitDuring
    BY <2>1 DEF CommitBetween, CommitDuring, NoReport, Finished
  <2>2. CASE ~(CommitBetween \/ CommitDuring)
    BY <2>2 DEF Next, bookVars, PutAway, PageOpening, PageRows, BalanceSheetRows, AskLedger,
                AskGeneralLedger, TrialBalanceCsv, PnlCsv, JournalCsv, BalanceSheetTotals, Render
  <2> QED
    BY <2>1, <2>2
<1>6. report.kind # "sheet" => SheetOK(report', journal')
  BY DEF SheetOK
<1> QED
  BY <1>3, <1>4, <1>5, <1>6 DEF ReportInv

\* The list of the journal agrees with the P&L for as long as it is the report: the
\* book waits until it is put away.
LEMMA ListKept ==
  ASSUME BookInv, ForceInv, ReportInv, ListOK(report), [Next]_vars
  PROVE  ListOK(report)'
<1>1. CASE UNCHANGED vars
  <2>1. journal' = journal /\ report' = report
    BY <1>1 DEF vars
  <2> QED
    BY <2>1 DEF ListOK, Pnl, Balances, Posted, PostedTo, Surplus
<1>2. CASE report'.kind # "journal"
  BY <1>2 DEF ListOK
<1>3. ASSUME NEW w \in Windows, JournalCsv(w[1], w[2])
      PROVE  ListOK(report)'
  <2> DEFINE from == w[1]
             to == w[2]
  <2>1. from \in Ends /\ to \in Ends
    BY ExportsAssumption
  <2>2. /\ report' = [kind |-> "journal", rows |-> JournalList(from, to),
                      from |-> from, to |-> to]
        /\ journal' = journal
    BY <1>3 DEF JournalCsv, Render, bookVars
  <2> HIDE DEF from, to
  <2>3. ListOK(report')
    BY <2>1, <2>2, JournalListAgrees
  <2> QED
    BY <2>2, <2>3 DEF ListOK, Pnl, Balances, Posted, PostedTo, Surplus
<1>4. CASE CommitBetween \/ CommitDuring \/ PutAway
  BY <1>4, <1>2 DEF CommitBetween, CommitDuring, PutAway, NoReport, Finished
<1>5. CASE PageOpening \/ PageRows
  BY <1>2, <1>5, OpeningTaken, PageTaken DEF ReportInv
<1>6. CASE BalanceSheetRows
  BY <1>2, <1>6, RowsTaken DEF ReportInv
<1>7. ASSUME NEW w \in Windows,
             \/ AskGeneralLedger(w[1], w[2]) \/ PnlCsv(w[1], w[2])
             \/ \E a \in Accounts : AskLedger(a, w[1], w[2])
      PROVE  ListOK(report)'
  BY <1>2, <1>7 DEF AskGeneralLedger, AskLedger, Ledger, PnlCsv, Render, Sheet
<1>8. ASSUME NEW asOf \in Ends, TrialBalanceCsv(asOf) \/ BalanceSheetTotals(asOf)
      PROVE  ListOK(report)'
  BY <1>2, <1>8 DEF TrialBalanceCsv, BalanceSheetTotals, Render, Sheet
<1> QED
  BY <1>1, <1>3, <1>4, <1>5, <1>6, <1>7, <1>8 DEF Next

\* Whatever commits fall between its queries, a report that waits for its next query
\* agrees with the book as the query before it found it, and one that is made does.
THEOREM ReportsAreHistory == Spec => []ReportInv
<1>1. Init => ReportInv
  BY DEF Init, ReportInv, TotalsOK, SheetOK, LedgerOK, NoReport
<1>2. BookInv /\ ReportInv /\ [Next]_vars => ReportInv'
  <2> SUFFICES ASSUME BookInv, ReportInv, [Next]_vars
               PROVE  ReportInv'
    OBVIOUS
  <2>1. CASE UNCHANGED vars
    BY <2>1 DEF vars, ReportInv, TotalsOK, SheetOK, LedgerOK, LedgerReports, PartOf, First
  <2>2. CASE Next /\ UNCHANGED bookVars
    BY <2>2, ReportTaken
  <2>3. CASE Next /\ ~UNCHANGED bookVars
    <3>1. Commit /\ UNCHANGED report
      BY <2>3 DEF Next, bookVars, CommitBetween, CommitDuring, PutAway, PageOpening, PageRows,
                  BalanceSheetRows, AskLedger, AskGeneralLedger, TrialBalanceCsv, PnlCsv,
                  JournalCsv, BalanceSheetTotals, Render
    <3> QED
      BY <2>3, <3>1, ReportKept
  <2> QED
    BY <2>1, <2>2, <2>3
<1> QED
  BY <1>1, <1>2, JournalBalances, PTL DEF Spec

\* A page of a ledger ends on the account's balance at its last date as its second
\* query found the book, unless an entry dated before the window came in between: for
\* every window, every chart and every commit that falls between the queries.
THEOREM LedgersAreOfOneMoment == Spec => []LedgerOfOneMoment
<1>1. BookInv /\ ReportInv => LedgerOfOneMoment
  BY LedgerIsOfOneMoment DEF ReportInv
<1> QED
  BY <1>1, JournalBalances, ReportsAreHistory, PTL

\* A finished ledger lists every entry it should, archived accounts included, and a
\* sheet's rows add up to its totals unless a commit came between them.
THEOREM ExportsAreComplete == Spec => [](LedgerIsWhole /\ SheetFootsUp)
<1>1. BookInv /\ ReportInv => LedgerIsWhole /\ SheetFootsUp
  BY LedgerIsAllThere, SheetIs DEF ReportInv
<1> QED
  BY <1>1, JournalBalances, ReportsAreHistory, PTL

\* Exports are complete and foot up, and the plain rows in force of the journal export add
\* up to the P&L less what the other entries and second reversals post, whatever is posted
\* and however voids race.
THEOREM ExportsAgree == Spec => []ExportsFootUp
<1>1. Init => ListOK(report)
  BY DEF Init, ListOK, NoReport
<1>2. BookInv /\ ForceInv /\ ReportInv /\ ListOK(report) /\ [Next]_vars => ListOK(report)'
  BY ListKept
<1>3. LedgerIsWhole /\ SheetFootsUp /\ ListOK(report) => ExportsFootUp
  BY ListIs DEF ExportsFootUp
<1> QED
  BY <1>1, <1>2, <1>3, ReversalsCancel, ReportsAreHistory, ExportsAreComplete, PTL DEF Spec
=============================================================================
