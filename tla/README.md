# Money Books: verification models

Money Books is a local-first double-entry accounting program in C. One SQLite
file is one company; a desktop app and a stdio MCP server open that file as
separate processes, other devices may hold replicas of it, and the app can show
it live to guests over a peer-to-peer connection. This directory holds TLA+
models of that engine, the TLC configurations that check them on small
instances, and TLAPS proofs, for every value of the constants, about the
journal, settlement, amounts, opening, the transports, sharing, the list of
books, the MCP server, and the reports and exports. Paths below are relative to the repository.

## 1. Inventory

| component | code | state it keeps | operations | status |
|---|---|---|---|---|
| journal | `src/journal` | immutable entries and postings, status flags, `last_hash:<dev>` | post, reverse, apply_remote | modelled (`Journal`) |
| store | `src/store` | schema version, `book_meta` (identity, clocks), transactions | open, migrate, stamp, begin/commit | partly (`Opening`, `Journal`) |
| opening and seeding | `src/seed`, `src/book`, `src/mcpd/main.c`, `src/api` (onboard) | chart of accounts, control account ids | create, open, onboard, seed | modelled (`Opening`) |
| settlement | `src/invoice`, `src/bill`, `src/payment` | documents, lines, payments, allocations | create, update, lines, issue/enter, pay, apply credit, void | modelled (`Settlement`) |
| reports | `src/report` | none | trial balance, P&L, balance sheet, cash flow, categories, journal list, ledger, aging | partly (`Reports`, `Exports`) |
| export | `src/export` | none | general ledger, trial balance, P&L, balance sheet and journal as CSV | modelled (`Exports`) |
| money | `src/money`, amounts in `src/invoice`, `src/bill`, `src/journal` | none | line total, parse, format, sums and negations of amounts | modelled (`Money`) |
| registry | `src/registry` | a JSON file of known books, shared by all apps | touch, forget, list | modelled (`Registry`) |
| share protocol | `src/share/share.c` | none | gated serve loop, call | modelled (`Sharing`) |
| transports | `src/share/transport*` | frame queues, byte streams | send, recv, close | modelled (`Loopback`, `Framing`, `Transports`) |
| app shell | `src/app` | current book, share, remote connection | open, share, connect, invoke | partly (`Sharing`, `Registry`, `Opening`) |
| MCP server | `src/mcp`, `src/mcpd` | tool policies | message loop, gates | modelled (`McpGate`) |
| API dispatch | `src/api` | settings | method tables, guest allowlist | partly |
| accounts, items, counterparties | `src/account`, `src/item`, `src/counterparty` | rows with stamps | create, (de)activate, rename | partly (`Journal`, `Exports`) |
| support, UI, demo, vendored code | `src/support`, ... | none of their own | hashes, threads, views, libraries | not modelled |

How they interact. Every write is a SQLite transaction drawing a stamp
(device, seq, lamport) from the store. Invoices, bills and payments post journal
entries on the control accounts that seeding recorded. Reports only read. The UI
and the MCP server call the same API functions, in different processes and on
different connections, and most of those functions *read and decide before they
begin the transaction that writes*. The share thread serves API reads from a
read-only handle of its own.

What is hard, and the properties that make each component correct:

- *Journal.* Entries of several devices arrive repeated, reordered, without
  their predecessor. History must never fork, replicas must agree on what a
  stamp names, the books must balance everywhere, catching up must not deadlock.
- *Settlement.* Three representations of one debt (control account, documents,
  allocations) are written by separate statements; overage becomes credit,
  credit moves between documents, voids take documents back. They must
  reconcile after any sequence of calls, and a settled document must not move.
- *Opening.* Two processes find the same new file, or one finds it gone and the
  other creates it; migrations, identity and chart are separate commits, and a
  process may stop between any two.
- *Sharing.* Three threads and the network: owner, share loop, guest. Stop must
  revoke, answers must be live and from one company, nobody may hang.
- *Transports.* A condition variable with two kinds of wakers; a byte stream cut
  anywhere.
- *Registry.* Read-modify-write of a whole file, which is emptied first.
- *Reports and exports.* Several queries over one journal must describe one set
  of books, and some reports are made of several queries with no transaction
  around them, so that other handles commit in between.
- *Money.* Fixed-width amounts, checked sums in some places and plain ones in
  others: no wrapped sum may reach an entry, no text may change an amount.
- *MCP server.* Its replies must tell the truth about what was done to the book.

`PROJECT.json` lists the hazards at their lines with the properties that watch
them.

## 2. Modules

| module | what it models | composition |
|---|---|---|
| `Journal` | post, reverse, apply_remote on a replica per device | - |
| `DeviceLogs` | abstract: append-only logs of which everyone knows a prefix | refined by `Journal`, which holds the mapping |
| `JournalProofs` | theorems about `Journal` | extends `Journal` |
| `Settlement` | document, payment, credit and void calls, statement by statement | - |
| `Receivables` | abstract: charge, receive, use credit, cancel, and seal or lapse what is cancelled, each atomic | refined by `Settlement`, which holds the mapping |
| `SumProofs` | lemmas: sums over finite sets and tables | extended by `SettlementProofs` and `ReportsProofs` |
| `SettlementProofs` | theorems about `Settlement` and `Money` | extends `Settlement` and `Money` |
| `Opening` | open, migrate, mint, onboard, seed by several processes | - |
| `OpeningProofs` | theorems about `Opening` | extends `Opening` |
| `FrameChannel` | abstract: one direction of `mb_share_transport` | refined by `Loopback` (twice) and `Framing`, together in `Transports` |
| `Loopback` | mutex and condition variable queues | - |
| `Framing` | 4-byte length frames over a byte stream | - |
| `Transports` | the table of transport functions, over either implementation | extends `Loopback` and `Framing` |
| `TransportsProofs` | theorems about both transports and the table | extends `Transports` |
| `Sharing` | owner, share loop and guests | uses what the transports promise: a call and its answer are one slot |
| `Registry` | the books file and the apps that rewrite it | - |
| `AppProofs` | theorems about `Sharing` and `Registry` | extends `Sharing` and `Registry` |
| `Reports` | the journal's entries and the statements as functions of them | - |
| `Exports` | reports and CSV exports made while other handles commit | extends `Reports` |
| `ReportsProofs` | theorems about `Reports` and `Exports` | extends `Exports` |
| `Money` | amounts of a fixed width: line totals, texts, postings | - |
| `McpGate` | messages, policy and approval gates, replies | - |
| `McpGateProofs` | theorems about `McpGate` | extends `McpGate` |
| `MC*` | small instances | extend the module they are named for |

Operators marked `\* slip:` stand before the definition they vary. They are
plausible mistakes in that piece of code, each the basis of one mutation test: with the
slip in place of the definition the property named beside it in `PROJECT.json`
must fail. No specification uses them.

### Correspondence with the code

*Journal.* `entries[d]` is `journal_entry` with `posting` on device d;
`reversed[d]` the rows whose status is REVERSED; `nextSeq`, `lamport`,
`lastHash` are the `book_meta` keys; `active` is `account.is_active`. `Post`,
`Reverse`, `Apply` are `mb_journal_post`, `mb_journal_reverse` and
`mb_journal_apply_remote`, each one transaction and so one action with its
stamp, chain, flag and clock updates. `InsertOther` is any other synchronised
table drawing a stamp; `SetActive` archives an account. A hash is the tuple of
the fields it covers.

*Settlement.* `status`, `lines`, `settled` are columns or sums of the
document tables, `paid` and `applied` the payments and allocations of a
counterparty and side, `control` its postings on AR or AP, `issues` the issue
entries. `call[p]` is what process p is doing: a call is a chain of actions, one
per statement or transaction, with what it read kept in between, because that is
where another connection acts. Invoices and bills have actions of their own over
shared steps, as `invoice.c` and `bill.c` hold the same code for two tables:

- create: `InvoiceCreate`, `BillCreate`;
- edit a draft: `...AddLineCheck` then `...AddLine`, and so for `RemoveLine` and
  `Update`;
- issue: `InvoiceIssueCheck`, `InvoiceGather`, `InvoiceIssue`; `BillEnterCheck`,
  `BillGather`, `BillEnter`;
- pay: `PayCheck`, `PaySize`, `Pay`; apply credit: `CreditCheck`,
  `CreditRemaining`, `CreditAvailable`, `Credit`;
- void: `...VoidCheck`, `VoidReverse`, `InvoiceVoid` or `BillVoid`.

`ManualPost` is `transaction.post` with a posting on a control account. `Fail` ends
a call wherever it stands; what it has committed remains, which for a void
between its two writes is the reversal. Three variables are history: `manual` is
the part of `control` posted by hand, `cut` how many voids of a document ended
between their writes, `reworded` the documents whose header changed after issue.

D26 does not hold as documented when a void ends half way or a document of negative
total is paid. `BalanceReconciles` therefore says by exactly how much the two
sides then differ, so that it is checked in those states and not only outside
them. `Receivables` has the same two cases: a cancelled document may lapse and be
owed again while its amount stays off the balance, and cash for a document of
which nothing is owed is all credit.

*Opening.* One variable per meta key, `rows` the stamps of all rows in commit
order, `accounts` and `control` the chart, `run[p]` the next statement of
process p. `mb_book_create` is two steps, the `fopen` that must find nothing
(`Probe`) and the open and seeding that no longer look (`CreateBook`); opening
creates a missing file for an app as for a server (`OpenBook`), which an app then
serves without a chart until its wizard runs. `raced` and `faulted` are history:
`raced` holds a part of the book once a process has looked for it, and found it
missing, while another stood between finding it missing and writing it (a server
that finds accounts while others are still being seeded counts as looking for
the control accounts); `faulted` holds where a process stopped or a write failed.

*Loopback.* `queue`, `closed` per channel, `pc` per thread (idle, waiting in
`pthread_cond_wait`, woken, closing). An action is a critical section. *Framing.*
`stream` is the bytes in flight, `buf` and `need` the locals of `read_exact` and
`io_recv`. *Transports.* `kind` is which functions the table holds.

*Sharing.* `share` is `struct app_share`; `loop`, `peer`, `wire` where
`share_loop` stands; `link`, `call`, `reply` the guests. `asked` and `first` are
history for the properties.

*Registry.* `file` is the JSON file, `app[p]` a read-modify-write in progress;
`known` what completed calls recorded; `lost` whether a write was ever cut.

*Reports.* `journal` is the list of entries, `active` is `account.is_active`; an
entry keeps for every account it touches what it debits and what it credits there,
and `reverses` is the place of the entry `reverses_id` names;
each report that is one query is an operator over them with the SQL's window and
sign rules. *Exports.* `report` is the report being made or the last one
finished: the ledger is a list of `pages` made one after the other, each by
`PageOpening` (skipped when the window has no beginning) and `PageRows`, the
balance sheet export `BalanceSheetTotals` and then `BalanceSheetRows`; the others
are one query and one action. `CommitDuring` is another handle.

*Money.* `draft` holds the line totals of a draft, `asked` an `add_line` under way,
`entry` the last entry accepted, `paper` the last text written or read. A sum the
C code makes with plain `+` or a unary minus is `Wrap` of the exact one, into
`-Half .. Half - 1`; `Half` is 2^63 in the code, the base of the numerals 10.
`Running` is `mb_money_parse`'s accumulator digit by digit, `Printed` what printf
writes for a natural number.

*McpGate.* `sent` and `out` are stdin and stdout, `table` is `tool_permission`,
`ran` what was executed. The server reads, gates and dispatches in separate steps.

## 3. Runs

Each run finishes in less than four minutes with two workers.

| run | states | shows |
|---|---|---|
| `journal_replicas` | 52,168 | `OneEntryPerStamp`, `NoFork`, `FlagBacked`, `NeverStuck`, `MintedAfterHeld`, the inductive invariant `IndInv` (which contains `TypeOK`, `PrefixHeld`, `LamportCovers`, `ReversalFlagsTarget`) and that the replicas implement `DeviceLogs` |
| `settlement_serial` | 1,778,792 | with one writer, discounts, and voids cut short: AR(cp) = outstanding - credit, and the like for AP, but for what was posted by hand and the two amounts it names (`BalanceReconciles`), credit is never overspent, statuses agree with money, issued documents stay as posted, the life cycle, and `Receivables` is implemented |
| `opening_files` | 917,594 | stamps unique and schema monotone whatever happens; clock, chart, control accounts and identity right unless one process looked for them while another was about to write them; someone always gets in |
| `transports_either` | 41,499 | both directions of the pair, and the stream cut anywhere, implement `FrameChannel`; no lost wakeup; close releases everyone; whole frames arrive |
| `sharing_session` | 422,856 | Stop revokes, answers are live and of one company, a stop is noticed, calls return |
| `registry_alone` | 11,170 | the list is exact until a write is cut, and never invents afterwards |
| `reports_books` | 387,967 | statements articulate, cash flow is the movement of cash, the list of entries in force agrees with the P&L but for discounts and second reversals, each by its exact amount; a ledger is of one moment, and exports are complete and add up, each but for the commits that fell between its own queries |
| `mcpgate_session` | 69,482 | one reply per request in order, replies tell the truth, BLOCK is kept, every request answered |
| `money_four_bits` | 216,734 | a line total is the nearest amount, texts are exact, no sum that wrapped reaches an entry |
| `journal_gap` | violation | an entry delivered in order is refused when another table drew a stamp before it |
| `settlement_credit_race` | violation | two processes spend the same credit |
| `sharing_switch` | violation | sharing after a switch of books serves the previous book |

`TypeOK` is a conjunct of `IndInv`, `DocumentsConsistent`, `BookConsistent`,
`WaitersConsistent`, `SessionConsistent`, `ListIsCurrent`, `BooksConsistent` (as
`BookTypeOK`), `RepliesConsistent` and `PostingsAreExact`, each of which adds the
module's consistency facts.

### Bounds, and why they are enough

- *Journal.* d1 draws 3 stamps, d2 one, d3 none: d1 can post, insert another
  row and reverse; d2 competes on the lamport clock; d3 relays, so entries reach
  d2 by two routes. Gaps, reversals before and after delivery and archived
  accounts all occur. `NeverStuck` is stated for missing entries without a gap
  in seq and with all accounts active, since the code refuses the others.
- *Settlement.* Two invoices and a bill of one counterparty, who is customer and
  vendor: credit can move between the invoices and must not cross to the bill,
  whose pool has the opposite sign. Three lines in the book, of 2 or of -1, give
  totals of either sign, and a document with a discount; with payments of 1 and 3
  they give part payment, exact payment and overage. One void ends between its
  writes, after which the document can be paid, or voided again. By hand, 1
  is posted once to a pool. The two invoices are declared symmetric: no property
  or constant tells them apart. One process, because the code's guarantees are
  those of one writer (`docs/PROJECT_NOTES.md` D8). Every call may end at every
  step.
- *Opening.* `Latest = 3` keeps the two kinds of migration of the six: those that
  create a table and so cannot run twice, and the last, which re-keys the
  counter and can. An app and a server at once, which between them take every
  path that opens, creates, onboards or seeds; a chart of an ordinary account
  followed by a control account, so that a server can meet accounts without it;
  stops and failures anywhere; one row beyond the old book's two, which is enough
  to meet a repeated stamp.
- *Transports.* On the pair, two receivers on one channel and one closer: the
  smallest setting in which a signal can go to the wrong thread; two frames per
  channel. On the stream, three frames of limit 2 with bodies of 0 to 2 bytes and
  any read size. A transport is one or the other for its whole life, so the
  instance is the sum of the two and not their product.
- *Sharing.* Two companies, two guests with one dial each, one commit per book.
  The loop's thread goes from guest to guest, so a redial by another guest
  exercises what a redial by the same one would.
- *Registry.* Three books, five opens or forgets. The clock ticks at every open,
  so ties in `last_opened` do not occur.
- *Reports and exports.* Two dates, three entries of four kinds over six
  accounts, every window with open ends for the statements and four windows for
  the ledgers. Different amounts keep sums distinct. The kinds are an invoice with
  a discount line, which debits and credits its income account; a bill; a drawing;
  and a sale received less a fee, with income, an expense and a posting of nothing.
  Three entries are enough for a document to be posted, voided and voided again.
  The expense account can be archived. One entry may be committed while one report is made,
  which is enough to separate any two of its queries, and a report is put away
  before the book moves on. Entries come from one device, so their seq is their
  place in the journal; no account is created while a report is made.
- *Money.* Four bits, base two and hundredths of four: every amount, price,
  quantity and text of up to four digits is tried. Line totals reach 2 in size,
  so a fifth line overflows; by hand, three postings of any amounts. What the
  width does (a product that does not fit, the smallest amount without its
  negative, a half that rounds, a sum that wraps to zero) happens at every width.
- *McpGate.* Two messages of every kind, a writing and a reading tool, two
  policy changes. `tools/list` reads all policies in one step.

### Fairness

- `Opening`: weak fairness of each process's own statements. A running process
  is scheduled and SQLite's 5 s busy timeout (`store.c:333`) lets it through; users
  and faults owe nothing.
- `Loopback`: weak fairness of a woken thread's re-test and of a close that has
  begun: both only need the mutex.
- `Framing`: weak fairness of reading and of finishing a begun send.
- `Sharing`: weak fairness of the share loop, of a guest's poll (the UI calls
  every 2.5 s, `ui/src/App.jsx`), of returning calls and of giving up a dial.
- `McpGate`: weak fairness of the server loop.
- `Transports`: that of `Loopback` and of `Framing`; what one would owe is never
  enabled while the other is in use.
- `Journal`, `Settlement`, `Registry`, `Reports`, `Exports`, `Money` claim no
  liveness: what they do is called by a user and ends with the call.

## 4. Proofs

The theorems hold for any number of devices, processes, documents, guests,
threads, tools and entries, and for any bounds. Every inductive invariant named
below was checked by TLC on the instance of the component's run before it was
proved, those of settlement also with two processes whose calls were constrained
to be apart.

| module | theorem | states | assuming |
|---|---|---|---|
| `JournalProofs` | `Invariance`, `TypeCorrect`, `HeldIsPrefix`, `ReversalsFlagged`, `ClockCovers` | `IndInv` and its conjuncts | - |
| | `StampsAgree`, `ChainsAreLines`, `FlagsBacked` | `OneEntryPerStamp`, `NoFork`, `FlagBacked` | - |
| | `MintsSortLast` | `MintedAfterHeld`, of steps | - |
| | `WaitsAreForEarlier`, `CatchingUpNeverSticks` | `WaitsForEarlier`, `NeverStuck` | - |
| | `ReplicasAreDeviceLogs` | `ImplementsDeviceLogs` | - |
| `SettlementProofs` (settlement) | `CreditNeverSpentTwice` | `CreditNeverNegative` | credit apart |
| | `IssuedStaysLocked` | `IssuedIsLocked` | documents apart |
| | `LifecycleIsKept` | `Lifecycle`, of steps | documents apart |
| | `DocumentsStayConsistent` | `DocumentsConsistent` | documents apart |
| | `BalancesReconcile` | `BalanceReconciles` | documents and credit apart |
| | `SettlementImplementsReceivables` | `ImplementsReceivables` | documents and credit apart |
| | `OneWriterSuffices` | all six | one process |
| `SettlementProofs` (amounts) | `PostingsStayExact`, `TextsAreExact` | `PostingsAreExact`, `TextIsExact` | - |
| | `LinesAreNearest` | `LineTotalIsNearest`, of steps | - |
| `OpeningProofs` | `StampsAreUnique`, `ClockRunsForward`, `ChartSeededOnce`, `BookStaysConsistent` | the invariants of `opening_files` | - |
| | `IdentityIsKept` | `IdentityStable`, of steps | - |
| `TransportsProofs` | `NoWaiterForgotten`, `PairIsAChannel` | `WaitersConsistent`, and that the pair implements `FrameChannel` twice | - |
| | `ReaderStaysInStep`, `StoppedOnlyAtTheEnd`, `StreamIsAChannel`, `EitherIsAChannel` | the stream, and either, implements `FrameChannel` | no body above the receiver's limit |
| `AppProofs` | `StopAlwaysRevokes`, `AnswersStayLive`, `OneCompany` | `StopRevokes`, `AnswersAreLive`, `SessionConsistent` | - |
| | `ListIsCurrentAlways` | `ListIsCurrent` | one app |
| `McpGateProofs` | `RepliesAreTrue` | `RepliesConsistent` | - |
| | `BlockIsKept` | `BlockedStaysOut` | policies can be read |
| `ReportsProofs` | `JournalBalances`, `StatementsAgree`, `CashFlowAgrees` | every entry balances, `BooksConsistent`, `CashFlowIsMovement` | - |
| | `ReversalsCancel`, `EffectiveAgrees` | entries not in force cancel but for second reversals, `EffectiveMatchesPnl` | - |
| | `ReportsAreHistory`, `LedgersAreOfOneMoment`, `ExportsAreComplete` | `LedgerOfOneMoment`, `LedgerIsWhole`, `SheetFootsUp` | - |
| | `ExportsAgree` | `ExportsFootUp` | - |

### Assumptions

The modules' named ASSUMEs are types of constants and finiteness (of the
threads, the documents, the chart), that the kinds of entries balance, that
the chart's list has every account once, and that a hundredth has a half. What a theorem assumes beyond them is
part of its statement, and each such hypothesis is a place where the code's
guarantee ends; the counterexample without it is in section 5:

- *Calls kept apart*: the calls of `payment.c`, `invoice.c` and `bill.c` read and
  decide before they begin, so two processes can act on what is no longer so.
  `DocumentsApart` says that no two calls are under way on one document,
  `CreditApart` that no two have found the credit of one counterparty and kind
  and not yet applied it; without it the credit is spent twice
  (`settlement_credit_race`). Both are hypotheses on the behaviour, `[]Apart`:
  any number of processes may interleave their calls otherwise, and calls on
  documents of one counterparty do. The code enforces neither between the app
  and the MCP server; one process satisfies both (`OneWriterSuffices`).
- *One app* (`OneApp`): the registry is read, changed and rewritten without a lock,
  so of two apps the last writer wins.
- *`MaxBody <= MaxFrame`*: the limit is the receiver's and the sender has none.
- *`ReadFaults = FALSE`*: a policy that cannot be read counts as the default.

The theorems about reports assume nothing of what is posted or of how voids race;
what the lists then leave out or count double is part of the property.

One more is built into `Journal`: a hash determines what it covers.

### Why the invariants are strengthened

*Journal.* "No fork" and "held is a prefix" are not inductive: a received entry is
only compared with the entry it names as predecessor. The proof needs that every
entry anywhere is an entry of its minting device (`Provenance`), that this device
used each seq once (`OwnStamps`), that its own rows form one line in seq order in
which each names the one just before it (`OwnChain`) and that `last_hash` is the
end of that line (`LastHashIsLatest`). Then a received entry's predecessor is the
only entry before it. `StepKinds` shows that a step mints an entry, takes one
over, or adds none, and each kind has a lemma. That replicas never stick is an
argument about what an entry waits for, its predecessor and the entry it reverses:
by `WaitsForEarlier` both carry an earlier clock, so the earliest entry a replica
lacks waits for nothing it lacks, and `Balanced` leaves its accounts as the only
condition. For the refinement, the log of a set of rows is the rows by rank; a
row above all others goes to its end (`LogAppends`), and rows held with all
earlier ones are its beginning (`PrefixIs`, from `PrefixHeld`).

*Settlement.* Credit and locks depend on what a call has read: `StillSo` says of
every stage what is still true of it, and `EntryOfTotal` that a document past
DRAFT has the entry that posted its total. `StillSo` speaks only of the call's own
document, which no other call touches while documents are kept apart, so a step of
one call keeps it for all. Credit belongs to no document and needs an invariant of
its own: `CreditInv` says of a call only that what it holds is fit to be written
and that credit it has found is still there, which is all that `CreditNeverNegative`
needs, and holds even if documents are raced on. Money needs more: `StatusMatchesMoney`,
`PostedOnce` and `Reconciled`, which is D26 as a sum over *all* documents. Each
counts for its `Worth`, what is not settled of it less its total for every
reversal that no mark followed, so that a step changes the worth of one document
and the two writes of a void need no case of their own. `Uncut` says that only a
document that was issued had a void cut short, without which a draft whose lines
change would change what it is worth. The refinement needs nothing more.

*Opening.* The facts the properties speak of are set by whoever finds them
missing, in a later statement. `OneGiver` says that at most one process is about
to give a part of the book unless a race for it is on record, `SeedsTheMissing`
that whoever seeds, or has probed and will seed what it opens, meets no account
of its chart, and `Identified`, `ClockAhead`, `CounterAhead`, `RecordsItsOwn` and
`ControlsToCome` carry that through the stages; the counter has two forms, since
migration v6 moves it.

*Transports.* The pair: a waiter that is not signalled has an empty open queue
(`NoLostWakeup`), counted by cardinalities, and what was accepted is what was
delivered and what is queued. The stream: the reader's buffer followed by what is in flight
is one run of bytes, each followed by its successor, that starts at the byte the
reader wants and ends at the last one written (`ReaderInStep`, `RestInOrder`,
`WriterInStep`), whatever the sizes of the reads.

*Registry.* The list is current only between calls. `ListInv` says what holds
within one: the file shows what is on record until the call empties it, and the
list the call holds shows what will be on record when it is written.

*Money.* `MoneyInv` adds that every line total has a negative (rounding never gives
the smallest amount), so a document's negated lines are exact even where their
plain sum wrapped, and that post_core's last running sum is then the exact one.
Rounding is settled by integer division, in which a remainder of either sign is
less than a hundredth. For texts, `PrintedIsRead` and its neighbours show that
the numeral printf writes has digits only and reads as the number, and that a text's
value is its units and its decimals, by induction over the naturals. That
`mb_money_parse` refuses exactly when the whole value does not fit rests on the
accumulator never falling.

*Sharing.* `IndInv` ties the loop's position to its peer's call
(`OpenCallsOffered`) and the connection to the handle the loop reads
(`OneHandle`). *McpGate.* `RecordInv` adds that what ran was handled and that a
call about to be dispatched was confirmed; `BarredInv` that it is not barred.

*Reports.* `BookInv`: entries balance. Everything a single query prints follows
from it by adding a table of postings up by rows and by columns. `ForceInv`:
in every account and *every window* the entries not in force come to what the
second and later reversals (`Surplus`) post there, which is inductive because a
reversal carries its original's date, what a reversal names is marked, and what is
marked has a reversal. `ReportInv` states
what a half-made report holds as a function of the journal and of how many
entries there were at its last query (`TotalsOK`, `LedgerOK`), and commits add to
that history without changing any date or amount (`Grows`). For the ledger it adds
that what is left to do is the end of the chart (`TodoOK`), that the pages done
show what they should (`WholeOK`) and that each ended on its balance (`PageOK`).

### Sums

Sums over finite sets are defined by picking elements in some order. `SumProofs`
shows from that definition that the order does not matter: by a smallest
counterexample, which the well-foundedness of strict inclusion gives, since the
library's induction theorems take an operator and cannot be used. From this
follow the lemmas the rest uses (a sum over two parts, of sums, of negatives, of
a table both ways).

### Only model-checked

Every safety property, action property and refinement the passing runs check is
stated by a theorem. Liveness is not: `SomeoneServes`, `CloseReleases`,
`EveryFrameArrives`, `StopIsNoticed`, `CallsReturn` and `EveryRequestAnswered` need
fairness and ENABLED, which are out of the prover's reach.

No module here declares a RECURSIVE operator. What the recursive functions of
`Money` compute is proved by the smallest counterexample: the naturals are
well-founded, which is a theorem that takes no operator.

## 5. Known disagreements

Three disagreements between the code and what the repository says of it are
runs of their own (`journal_gap`, `settlement_credit_race`, `sharing_switch`; their
findings quote the lines). The instances below show further ones; each was
checked with the constants given, and the passing runs exclude them by a
constant or by an antecedent, or name the amount they are off by.

| what happens | code | how to see it |
|---|---|---|
| a row shipped after its reversal arrives flagged REVERSED, against "status is never trusted off the wire" (`docs/PHASE7_SYNC.md:101`) | `journal.c:322` | `FlagDerivedLocally` in `journal_replicas` |
| a payment and a void that each read OPEN interleave (`docs/SPEC.md:229`) | `invoice.c:379` | `Lifecycle` with two processes |
| a line is added to a document another process issued (`docs/SPEC.md:221`) | `invoice.c:94` | `IssuedIsLocked` with two processes |
| a void stops between its two commits, and the document still owes what the ledger took back | `invoice.c:393` | `BalanceReconciles` without its sum over `Undone` |
| a document with a negative total is forgiven when it is paid | `payment.c:169` | `BalanceReconciles` without its sum over PAID documents |
| two first opens reset the clock, replace the identity or seed twice | `store.c:302`, `store.c:316`, `mcpd/main.c:27` | `ClockForward`, `IdentityStable`, `SeededOnce` without their `raced` antecedents |
| a file created and seeded after `mb_book_create` probed for it is seeded again | `book.c:20`, `book.c:24` | `SeededOnce` without its `raced` antecedent |
| a server serves a chart that another process is still seeding | `mcpd/main.c:27` | `ServedWithControls` without its `raced` antecedent |
| an interrupted seeding is never completed | `mcpd/main.c:26` | `ServedWithControls` without `faulted` |
| a frame above `MB_SHARE_MAX_FRAME` ends an open connection | `transport_iroh.c:46,72` | `EndsOnlyWhenClosed` in `transports_either` with `MaxFrame` below `MaxBody` |
| a failed thread creation leaves sharing on without an endpoint | `app/main.c:176` | `SharingIsHosted` in `sharing_session` |
| a second guest's dial fails while sharing is on | `app/main.c:141` | `GuestsAdmitted` in `sharing_session` |
| of two running apps the last writer of the registry wins; a short write loses the list | `registry.c:94`, `registry.c:73` | `ListIsCurrent` with two apps, or without `lost` |
| an entry dated before a ledger's window and committed between its two queries is in neither | `report.c:129` | `LedgerOfOneMoment` without its exception |
| exports made while others commit leave out half an entry, or print totals that are not those of the rows | `export.c:119`, `export.c:172` | `LedgerIsWhole` and `SheetFootsUp` without their exceptions |
| a posting made by hand on a control account moves a counterparty's balance with no document behind it (D26) | `api.c:349` | `BalanceReconciles` without `manual` |
| an accepted entry that holds the smallest amount cannot be reversed | `journal.c:212` | `ReversalsFit` in `money_four_bits` |
| whether an entry is accepted depends on the order of its postings, and replicas and reversals read them in the order stored | `journal.c:269` | `OrderDoesNotMatter` in `money_four_bits` |
| two voids reverse one entry twice, and the P&L counts both reversals | `journal.c:175` | `EffectiveMatchesPnl` without `Surplus` |
| the category list shows magnitudes, so a discount, or a refund posted by hand, is added where the P&L subtracts it | `report.c:289` | `EffectiveMatchesPnl` without `Contrary` |
| an entry with income and expense postings is listed as income, for all its debits | `report.c:245` | `JournalListsPnl` without `Plain` |
| a write runs on the first call if it says `confirm` (`docs/MCP.md:65`) | `mcp.c:229` | `ApprovalComesFirst` in `mcpgate_session` |
| a policy that cannot be read counts as the default | `mcp.c:78` | `BlockedStaysOut` with `ReadFaults` |

## 6. Not modelled, and why

- SQLite, cJSON, the iroh library: external. Transactions are atomic and
  serialised; the iroh stream is bytes in order that may be cut.
- The content hash's 256-byte line buffer (`journal.c:37`): a hash is exactly
  what it covers.
- Refunds (the code has none), the aging report's buckets, the guest allowlist
  and argument parsing of the API, rows of items and counterparties beyond the
  stamps they draw.
- Rows one by one where only their sums are told apart: the postings of an entry to
  one account are its debits and its credits there, and a ledger's rows are one per
  entry.
- Calls of tools that do not exist or that lack a name (`mcp.c:210`, `mcp.c:216`):
  they are answered at once and run nothing.
- Width of amounts outside `Money`: the other modules use the integers, which
  `PostingsAreExact` justifies for what is in an entry.
- CSV quoting, UI views, the share demo and the test harness: no state of their
  own that another component depends on.

## 7. Plan

Done: the journal, settlement with manual postings and document updates,
opening, the transports under one table, sharing, reports and exports with
commits between their queries, the registry, money, and the MCP server, all
checked and proved.

Models to come:

1. `Api`: the method tables and the guest's allowlist (`api.c:754-788`) composed
   with `Sharing`, with the claim that no guest call writes.
2. The aging report's buckets over `Settlement`'s documents with dates.
3. `Journal` with a hash of long memos that may be any value.
