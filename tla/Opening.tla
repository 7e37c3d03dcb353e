------------------------------ MODULE Opening ------------------------------
(***************************************************************************)
(* Opening one book file: migrations, first-open identity and seeding.     *)
(*                                                                         *)
(* The app and the stdio MCP server are separate processes that open the   *)
(* same SQLite file.  Opening it reads user_version, runs the missing      *)
(* migrations one transaction each, mints device_id, lamport and book_id   *)
(* when they are missing, and then a server (first run), a new book        *)
(* (mb_book_create) or the wizard (book.onboard) seeds the chart, one      *)
(* transaction per account.  Every step is a statement or a transaction of *)
(* its own, so other processes act in between, and a process may stop      *)
(* between any two of them.                                                *)
(*                                                                         *)
(* Abstractions.  A uuid is the name of the process that drew it (a        *)
(* process never draws two for the same key: see MintDevice).  The chart   *)
(* is a short sequence of account codes.  Rows of every synchronised table *)
(* are kept as their stamps, in commit order.  The company name, which     *)
(* only titles show, and the last_hash keys, which migration v6 re-keys    *)
(* with the sequence counter, are left out.                                *)
(***************************************************************************)
EXTENDS Integers, Sequences, FiniteSets, Functions

CONSTANTS
  App, Server,   \* processes: desktop apps, MCP servers
  Latest,        \* MIGRATION_COUNT
  OldVersions,   \* user_version of older books that may be found, if any
  Full,          \* the starter chart: a sequence of account codes
  SystemOnly,    \* the part of it an empty template seeds
  Control,       \* the codes whose account id is recorded in book_meta
  MaxRows,       \* bound: stamped rows beyond which no other row is written
  Faults,        \* may a process stop, or a write fail, half-way?
  Old, NoId

Opener == App \cup Server
Id == Opener \cup {Old}

ASSUME VersionAssumption == Latest \in Nat /\ Latest > 1 /\ OldVersions \subseteq 1..(Latest - 1)
Code == Range(Full)
ASSUME ChartAssumption ==
  /\ Full \in Seq(Code) /\ IsInjective(Full)
  /\ SystemOnly \in Seq(Code) /\ IsInjective(SystemOnly)
  /\ Control = Range(SystemOnly)
ASSUME IdAssumption == NoId \notin Id /\ Old \notin Opener /\ Faults \in BOOLEAN

VARIABLES
  exists,    \* is there a file?
  version,   \* PRAGMA user_version
  device,    \* book_meta device_id
  bookId,    \* book_meta book_id
  lamport,   \* book_meta lamport
  legacySeq, \* book_meta next_seq of a book older than v6, 0 when absent
  nextSeq,   \* book_meta next_seq:<device_id>, 1 when absent
  rows,      \* stamps of all synchronised rows, in commit order
  accounts,  \* codes of the account rows, in commit order
  control,   \* book_meta ar_account_id, ...: index into accounts, 0 when absent
  run,       \* where each process stands
  raced,     \* history: what a process found missing while another was giving it
  faulted    \* history: where a process stopped, or a write failed, half-way

vars == <<exists, version, device, bookId, lamport, legacySeq, nextSeq, rows,
          accounts, control, run, raced, faulted>>
book == <<exists, version, device, bookId, lamport, legacySeq, nextSeq, rows,
          accounts, control>>
history == <<raced, faulted>>
-----------------------------------------------------------------------------
\* at: the next step; seen: the version or the account the process holds;
\* todo: the codes it has still to seed; creating: in mb_book_create.
Stopped == [at |-> "closed", seen |-> 0, todo |-> << >>, creating |-> FALSE]

Goto(p, at) == run' = [run EXCEPT ![p].at = at]
Stop(p) == run' = [run EXCEPT ![p] = Stopped]

\* mb_store_next_stamp and an INSERT, in one transaction.
Stamp ==
  /\ nextSeq' = [nextSeq EXCEPT ![device] = @ + 1]
  /\ lamport' = lamport + 1
  /\ rows' = Append(rows, [dev |-> device, seq |-> nextSeq[device], lamport |-> lamport + 1])
-----------------------------------------------------------------------------
AtWork == {"seed", "record"}  \* seeding

\* What the book may lack, and who is about to give it: the process that has
\* looked and found it missing, or that does not look again before it seeds.
Parts == {"device", "book", "accounts", "controls"}
Lacks(x) == CASE x = "device"   -> device = NoId
              [] x = "book"     -> bookId = NoId
              [] x = "accounts" -> accounts = << >>
              [] x = "controls" -> \E c \in Control : control[c] = 0
Gives(r, x) == CASE x = "device"   -> r.at = "mint"
                 [] x = "book"     -> r.at = "label"
                 [] x = "accounts" -> r.creating \/ r.at \in AtWork
                 [] x = "controls" -> r.at \in AtWork

\* A process looks for a part of the book.
Looks(p, x) ==
  raced' = IF Lacks(x) /\ \E q \in Opener \ {p} : Gives(run[q], x)
             THEN raced \cup {x} ELSE raced

\* sqlite3_open, the WAL pragma (which creates the file if there is none, for
\* an app as for a server) and user_version.
Begin(p, todo, creating) ==
  /\ exists' = TRUE
  /\ run' = [run EXCEPT ![p] = [at |-> "migrate", seen |-> version,
                                todo |-> todo, creating |-> creating]]
  /\ UNCHANGED <<version, device, bookId, lamport, legacySeq, nextSeq, rows,
                 accounts, control>>

OpenBook(p) ==
  /\ run[p].at = "closed"
  /\ Begin(p, IF p \in Server THEN Full ELSE << >>, FALSE)
  /\ UNCHANGED history

\* mb_book_create refuses a path where fopen finds a file ...
Probe(p, chart) ==
  /\ run[p].at = "closed"
  /\ ~exists
  /\ run' = [run EXCEPT ![p].at = "probed", ![p].todo = chart, ![p].creating = TRUE]
  /\ Looks(p, "accounts")
  /\ UNCHANGED <<book, faulted>>

\* ... and opens it, whoever has created it, or even seeded it, since.
CreateBook(p) ==
  /\ run[p].at = "probed"
  /\ Begin(p, run[p].todo, TRUE)

\* Migration v6 turns next_seq into next_seq:<device_id>; on a book without
\* either key it changes nothing.
RekeyDropped(v) ==  \* slip: the old counter is deleted and not carried over
  /\ UNCHANGED nextSeq
  /\ legacySeq' = IF v = Latest - 1 THEN 0 ELSE legacySeq

Rekey(v) ==
  IF v = Latest - 1 /\ legacySeq # 0
    THEN /\ nextSeq' = [nextSeq EXCEPT ![device] = legacySeq]
         /\ legacySeq' = 0
    ELSE UNCHANGED <<nextSeq, legacySeq>>

\* One pass of migrate's loop: the schema of version seen + 1, user_version and
\* COMMIT.  Every migration but the last creates a table, so it can only run
\* once; the last one can run again.
MigrateForgets(p) ==  \* slip: the loop's version is not advanced
  /\ run[p].at = "migrate"
  /\ run[p].seen < Latest
  /\ run[p].seen = version \/ run[p].seen = Latest - 1
  /\ version' = run[p].seen + 1
  /\ Rekey(run[p].seen)
  /\ UNCHANGED <<exists, device, bookId, lamport, rows, accounts, control, run>>

Migrate(p) ==
  /\ run[p].at = "migrate"
  /\ run[p].seen < Latest
  /\ run[p].seen = version \/ run[p].seen = Latest - 1
  /\ version' = run[p].seen + 1
  /\ Rekey(run[p].seen)
  /\ run' = [run EXCEPT ![p].seen = @ + 1]
  /\ UNCHANGED <<exists, device, bookId, lamport, rows, accounts, control>>

\* Another process ran that migration meanwhile: the CREATE TABLE fails, the
\* transaction is rolled back and the open fails.
MigrateStale(p) ==
  /\ run[p].at = "migrate"
  /\ run[p].seen < version
  /\ run[p].seen < Latest - 1
  /\ Stop(p)
  /\ UNCHANGED book

\* init_meta reads device_id, and in a later transaction writes a new one.
FindDeviceNever(p) ==  \* slip: an identity is minted at every open
  /\ run[p].at = "migrate"
  /\ run[p].seen = Latest
  /\ Goto(p, "mint")
  /\ Looks(p, "device")
  /\ UNCHANGED book

FindDevice(p) ==
  /\ run[p].at = "migrate"
  /\ run[p].seen = Latest
  /\ Goto(p, IF device = NoId THEN "mint" ELSE "identify")
  /\ Looks(p, "device")
  /\ UNCHANGED book

MintDevice(p) ==
  /\ run[p].at = "mint"
  /\ device' = p
  /\ lamport' = 0
  /\ Goto(p, "identify")
  /\ UNCHANGED <<exists, version, bookId, legacySeq, nextSeq, rows, accounts,
                 control>>

\* What follows mb_store_open: a new book is seeded at once, a server asks
\* whether there are accounts, the app goes on to serve its window.
OpenedUncounted(p) ==  \* slip: the server does not look for accounts
  Goto(p, IF run[p].creating THEN "seed" ELSE "serving")

Opened(p) ==
  Goto(p, IF run[p].creating THEN "seed"
          ELSE IF p \in Server THEN "count" ELSE "serving")

\* init_meta does the same with book_id, written by an autocommit statement.
FindBookNever(p) ==  \* slip: likewise
  /\ run[p].at = "identify"
  /\ Goto(p, "label")
  /\ Looks(p, "book")
  /\ UNCHANGED book

FindBook(p) ==
  /\ run[p].at = "identify"
  /\ IF bookId = NoId THEN Goto(p, "label") ELSE Opened(p)
  /\ Looks(p, "book")
  /\ UNCHANGED book

MintBook(p) ==
  /\ run[p].at = "label"
  /\ bookId' = p
  /\ Opened(p)
  /\ UNCHANGED <<exists, version, device, lamport, legacySeq, nextSeq, rows,
                 accounts, control>>
-----------------------------------------------------------------------------
\* book.onboard, called by the wizard of an open book.
Onboard(p, chart) ==
  /\ p \in App
  /\ run[p].at = "serving"
  /\ run' = [run EXCEPT ![p].at = "count", ![p].todo = chart]
  /\ UNCHANGED book

\* Only a book without accounts is seeded.
CountAny(p) ==  \* slip: seeds whatever is there
  /\ run[p].at = "count"
  /\ Goto(p, "seed")
  /\ Looks(p, "accounts")
  /\ UNCHANGED book

Count(p) ==
  /\ run[p].at = "count"
  /\ IF accounts = << >>
       THEN Goto(p, "seed") /\ Looks(p, "accounts")
       ELSE /\ run' = [run EXCEPT ![p].at = "serving", ![p].todo = << >>]
            /\ Looks(p, "controls")
  /\ UNCHANGED book

\* seed: one account, in mb_account_create's transaction ...
SeedAccount(p) ==
  /\ run[p].at = "seed"
  /\ run[p].todo # << >>
  /\ Stamp
  /\ accounts' = Append(accounts, Head(run[p].todo))
  /\ run' = IF Head(run[p].todo) \in Control
              THEN [run EXCEPT ![p].at = "record", ![p].seen = Len(accounts) + 1]
              ELSE [run EXCEPT ![p].todo = Tail(@)]
  /\ UNCHANGED <<exists, version, device, bookId, legacySeq, control>>

\* ... then record_system_meta, for a control account.
SeedRecord(p) ==
  /\ run[p].at = "record"
  /\ control' = [control EXCEPT ![Head(run[p].todo)] = run[p].seen]
  /\ run' = [run EXCEPT ![p].at = "seed", ![p].todo = Tail(@)]
  /\ UNCHANGED <<exists, version, device, bookId, lamport, legacySeq, nextSeq,
                 rows, accounts>>

\* The chart is complete; mb_book_create's caller then opens the book, which
\* finds nothing left to do.
SeedDone(p) ==
  /\ run[p].at = "seed"
  /\ run[p].todo = << >>
  /\ run' = [run EXCEPT ![p].at = "serving", ![p].creating = FALSE]
  /\ UNCHANGED book

\* A write of the seed fails: the server warns and serves, book.onboard returns
\* the error, mb_book_create closes the book.
SeedFails(p) ==
  /\ Faults
  /\ run[p].at \in AtWork
  /\ IF run[p].creating
       THEN Stop(p)
       ELSE run' = [run EXCEPT ![p].at = "serving", ![p].todo = << >>]
  /\ faulted' = faulted \cup {"seeding"}
  /\ UNCHANGED <<book, raced>>

\* Any other row an open process writes.
Write(p) ==
  /\ run[p].at = "serving"
  /\ Len(rows) < MaxRows
  /\ Stamp
  /\ UNCHANGED <<exists, version, device, bookId, legacySeq, accounts, control,
                 run>>

\* The process quits, or dies between two of its statements.
Quit(p) ==
  /\ run[p].at # "closed"
  /\ run[p].at # "serving" => Faults
  /\ faulted' = faulted \cup (CASE run[p].at = "serving"   -> {}
                             [] run[p].at \in AtWork     -> {"seeding"}
                             [] OTHER                    -> {"opening"})
  /\ Stop(p)
  /\ UNCHANGED <<book, raced>>
-----------------------------------------------------------------------------
\* No file, or a book of an older build with two rows and its chart.
NoBook ==
  /\ exists = FALSE /\ version = 0
  /\ device = NoId /\ bookId = NoId
  /\ lamport = 0 /\ legacySeq = 0
  /\ rows = << >> /\ accounts = << >>
  /\ control = [c \in Control |-> 0]

OldBook ==
  /\ exists = TRUE /\ version \in OldVersions
  /\ device = Old /\ bookId = NoId
  /\ lamport = Len(Full) /\ legacySeq = Len(Full) + 1
  /\ rows = [i \in DOMAIN Full |-> [dev |-> Old, seq |-> i, lamport |-> i]]
  /\ accounts = Full
  /\ control = [c \in Control |-> CHOOSE i \in DOMAIN Full : Full[i] = c]

Init ==
  /\ NoBook \/ OldBook
  /\ raced = {}
  /\ faulted = {}
  /\ nextSeq = [i \in Id |-> 1]
  /\ run = [p \in Opener |-> Stopped]

\* What a process does by itself once it has begun to open the book.
Step(p) ==
  \/ /\ \/ CreateBook(p) \/ Migrate(p) \/ MigrateStale(p)
        \/ MintDevice(p) \/ MintBook(p)
        \/ SeedAccount(p) \/ SeedRecord(p) \/ SeedDone(p)
     /\ UNCHANGED history
  \/ /\ FindDevice(p) \/ FindBook(p) \/ Count(p)
     /\ UNCHANGED faulted

\* What users do, and what goes wrong.
Event(p) ==
  \/ OpenBook(p)
  \/ p \in App /\ \E chart \in {Full, SystemOnly} : Probe(p, chart)
  \/ /\ Write(p) \/ (p \in App /\ \E chart \in {Full, SystemOnly} : Onboard(p, chart))
     /\ UNCHANGED history
  \/ SeedFails(p) \/ Quit(p)

Next == \E p \in Opener : Step(p) \/ Event(p)

\* A running process is scheduled; users and faults owe nothing.
Spec == Init /\ [][Next]_vars /\ \A p \in Opener : WF_vars(Step(p))
-----------------------------------------------------------------------------
Place == {"closed", "probed", "migrate", "mint", "identify", "label", "count",
          "seed", "record", "serving"}

\* Type invariant.
TypeOK ==
  /\ exists \in BOOLEAN
  /\ version \in 0..Latest
  /\ device \in Id \cup {NoId}
  /\ bookId \in Id \cup {NoId}
  /\ lamport \in Nat
  /\ legacySeq \in Nat
  /\ nextSeq \in [Id -> Nat]
  /\ rows \in Seq([dev : Id, seq : Nat, lamport : Nat])
  /\ DOMAIN control = Control
  /\ \A c \in Control : control[c] \in 0..Len(accounts)
  /\ \A p \in Opener : run[p].at \in Place
  /\ raced \subseteq Parts /\ faulted \subseteq {"opening", "seeding"}

\* What a book has been given it keeps.  The schema version never goes down,
\* although a process that read it long ago writes "what I read, plus one"
\* (migrate); and the identity is never replaced, unless a process found it
\* missing while another was about to write it (init_meta reads in one statement
\* that it is missing and writes it in another).
IdentityStable ==
  [][/\ version' >= version
     /\ device # NoId /\ "device" \notin raced => device' = device
     /\ bookId # NoId /\ "book" \notin raced => bookId' = bookId]_vars

\* Two rows never carry the same (device, seq), across migrations, restarts and
\* whoever minted the device id.
StampsUnique ==
  \A i, j \in DOMAIN rows :
    rows[i].dev = rows[j].dev /\ rows[i].seq = rows[j].seq => i = j

\* The clock of the book only runs forward: rows committed later carry a later
\* lamport (mb_store_next_stamp), however often and by whomever the book is
\* opened, unless two processes found the device id missing, each of which then
\* writes lamport 0 (init_meta).
ClockForward ==
  "device" \notin raced =>
    \A i, j \in DOMAIN rows : i < j => rows[i].lamport < rows[j].lamport

\* No account of the chart is seeded twice, whichever callers of seed there
\* were, whatever was interrupted and whoever created the file after
\* mb_book_create had probed for it, unless a process found no accounts (or no
\* file) while another was between finding that and the end of its seeding.
SeededOnce ==
  "accounts" \notin raced =>
    \A i, j \in DOMAIN accounts : accounts[i] = accounts[j] => i = j

\* A recorded control account is the account of that code, even when two
\* processes seed at once (seed, record_system_meta).
ControlsResolve ==
  \A c \in Control : control[c] # 0 => accounts[control[c]] = c

\* A server answers calls only on a book whose control accounts are recorded,
\* unless a seeding was interrupted, or a process found accounts while another
\* was still seeding them: a chart that was begun is never taken up again.
ServedWithControls ==
  "seeding" \notin faulted /\ "controls" \notin raced =>
    \A p \in Server : run[p].at = "serving" => \A c \in Control : control[c] # 0

\* The book is well formed and its control accounts are found by those who look
\* them up (mb_invoice_issue, mb_payment_record).
BookConsistent == TypeOK /\ ControlsResolve /\ ServedWithControls

\* Processes that open the book at the same time may make each other fail, but
\* never all of them: once one has read the current version, and nothing else
\* goes wrong, one gets it open.
SomeoneServes ==
  (\E p \in Opener : run[p].at # "closed" /\ run[p].seen = version)
    ~> (faulted # {} \/ \E p \in Opener : run[p].at = "serving")
=============================================================================
