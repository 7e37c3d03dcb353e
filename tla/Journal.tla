------------------------------ MODULE Journal ------------------------------
(***************************************************************************)
(* The append-only journal of a Money Books book, replicated on devices.   *)
(*                                                                         *)
(* Each device holds a copy of the same book (one SQLite file).  A local   *)
(* post, reversal or insert of any other synchronised row runs in one      *)
(* BEGIN IMMEDIATE transaction and draws a stamp (seq, lamport) from       *)
(* mb_store_next_stamp; a journal entry is also chained, by content hash,  *)
(* to the previous entry of its device.  mb_journal_apply_remote replays   *)
(* an entry of another device verbatim after checking it.  The sync layer  *)
(* that would call it is not in the repository: here any entry held by one *)
(* replica may be delivered to another, in any order and repeatedly.       *)
(*                                                                         *)
(* Abstractions.  SHA-256 is injective: a hash IS the tuple of what it is  *)
(* computed from.  The entry's uuid is identified with its hash (both are  *)
(* unique per entry), so "have it, by hash or by id" is one test.  The     *)
(* rows of journal_entry are immutable but for status; the set of hashes   *)
(* whose row says REVERSED is kept apart in "reversed".                    *)
(***************************************************************************)
EXTENDS Integers, Sequences, FiniteSets, Functions

CONSTANTS
  Device,       \* the devices that hold a replica of the book
  Account,      \* accounts, present on every replica
  Archivable,   \* the accounts account.set_active is called on
  Submitted,    \* the posting lists callers hand to mb_journal_post
  OtherTables,  \* do rows of other tables (account, invoice, ...) draw stamps?
  MaxSeq        \* bound: device d draws at most MaxSeq[d] stamps

\* mb_money_add bounds amounts; the model keeps the integers unbounded.
Posting == [account : Account, amount : Int]

ASSUME ArchivableAssumption == Archivable \subseteq Account
ASSUME SubmittedAssumption == Submitted \subseteq Seq(Posting)
ASSUME OtherTablesAssumption == OtherTables \in BOOLEAN
ASSUME MaxSeqAssumption == MaxSeq \in [Device -> Nat]

VARIABLES
  entries,   \* journal_entry + posting: device -> set of immutable rows
  reversed,  \* device -> hashes of the rows whose status is 'REVERSED'
  active,    \* account.is_active: device -> set of active accounts
  nextSeq,   \* book_meta next_seq:<device>, on the device itself
  lamport,   \* book_meta lamport, book-wide logical clock of the replica
  lastHash   \* book_meta last_hash:<device>, on the device itself

vars == <<entries, reversed, active, nextSeq, lamport, lastHash>>
-----------------------------------------------------------------------------
\* No predecessor (prev_hash NULL), or no entry reversed (reverses_id NULL).
NoHash == << >>

\* compute_content_hash: a canonical serialisation of the entry's identity and
\* postings.  The reversal's memo names the entry it reverses.
ContentHash(dev, seq, lam, prev, rev, ps) == <<dev, seq, lam, prev, rev, ps>>

Entry(dev, seq, lam, prev, rev, ps) ==
  [dev |-> dev, seq |-> seq, lamport |-> lam, prev |-> prev, reverses |-> rev,
   postings |-> ps, hash |-> ContentHash(dev, seq, lam, prev, rev, ps)]

\* The hash of the entry's own fields, which the receiver recomputes.
Recomputed(e) ==
  ContentHash(e.dev, e.seq, e.lamport, e.prev, e.reverses, e.postings)

SumOf(ps) == SumFunction([i \in DOMAIN ps |-> ps[i].amount])

Negated(ps) == [i \in DOMAIN ps |-> [ps[i] EXCEPT !.amount = -@]]

\* The checks post_core and mb_journal_apply_remote_tx share: at least two
\* postings, summing to zero, on accounts that exist and are active.
Admissible(d, ps) ==
  /\ Len(ps) >= 2
  /\ SumOf(ps) = 0
  /\ \A i \in DOMAIN ps : ps[i].account \in active[d]

Own(d) == {e \in entries[d] : e.dev = d}
Hashes(d) == {e.hash : e \in entries[d]}
-----------------------------------------------------------------------------
\* mb_store_next_stamp, inside the caller's transaction.
NextStampKeepsSeq(d) ==  \* slip: next_seq is read but not written back
  /\ lamport' = [lamport EXCEPT ![d] = @ + 1]
  /\ UNCHANGED nextSeq

NextStamp(d) ==
  /\ nextSeq' = [nextSeq EXCEPT ![d] = @ + 1]
  /\ lamport' = [lamport EXCEPT ![d] = @ + 1]

\* The entry post_core builds on device d.
NewEntryNoPrev(d, rev, ps) ==  \* slip: last_hash is not looked up
  Entry(d, nextSeq[d], lamport[d] + 1, NoHash, rev, ps)

NewEntry(d, rev, ps) ==
  Entry(d, nextSeq[d], lamport[d] + 1, lastHash[d], rev, ps)

PostCore(d, rev, ps) ==
  /\ nextSeq[d] <= MaxSeq[d]
  /\ Admissible(d, ps)
  /\ NextStamp(d)
  /\ entries' = [entries EXCEPT ![d] = @ \cup {NewEntry(d, rev, ps)}]
  /\ lastHash' = [lastHash EXCEPT ![d] = NewEntry(d, rev, ps).hash]

\* mb_journal_post and mb_journal_post_tx.
Post(d, ps) ==
  /\ PostCore(d, NoHash, ps)
  /\ UNCHANGED <<reversed, active>>

\* mb_journal_reverse.  Nothing asks whether e is reversed already.  Callers
\* (void of an invoice or bill) name the entry a document was issued with,
\* never a reversal.
Reverse(d, e) ==
  /\ e \in entries[d]
  /\ e.reverses = NoHash
  /\ PostCore(d, e.hash, Negated(e.postings))
  /\ reversed' = [reversed EXCEPT ![d] = @ \cup {e.hash}]
  /\ UNCHANGED active

\* A row of account, item, counterparty, invoice, bill, payment or allocation
\* takes a stamp from the same counter.
InsertOther(d) ==
  /\ OtherTables
  /\ nextSeq[d] <= MaxSeq[d]
  /\ NextStamp(d)
  /\ UNCHANGED <<entries, reversed, active, lastHash>>

\* mb_account_set_active.
SetActive(d, a) ==
  /\ \/ active' = [active EXCEPT ![d] = @ \cup {a}]
     \/ active' = [active EXCEPT ![d] = @ \ {a}]
  /\ UNCHANGED <<entries, reversed, nextSeq, lamport, lastHash>>

\* The chain check: a predecessor, when there is one, is held and is the entry
\* that carries the sequence number just below.
ChainedUnchecked(d, e) ==  \* slip: any held row of the device will do
  e.prev # NoHash => \E q \in entries[d] : q.dev = e.dev

ChainedSameSeq(d, e) ==  \* slip: looks up seq instead of seq - 1
  e.prev # NoHash =>
    \E q \in entries[d] : q.dev = e.dev /\ q.seq = e.seq /\ q.hash = e.prev

Chained(d, e) ==
  e.prev # NoHash =>
    \E q \in entries[d] : q.dev = e.dev /\ q.seq = e.seq - 1 /\ q.hash = e.prev

\* Every condition under which mb_journal_apply_remote_tx inserts an entry it
\* does not hold; the last is the foreign key on reverses_id.
Acceptable(d, e) ==
  /\ Admissible(d, e.postings)
  /\ e.hash = Recomputed(e)
  /\ Chained(d, e)
  /\ e.reverses # NoHash => e.reverses \in Hashes(d)

\* The row whose status an applied entry turns to REVERSED, if any.
ReversalFlagSelf(e) ==               \* slip: flags the reversal itself
  IF e.reverses = NoHash THEN {} ELSE {e.hash}
ReversalFlag(e) == {e.reverses} \ {NoHash}

\* The book-wide clock observes the clock of an applied entry.
ObserveNothing(d, lam) == UNCHANGED lamport  \* slip: the clock stays local
Observe(d, lam) ==
  lamport' = [lamport EXCEPT ![d] = IF lam > @ THEN lam ELSE @]

\* mb_journal_apply_remote of an entry held by replica "from", shipped with the
\* status its row has there.  An entry already held is a no-op, a rejected one
\* changes nothing: neither is a step.
Apply(d, from, e) ==
  /\ e \in entries[from]
  /\ e.hash \notin Hashes(d)
  /\ Acceptable(d, e)
  /\ entries' = [entries EXCEPT ![d] = @ \cup {e}]
  /\ reversed' = [reversed EXCEPT ![d] =
                    @ \cup ({e.hash} \cap reversed[from]) \cup ReversalFlag(e)]
  /\ Observe(d, e.lamport)
  /\ UNCHANGED <<active, nextSeq, lastHash>>
-----------------------------------------------------------------------------
Init ==
  /\ entries = [d \in Device |-> {}]
  /\ reversed = [d \in Device |-> {}]
  /\ active = [d \in Device |-> Account]
  /\ nextSeq = [d \in Device |-> 1]
  /\ lamport = [d \in Device |-> 0]
  /\ lastHash = [d \in Device |-> NoHash]

Next ==
  \E d \in Device :
    \/ \E ps \in Submitted : Post(d, ps)
    \/ \E e \in entries[d] : Reverse(d, e)
    \/ InsertOther(d)
    \/ \E a \in Archivable : SetActive(d, a)
    \/ \E from \in Device \ {d} : \E e \in entries[from] : Apply(d, from, e)

Spec == Init /\ [][Next]_vars
-----------------------------------------------------------------------------
\* A row as some device minted it: its hash is the hash of its fields.
WellFormed(e) ==
  /\ e.dev \in Device
  /\ e.seq \in Nat
  /\ e.lamport \in Nat
  /\ e.postings \in Seq(Posting)
  /\ e = Entry(e.dev, e.seq, e.lamport, e.prev, e.reverses, e.postings)

\* Type invariant: every row is well formed, flags name rows of the replica,
\* and last_hash is empty or the hash of a row of the device itself.
TypeOK ==
  /\ DOMAIN entries = Device
  /\ \A d \in Device : \A e \in entries[d] : WellFormed(e)
  /\ DOMAIN reversed = Device
  /\ \A d \in Device : reversed[d] \subseteq Hashes(d)
  /\ active \in [Device -> SUBSET Account]
  /\ nextSeq \in [Device -> Nat]
  /\ lamport \in [Device -> Nat]
  /\ DOMAIN lastHash = Device
  /\ \A d \in Device : lastHash[d] \in {NoHash} \cup {e.hash : e \in Own(d)}

\* A stamp (device, seq) names one entry, and the same one on every replica
\* that holds it: replaying never forks history and (lamport, device, seq) is
\* a total order on which all devices agree (mb_store_next_stamp).
OneEntryPerStamp ==
  \A a, b \in Device : \A x \in entries[a], y \in entries[b] :
    x.dev = y.dev /\ x.seq = y.seq => x = y

\* No two entries of a device claim the same predecessor: the hash chain kept
\* in last_hash:<device> is a line and not a tree, on every replica.
NoFork ==
  \A d \in Device : \A x, y \in entries[d] :
    x.dev = y.dev /\ x.prev = y.prev => x = y

\* What a replica holds of another device's log has no hole: with an entry it
\* holds every earlier one of the same device.  It is what lets one number per
\* device, its highest seq, describe everything held (the chain check of
\* mb_journal_apply_remote_tx, without any sequence number of its own).
PrefixHeld ==
  \A d, x \in Device : \A e \in entries[d] : \A q \in Own(x) :
    e.dev = x /\ q.seq < e.seq => q \in entries[d]

\* A reversal is never held without its target, and the target's row then says
\* REVERSED (mb_journal_reverse and the last lines of apply_remote).
ReversalFlagsTarget ==
  \A d \in Device : \A e \in entries[d] :
    e.reverses # NoHash => e.reverses \in reversed[d]

\* No row is flagged REVERSED unless a reversal of it exists on some replica.
FlagBacked ==
  \A d \in Device : \A h \in reversed[d] :
    \E a \in Device : \E r \in entries[a] : r.reverses = h

\* The lamport clock covers everything the replica has seen ...
LamportCovers ==
  \A d \in Device : \A e \in entries[d] : e.lamport <= lamport[d]

\* ... so an entry minted on a device sorts strictly after every entry the
\* device held at that moment, its own and the replayed ones.
MintedAfterHeld ==
  [][\A d \in Device : \A e \in entries'[d] \ entries[d] :
       e.dev = d => \A q \in entries[d] : q.lamport < e.lamport]_vars

\* Replicas can catch up on devices that draw stamps for entries alone: while
\* one holds entries another lacks, none behind a gap in seq and no account
\* archived there, at least one of them is acceptable, so synchronising never
\* deadlocks on predecessors and reversed entries waiting for each other.
Consecutive(e) ==
  e.prev # NoHash => \E q \in Own(e.dev) : q.hash = e.prev /\ q.seq = e.seq - 1
NeverStuck ==
  \A a, d \in Device :
    LET missing == entries[a] \ entries[d]
    IN  missing # {} /\ active[d] = Account /\ (\A e \in missing : Consecutive(e))
          => \E e \in missing : Acceptable(d, e)

\* PHASE7_SYNC: entries are shipped in seq order, so the predecessor is never
\* missing.  An entry all of whose predecessors in its device's log are held,
\* and whose accounts and reversed entry are there, must be acceptable.
InOrderIsAccepted ==
  \A a, d \in Device : \A e \in entries[a] :
    /\ e \notin entries[d]
    /\ Admissible(d, e.postings)
    /\ e.reverses # NoHash => e.reverses \in Hashes(d)
    /\ \A q \in entries[a] : q.dev = e.dev /\ q.seq < e.seq => q \in entries[d]
    => Acceptable(d, e)

\* PHASE7_SYNC: REVERSED is derived by applying a reversal; a row's status is
\* never trusted off the wire.
FlagDerivedLocally ==
  \A d \in Device : \A h \in reversed[d] :
    \E r \in entries[d] : r.reverses = h
-----------------------------------------------------------------------------
\* Parts of the inductive invariant.  An entry anywhere is an entry of the
\* device that minted it.
Provenance == \A d \in Device : \A e \in entries[d] : e \in entries[e.dev]

\* A device has used each of its sequence numbers below next_seq at most once.
OwnStamps ==
  \A d \in Device : \A x \in Own(d) :
    /\ x.seq < nextSeq[d]
    /\ \A y \in Own(d) : x.seq = y.seq => x = y

\* last_hash:<device> is the hash of the device's latest entry.
LastHashIsLatest ==
  \A d \in Device :
    /\ lastHash[d] = NoHash => Own(d) = {}
    /\ \A x, q \in Own(d) : x.hash = lastHash[d] => q.seq <= x.seq

\* An entry without predecessor is its device's first; any other names the one
\* that comes just before it, however many other stamps lie between the two.
OwnChain ==
  \A d \in Device : \A x \in Own(d) :
    IF x.prev = NoHash
      THEN \A q \in Own(d) : x.seq <= q.seq
      ELSE \E p \in Own(d) :
             /\ p.hash = x.prev
             /\ p.seq < x.seq
             /\ \A q \in Own(d) : q.seq < x.seq => q.seq <= p.seq

\* The inductive invariant behind the journal's guarantees: each device's own
\* rows form one chain in seq order that ends at last_hash, and what the other
\* replicas hold of it are prefixes.
IndInv ==
  /\ TypeOK
  /\ Provenance
  /\ OwnStamps
  /\ LastHashIsLatest
  /\ OwnChain
  /\ LamportCovers
  /\ PrefixHeld
  /\ ReversalFlagsTarget

\* Every row held passed post_core's checks on some device: two legs or more,
\* summing to zero.
Balanced ==
  \A d \in Device : \A e \in entries[d] : Len(e.postings) >= 2 /\ SumOf(e.postings) = 0

\* The clock runs along each device's log, and from an entry to its reversal.
ClockAlongLog ==
  \A d \in Device : \A x, q \in Own(d) : q.seq < x.seq => q.lamport < x.lamport
TargetsEarlier ==
  \A d \in Device : \A e, t \in entries[d] :
    t.hash = e.reverses => t.lamport < e.lamport

\* What an entry waits for is earlier by the clock, so of the entries a replica
\* lacks the earliest waits for none of the others.
WaitsForEarlier == Balanced /\ ClockAlongLog /\ TargetsEarlier
-----------------------------------------------------------------------------
(* The refinement mapping under which the replicas implement DeviceLogs *)

\* A set of one device's rows in the order of their sequence numbers.
UpTo(S, e) == {q \in S : q.seq <= e.seq}
LogOf(S) == [k \in 1 .. Cardinality(S) |-> CHOOSE e \in S : Cardinality(UpTo(S, e)) = k]

\* How much of x's log replica d holds; -1 when what it holds is no prefix.
HeldRows(d, x) == {e \in entries[d] : e.dev = x}
Held(d, x) ==
  LET n == Cardinality(HeldRows(d, x))
  IN  IF n <= Len(LogOf(Own(x))) /\ HeldRows(d, x) = {LogOf(Own(x))[i] : i \in 1 .. n}
        THEN n ELSE -1

AllLogs == [x \in Device |-> LogOf(Own(x))]
AllHeld == [d \in Device |-> [x \in Device |-> Held(d, x)]]
Logs == INSTANCE DeviceLogs WITH log <- AllLogs, known <- AllHeld

\* The replicated journal is a set of per-device logs of which every replica
\* holds a prefix: each post appends to the device's own log, each replayed
\* entry extends one known prefix by exactly the next item, and nothing else
\* (status flags, clocks, archived accounts) disturbs that.
ImplementsDeviceLogs == Logs!LogSpec
=============================================================================
