--------------------------- MODULE JournalProofs ---------------------------
(***************************************************************************)
(* What the replicated journal guarantees, for any set of devices, any     *)
(* accounts, any submissions and any bounds.  Every step of Journal is one *)
(* of three kinds: a device mints an entry of its own, a replica takes     *)
(* over an entry of another device, or no entry is added at all.  The      *)
(* inductive invariant is proved for each kind.                            *)
(***************************************************************************)
EXTENDS Journal, FiniteSetTheorems, WellFoundedInduction, TLAPS

\* A device appends a well-formed entry, stamped and chained, to its own rows.
Minted(d, rev, ps) ==
  /\ d \in Device
  /\ ps \in Seq(Posting)
  /\ Admissible(d, ps)
  /\ nextSeq' = [nextSeq EXCEPT ![d] = @ + 1]
  /\ lamport' = [lamport EXCEPT ![d] = @ + 1]
  /\ entries' = [entries EXCEPT ![d] = @ \cup {NewEntry(d, rev, ps)}]
  /\ lastHash' = [lastHash EXCEPT ![d] = NewEntry(d, rev, ps).hash]

\* A replica takes over an entry of another device, its chain checked.
TakenOver(d, from, e) ==
  /\ d \in Device
  /\ from \in Device
  /\ Apply(d, from, e)

\* No entry is added, and no counter goes back.
Quiet ==
  /\ UNCHANGED <<entries, lastHash, reversed>>
  /\ active' \in [Device -> SUBSET Account]
  /\ nextSeq' \in [Device -> Nat]
  /\ lamport' \in [Device -> Nat]
  /\ \A d \in Device : nextSeq[d] <= nextSeq'[d] /\ lamport[d] <= lamport'[d]
-----------------------------------------------------------------------------
\* Rows with one hash are one row: the hash determines every field.
LEMMA HashDetermines ==
  ASSUME NEW x, NEW y, WellFormed(x), WellFormed(y), x.hash = y.hash
  PROVE  x = y
<1>1. x.hash = <<x.dev, x.seq, x.lamport, x.prev, x.reverses, x.postings>>
  BY DEF WellFormed, Entry, ContentHash
<1>2. y.hash = <<y.dev, y.seq, y.lamport, y.prev, y.reverses, y.postings>>
  BY DEF WellFormed, Entry, ContentHash
<1>3. /\ x.dev = y.dev /\ x.seq = y.seq /\ x.lamport = y.lamport
      /\ x.prev = y.prev /\ x.reverses = y.reverses /\ x.postings = y.postings
  <2>1. /\ x.hash[1] = x.dev /\ x.hash[2] = x.seq /\ x.hash[3] = x.lamport
        /\ x.hash[4] = x.prev /\ x.hash[5] = x.reverses /\ x.hash[6] = x.postings
    BY <1>1
  <2>2. /\ y.hash[1] = y.dev /\ y.hash[2] = y.seq /\ y.hash[3] = y.lamport
        /\ y.hash[4] = y.prev /\ y.hash[5] = y.reverses /\ y.hash[6] = y.postings
    BY <1>2
  <2> QED
    BY <2>1, <2>2
<1> QED
  BY <1>3 DEF WellFormed

\* The hash of a row is never the empty one.
LEMMA HashIsSome ==
  ASSUME NEW x, WellFormed(x)
  PROVE  x.hash # NoHash
<1>1. x.hash = <<x.dev, x.seq, x.lamport, x.prev, x.reverses, x.postings>>
  BY DEF WellFormed, Entry, ContentHash
<1> QED
  BY <1>1 DEF NoHash

\* A posting list negated is a posting list.
LEMMA NegatedType ==
  ASSUME NEW ps \in Seq(Posting)
  PROVE  Negated(ps) \in Seq(Posting)
<1>1. PICK n \in Nat : ps \in [1..n -> Posting]
  BY Z3
<1>2. \A i \in 1..n : [ps[i] EXCEPT !.amount = -@] \in Posting
  BY <1>1 DEF Posting
<1>3. Negated(ps) \in [1..n -> Posting]
  BY <1>1, <1>2 DEF Negated
<1> QED
  BY <1>3

\* The entry a device builds is a well-formed row with the device's stamp.
LEMMA NewEntryFields ==
  ASSUME TypeOK, NEW d \in Device, NEW rev, NEW ps \in Seq(Posting)
  PROVE  LET e == NewEntry(d, rev, ps)
         IN  /\ WellFormed(e)
             /\ e.dev = d
             /\ e.seq = nextSeq[d]
             /\ e.lamport = lamport[d] + 1
             /\ e.prev = lastHash[d]
             /\ e.reverses = rev
BY DEF TypeOK, NewEntry, Entry, WellFormed

\* Every step is of one of the three kinds.
LEMMA StepKinds ==
  ASSUME TypeOK, [Next]_vars
  PROVE  \/ \E d, rev, ps :
              /\ Minted(d, rev, ps)
              /\ UNCHANGED active
              /\ \/ rev = NoHash /\ UNCHANGED reversed
                 \/ /\ rev \in Hashes(d)
                    /\ reversed' = [reversed EXCEPT ![d] = @ \cup {rev}]
         \/ \E d, from, e : TakenOver(d, from, e)
         \/ Quiet
<1>1. ASSUME NEW d \in Device, NEW ps \in Submitted, Post(d, ps)
      PROVE  Minted(d, NoHash, ps) /\ UNCHANGED <<active, reversed>>
  BY <1>1, SubmittedAssumption DEF Post, PostCore, NextStamp, Minted
<1>2. ASSUME NEW d \in Device, NEW e \in entries[d], Reverse(d, e)
      PROVE  /\ Minted(d, e.hash, Negated(e.postings))
             /\ UNCHANGED active
             /\ e.hash \in Hashes(d)
             /\ reversed' = [reversed EXCEPT ![d] = @ \cup {e.hash}]
  <2>1. Negated(e.postings) \in Seq(Posting)
    BY NegatedType DEF TypeOK, WellFormed
  <2> QED
    BY <1>2, <2>1 DEF Reverse, PostCore, NextStamp, Minted, Hashes
<1>3. ASSUME NEW d \in Device, InsertOther(d)
      PROVE  Quiet
  BY <1>3 DEF InsertOther, NextStamp, Quiet, TypeOK
<1>4. ASSUME NEW d \in Device, NEW a \in Archivable, SetActive(d, a)
      PROVE  Quiet
  BY <1>4, ArchivableAssumption DEF SetActive, Quiet, TypeOK
<1>5. ASSUME NEW d \in Device, NEW from \in Device \ {d}, NEW e \in entries[from],
             Apply(d, from, e)
      PROVE  TakenOver(d, from, e)
  BY <1>5 DEF TakenOver
<1>6. ASSUME UNCHANGED vars
      PROVE  Quiet
  BY <1>6 DEF vars, Quiet, TypeOK
<1> QED
  BY <1>1, <1>2, <1>3, <1>4, <1>5, <1>6 DEF Next
-----------------------------------------------------------------------------
\* Minting touches the rows of one device only, and its new row is the latest.
LEMMA MintedRows ==
  ASSUME TypeOK, OwnStamps, LamportCovers,
         NEW d, NEW rev, NEW ps, Minted(d, rev, ps),
         NEW new, new = NewEntry(d, rev, ps)
  PROVE  /\ d \in Device
         /\ WellFormed(new) /\ new.dev = d /\ new.prev = lastHash[d]
         /\ new.reverses = rev /\ new.seq = nextSeq[d]
         /\ entries'[d] = entries[d] \cup {new}
         /\ \A x \in Device \ {d} : entries'[x] = entries[x] /\ Own(x)' = Own(x)
         /\ Own(d)' = Own(d) \cup {new}
         /\ \A q \in Own(d) : q.seq < new.seq
         /\ \A q \in entries[d] : q.lamport < new.lamport
         /\ lastHash'[d] = new.hash
         /\ \A x \in Device \ {d} : lastHash'[x] = lastHash[x]
<1>1. d \in Device /\ ps \in Seq(Posting)
  BY DEF Minted
<1>2. /\ WellFormed(new) /\ new.dev = d /\ new.prev = lastHash[d]
      /\ new.reverses = rev /\ new.seq = nextSeq[d] /\ new.lamport = lamport[d] + 1
  BY <1>1, NewEntryFields
<1>3. /\ entries'[d] = entries[d] \cup {new}
      /\ \A x \in Device \ {d} : entries'[x] = entries[x]
      /\ lastHash'[d] = new.hash
      /\ \A x \in Device \ {d} : lastHash'[x] = lastHash[x]
  BY <1>1 DEF Minted, TypeOK
<1>4. /\ \A x \in Device \ {d} : Own(x)' = Own(x)
      /\ Own(d)' = Own(d) \cup {new}
  BY <1>1, <1>2, <1>3 DEF Own
<1>5. \A q \in Own(d) : q.seq < new.seq
  BY <1>1, <1>2 DEF OwnStamps
<1>6. \A q \in entries[d] : q.lamport < new.lamport
  BY <1>1, <1>2 DEF LamportCovers, TypeOK, WellFormed
<1> QED
  BY <1>1, <1>2, <1>3, <1>4, <1>5, <1>6

\* A replica only takes over rows of other devices, which stay as they were.
LEMMA TakenOverRows ==
  ASSUME TypeOK, Provenance, NEW d, NEW from, NEW e, TakenOver(d, from, e)
  PROVE  /\ d \in Device /\ from \in Device
         /\ WellFormed(e) /\ e \in entries[from] /\ e \in Own(e.dev) /\ e.dev # d
         /\ entries'[d] = entries[d] \cup {e}
         /\ \A x \in Device \ {d} : entries'[x] = entries[x]
         /\ \A x \in Device : Own(x)' = Own(x)
<1>1. /\ d \in Device /\ from \in Device /\ e \in entries[from]
      /\ e.hash \notin Hashes(d)
      /\ entries'[d] = entries[d] \cup {e}
      /\ \A x \in Device \ {d} : entries'[x] = entries[x]
  BY DEF TakenOver, Apply, TypeOK
<1>2. WellFormed(e) /\ e \in Own(e.dev)
  BY <1>1 DEF TypeOK, Provenance, Own
<1>3. e.dev # d
  BY <1>1, <1>2 DEF Own, Hashes
<1>4. \A x \in Device : Own(x)' = Own(x)
  BY <1>1, <1>3 DEF Own
<1> QED
  BY <1>1, <1>2, <1>3, <1>4
-----------------------------------------------------------------------------
\* The invariant holds of the empty book.
LEMMA InitInv == Init => IndInv
BY DEF Init, IndInv, TypeOK, Provenance, OwnStamps, LastHashIsLatest, OwnChain,
       LamportCovers, PrefixHeld, ReversalFlagsTarget, Own, Hashes

\* Minting an entry, alone or as a reversal that flags its target.
LEMMA MintedPreserves ==
  ASSUME IndInv, NEW d, NEW rev, NEW ps, Minted(d, rev, ps), UNCHANGED active,
         \/ rev = NoHash /\ UNCHANGED reversed
         \/ rev \in Hashes(d) /\ reversed' = [reversed EXCEPT ![d] = @ \cup {rev}]
  PROVE  IndInv'
<1> DEFINE new == NewEntry(d, rev, ps)
<1> USE DEF IndInv
<1>1. /\ d \in Device
      /\ WellFormed(new) /\ new.dev = d /\ new.prev = lastHash[d]
      /\ new.reverses = rev /\ new.seq = nextSeq[d]
      /\ entries'[d] = entries[d] \cup {new}
      /\ \A x \in Device \ {d} : entries'[x] = entries[x] /\ Own(x)' = Own(x)
      /\ Own(d)' = Own(d) \cup {new}
      /\ \A q \in Own(d) : q.seq < new.seq
      /\ \A q \in entries[d] : q.lamport < new.lamport
      /\ lastHash'[d] = new.hash
      /\ \A x \in Device \ {d} : lastHash'[x] = lastHash[x]
  BY MintedRows
<1>2. /\ \A x \in Device : \A q \in Own(x) : WellFormed(q) /\ q \in entries[x]
      /\ \A x \in Device : \A q \in entries[x] : WellFormed(q) /\ q \in Own(q.dev)
  BY DEF TypeOK, Own, Provenance
<1>3. /\ \A x \in Device : nextSeq[x] \in Nat /\ lamport[x] \in Nat
      /\ nextSeq'[d] = nextSeq[d] + 1 /\ lamport'[d] = lamport[d] + 1
      /\ \A x \in Device \ {d} : nextSeq'[x] = nextSeq[x] /\ lamport'[x] = lamport[x]
      /\ new.lamport = lamport[d] + 1
  BY <1>1, NewEntryFields DEF TypeOK, Minted
<1> HIDE DEF new, IndInv
<1>4. TypeOK'
  <2>1. DOMAIN entries' = Device /\ \A x \in Device : \A q \in entries'[x] : WellFormed(q)
    BY <1>1, <1>2 DEF IndInv, TypeOK, Minted
  <2>2. \A x \in Device : Hashes(x) \subseteq Hashes(x)'
    BY <1>1 DEF Hashes
  <2>3. DOMAIN reversed' = Device /\ \A x \in Device : reversed'[x] \subseteq Hashes(x)'
    BY <1>1, <2>2 DEF IndInv, TypeOK
  <2>4. active' \in [Device -> SUBSET Account]
    BY DEF IndInv, TypeOK
  <2>5. nextSeq' \in [Device -> Nat] /\ lamport' \in [Device -> Nat]
    BY <1>1, <1>3 DEF IndInv, TypeOK, Minted
  <2>6. /\ DOMAIN lastHash' = Device
        /\ \A x \in Device : lastHash'[x] \in {NoHash} \cup {q.hash : q \in Own(x)'}
    BY <1>1 DEF IndInv, TypeOK, Minted
  <2> QED
    BY <2>1, <2>3, <2>4, <2>5, <2>6, Zenon DEF TypeOK, WellFormed
<1>5. Provenance'
  <2>1. \A x \in Device : entries[x] \subseteq entries'[x]
    BY <1>1
  <2>2. \A x \in Device : \A q \in entries[x] : q.dev \in Device /\ q \in entries[q.dev]
    BY <1>2 DEF WellFormed, Own
  <2> QED
    BY <1>1, <2>1, <2>2 DEF Provenance
<1>6. OwnStamps'
  <2> SUFFICES ASSUME NEW x \in Device, NEW q \in Own(x)'
               PROVE  q.seq < nextSeq'[x] /\ \A r \in Own(x)' : q.seq = r.seq => q = r
    BY DEF OwnStamps
  <2>1. CASE x = d
    <3>1. \A r \in Own(d) : r.seq < nextSeq[d] /\ r.seq \in Nat
                            /\ \A t \in Own(d) : r.seq = t.seq => r = t
      BY <1>1, <1>2 DEF IndInv, OwnStamps, WellFormed
    <3> QED
      BY <1>1, <1>3, <2>1, <3>1
  <2>2. CASE x # d
    BY <1>1, <1>3, <2>2 DEF IndInv, OwnStamps
  <2> QED
    BY <2>1, <2>2
<1>7. LastHashIsLatest'
  <2> SUFFICES ASSUME NEW x \in Device
               PROVE  /\ lastHash'[x] = NoHash => Own(x)' = {}
                      /\ \A r, q \in Own(x)' : r.hash = lastHash'[x] => q.seq <= r.seq
    BY DEF LastHashIsLatest
  <2>1. CASE x = d
    <3>1. lastHash'[d] # NoHash
      BY <1>1, HashIsSome
    <3>2. ASSUME NEW r \in Own(d)', NEW q \in Own(d)', r.hash = lastHash'[d]
          PROVE  q.seq <= r.seq
      <4>1. r = new
        BY <1>1, <1>2, <3>2, HashDetermines
      <4> QED
        BY <1>1, <1>2, <4>1 DEF WellFormed
    <3> QED
      BY <2>1, <3>1, <3>2
  <2>2. CASE x # d
    BY <1>1, <2>2 DEF IndInv, LastHashIsLatest
  <2> QED
    BY <2>1, <2>2
<1>8. OwnChain'
  <2> SUFFICES ASSUME NEW x \in Device, NEW r \in Own(x)'
               PROVE  IF r.prev = NoHash
                        THEN \A q \in Own(x)' : r.seq <= q.seq
                        ELSE \E p \in Own(x)' :
                               /\ p.hash = r.prev
                               /\ p.seq < r.seq
                               /\ \A q \in Own(x)' : q.seq < r.seq => q.seq <= p.seq
    BY DEF OwnChain
  <2>1. CASE x # d
    BY <1>1, <2>1 DEF IndInv, OwnChain
  <2>2. CASE x = d /\ r = new
    <3>1. CASE lastHash[d] = NoHash
      <4>1. Own(d) = {}
        BY <1>1, <3>1 DEF IndInv, LastHashIsLatest
      <4> QED
        BY <1>1, <2>2, <3>1, <4>1 DEF WellFormed
    <3>2. CASE lastHash[d] # NoHash
      <4>1. PICK p \in Own(d) : p.hash = lastHash[d]
        BY <1>1, <3>2 DEF IndInv, TypeOK
      <4>2. \A q \in Own(d) : q.seq <= p.seq
        BY <1>1, <4>1 DEF IndInv, LastHashIsLatest
      <4>3. p \in Own(d)' /\ p.hash = r.prev /\ p.seq < r.seq
        BY <1>1, <2>2, <4>1
      <4>4. \A q \in Own(d)' : q.seq < r.seq => q.seq <= p.seq
        BY <1>1, <2>2, <4>2 DEF WellFormed
      <4> QED
        BY <1>1, <2>2, <3>2, <4>3, <4>4
    <3> QED
      BY <3>1, <3>2
  <2>3. CASE x = d /\ r # new
    <3>1. r \in Own(d) /\ r.seq < new.seq /\ r.seq \in Nat /\ new.seq \in Nat
      BY <1>1, <1>2, <2>3 DEF WellFormed
    <3>2. IF r.prev = NoHash
            THEN \A q \in Own(d) : r.seq <= q.seq
            ELSE \E p \in Own(d) :
                   /\ p.hash = r.prev
                   /\ p.seq < r.seq
                   /\ \A q \in Own(d) : q.seq < r.seq => q.seq <= p.seq
      BY <1>1, <3>1 DEF IndInv, OwnChain
    <3> QED
      BY <1>1, <2>3, <3>1, <3>2
  <2> QED
    BY <2>1, <2>2, <2>3
<1>9. LamportCovers'
  <2> SUFFICES ASSUME NEW x \in Device, NEW q \in entries'[x]
               PROVE  q.lamport <= lamport'[x]
    BY DEF LamportCovers
  <2>1. q \in entries[x] => q.lamport <= lamport[x] /\ q.lamport \in Nat
    BY <1>2 DEF IndInv, LamportCovers, WellFormed
  <2> QED
    BY <1>1, <1>3, <2>1
<1>10. PrefixHeld'
  <2> SUFFICES ASSUME NEW a \in Device, NEW x \in Device, NEW q \in Own(x)',
                      NEW r \in entries'[a], r.dev = x, q.seq < r.seq
               PROVE  q \in entries'[a]
    BY DEF PrefixHeld
  <2>1. CASE a = x
    BY <2>1 DEF Own
  <2>2. CASE a # x /\ x = d
    <3>1. r \in entries[a] /\ r \in Own(d)
      BY <1>1, <1>2, <2>2
    <3>2. q # new
      BY <1>1, <1>2, <3>1 DEF WellFormed
    <3> QED
      BY <1>1, <2>2, <3>1, <3>2 DEF IndInv, PrefixHeld
  <2>3. CASE a # x /\ x # d
    BY <1>1, <2>3 DEF IndInv, PrefixHeld
  <2> QED
    BY <2>1, <2>2, <2>3
<1>11. ReversalFlagsTarget'
  <2>1. \A x \in Device : reversed[x] \subseteq reversed'[x]
    BY <1>1 DEF IndInv, TypeOK
  <2>2. rev # NoHash => rev \in reversed'[d]
    BY <1>1 DEF IndInv, TypeOK
  <2> QED
    BY <1>1, <2>1, <2>2 DEF IndInv, ReversalFlagsTarget
<1> QED
  BY <1>4, <1>5, <1>6, <1>7, <1>8, <1>9, <1>10, <1>11 DEF IndInv

\* Taking over an entry of another device.
LEMMA TakenOverPreserves ==
  ASSUME IndInv, NEW d, NEW from, NEW e, TakenOver(d, from, e)
  PROVE  IndInv'
<1>1. /\ d \in Device /\ from \in Device
      /\ WellFormed(e) /\ e \in entries[from] /\ e \in Own(e.dev) /\ e.dev # d
      /\ entries'[d] = entries[d] \cup {e}
      /\ \A x \in Device \ {d} : entries'[x] = entries[x]
      /\ \A x \in Device : Own(x)' = Own(x)
  BY TakenOverRows DEF IndInv
<1>2. /\ UNCHANGED <<active, nextSeq, lastHash>>
      /\ Acceptable(d, e)
      /\ reversed' = [reversed EXCEPT ![d] =
                        @ \cup ({e.hash} \cap reversed[from]) \cup ReversalFlag(e)]
      /\ Observe(d, e.lamport)
      /\ entries' = [entries EXCEPT ![d] = @ \cup {e}]
  BY DEF TakenOver, Apply
<1>3. \A x \in Device : \A q \in Own(x) : WellFormed(q) /\ q \in entries[x] /\ q.dev = x
  BY DEF IndInv, TypeOK, Own
<1>4. /\ lamport' \in [Device -> Nat]
      /\ \A x \in Device : lamport[x] <= lamport'[x]
      /\ e.lamport <= lamport'[d]
  BY <1>1, <1>2 DEF IndInv, TypeOK, Observe, WellFormed
<1>5. TypeOK'
  <2>1. DOMAIN entries' = Device /\ \A x \in Device : \A q \in entries'[x] : WellFormed(q)
    BY <1>1, <1>2 DEF IndInv, TypeOK
  <2>2. /\ \A x \in Device : Hashes(x) \subseteq Hashes(x)'
        /\ e.hash \in Hashes(d)'
    BY <1>1 DEF Hashes
  <2>3. ReversalFlag(e) \subseteq Hashes(d)
    BY <1>2 DEF Acceptable, ReversalFlag
  <2>4. DOMAIN reversed' = Device /\ \A x \in Device : reversed'[x] \subseteq Hashes(x)'
    BY <1>1, <1>2, <2>2, <2>3 DEF IndInv, TypeOK
  <2>5. /\ DOMAIN lastHash' = Device
        /\ \A x \in Device : lastHash'[x] \in {NoHash} \cup {q.hash : q \in Own(x)'}
    BY <1>1, <1>2 DEF IndInv, TypeOK
  <2>6. active' \in [Device -> SUBSET Account] /\ nextSeq' \in [Device -> Nat]
    BY <1>2 DEF IndInv, TypeOK
  <2> QED
    BY <1>4, <2>1, <2>4, <2>5, <2>6, Zenon DEF TypeOK, WellFormed
<1>6. Provenance'
  <2>1. \A x \in Device : entries[x] \subseteq entries'[x]
    BY <1>1
  <2>2. \A x \in Device : \A q \in entries[x] : q.dev \in Device /\ q \in entries[q.dev]
    BY DEF IndInv, TypeOK, Provenance, WellFormed
  <2>3. e.dev \in Device /\ e \in entries[e.dev]
    BY <1>1 DEF Own, WellFormed
  <2> QED
    BY <1>1, <2>1, <2>2, <2>3 DEF Provenance
<1>7. OwnStamps' /\ LastHashIsLatest' /\ OwnChain'
  BY <1>1, <1>2 DEF IndInv, OwnStamps, LastHashIsLatest, OwnChain
<1>8. LamportCovers'
  <2> SUFFICES ASSUME NEW x \in Device, NEW q \in entries'[x]
               PROVE  q.lamport <= lamport'[x]
    BY DEF LamportCovers
  <2>1. CASE q \in entries[x]
    BY <1>4, <2>1 DEF IndInv, LamportCovers, TypeOK, WellFormed
  <2>2. CASE q \notin entries[x]
    BY <1>1, <1>4, <2>2
  <2> QED
    BY <2>1, <2>2
\* The rows before e: its predecessor is held, and so is all before that one.
<1>9. ASSUME NEW q \in Own(e.dev), q.seq < e.seq
      PROVE  q \in entries[d]
  <2>1. e.prev # NoHash
    BY <1>1, <1>3, <1>9 DEF IndInv, OwnChain, WellFormed
  <2>2. PICK h \in entries[d] : h.dev = e.dev /\ h.seq = e.seq - 1 /\ h.hash = e.prev
    BY <1>2, <2>1 DEF Acceptable, Chained
  <2>3. h \in Own(e.dev)
    BY <1>1, <2>2 DEF IndInv, Provenance, Own
  <2>4. q.seq \in Nat /\ h.seq \in Nat /\ e.seq \in Nat /\ e.dev \in Device
    BY <1>1, <1>3, <2>3 DEF WellFormed
  <2>5. CASE q.seq = h.seq
    <3>1. q = h
      BY <2>3, <2>4, <2>5 DEF IndInv, OwnStamps
    <3> QED
      BY <2>2, <3>1
  <2>6. CASE q.seq < h.seq
    BY <1>1, <2>2, <2>4, <2>6 DEF IndInv, PrefixHeld
  <2>7. q.seq = h.seq \/ q.seq < h.seq
    BY <1>9, <2>2, <2>4
  <2> QED
    BY <2>5, <2>6, <2>7
<1>10. PrefixHeld'
  <2> SUFFICES ASSUME NEW a \in Device, NEW x \in Device, NEW q \in Own(x)',
                      NEW r \in entries'[a], r.dev = x, q.seq < r.seq
               PROVE  q \in entries'[a]
    BY DEF PrefixHeld
  <2>1. CASE r \in entries[a]
    BY <1>1, <2>1 DEF IndInv, PrefixHeld
  <2>2. CASE r \notin entries[a]
    BY <1>1, <1>9, <2>2
  <2> QED
    BY <2>1, <2>2
<1>11. ReversalFlagsTarget'
  <2>1. \A x \in Device : reversed[x] \subseteq reversed'[x]
    BY <1>1, <1>2 DEF IndInv, TypeOK
  <2>2. e.reverses # NoHash => e.reverses \in reversed'[d]
    BY <1>1, <1>2 DEF IndInv, TypeOK, ReversalFlag
  <2> QED
    BY <1>1, <2>1, <2>2 DEF IndInv, ReversalFlagsTarget
<1> QED
  BY <1>5, <1>6, <1>7, <1>8, <1>10, <1>11 DEF IndInv

\* Steps that add no entry.
LEMMA QuietPreserves ==
  ASSUME IndInv, Quiet
  PROVE  IndInv'
<1> USE DEF IndInv, Quiet
<1>1. /\ \A x \in Device : Own(x)' = Own(x) /\ Hashes(x)' = Hashes(x)
      /\ \A x \in Device : entries'[x] = entries[x]
  BY DEF Own, Hashes
<1>2. \A x \in Device : \A q \in entries[x] : q.seq \in Nat /\ q.lamport \in Nat
  BY DEF TypeOK, WellFormed
<1>3. TypeOK'
  BY <1>1, Zenon DEF TypeOK, WellFormed
<1>4. OwnStamps'
  <2>1. \A x \in Device : nextSeq[x] \in Nat /\ nextSeq'[x] \in Nat
    BY DEF TypeOK
  <2>2. \A x \in Device : \A q \in Own(x) : q.seq \in Nat
    BY <1>2 DEF Own
  <2> QED
    BY <1>1, <2>1, <2>2 DEF OwnStamps
<1>5. LamportCovers'
  BY <1>1, <1>2 DEF LamportCovers, TypeOK
<1>6. Provenance' /\ LastHashIsLatest' /\ OwnChain' /\ PrefixHeld' /\ ReversalFlagsTarget'
  BY <1>1 DEF Provenance, LastHashIsLatest, OwnChain, PrefixHeld, ReversalFlagsTarget
<1> QED
  BY <1>3, <1>4, <1>5, <1>6

\* The invariant is inductive.
LEMMA NextInv ==
  ASSUME IndInv, [Next]_vars
  PROVE  IndInv'
<1>1. TypeOK
  BY DEF IndInv
<1> QED
  BY <1>1, StepKinds, MintedPreserves, TakenOverPreserves, QuietPreserves
-----------------------------------------------------------------------------
\* In every reachable state each device's own rows form one chain that ends at
\* last_hash, and the rows held of other devices are prefixes of such chains.
THEOREM Invariance == Spec => []IndInv
<1>1. Init => IndInv
  BY InitInv
<1>2. IndInv /\ [Next]_vars => IndInv'
  BY NextInv
<1> QED
  BY <1>1, <1>2, PTL DEF Spec

\* Every row is well formed, every flag and last_hash names a row.
THEOREM TypeCorrect == Spec => []TypeOK
<1>1. IndInv => TypeOK
  BY DEF IndInv
<1> QED
  BY <1>1, Invariance, PTL

\* A replica holds no entry of a device without every earlier one.
THEOREM HeldIsPrefix == Spec => []PrefixHeld
<1>1. IndInv => PrefixHeld
  BY DEF IndInv
<1> QED
  BY <1>1, Invariance, PTL

\* A reversal is held only with its target, and the target is flagged.
THEOREM ReversalsFlagged == Spec => []ReversalFlagsTarget
<1>1. IndInv => ReversalFlagsTarget
  BY DEF IndInv
<1> QED
  BY <1>1, Invariance, PTL

\* A stamp names one entry on all replicas, however they are synchronised.
THEOREM StampsAgree == Spec => []OneEntryPerStamp
<1>1. IndInv => OneEntryPerStamp
  <2> SUFFICES ASSUME IndInv, NEW a \in Device, NEW b \in Device,
                      NEW x \in entries[a], NEW y \in entries[b],
                      x.dev = y.dev, x.seq = y.seq
               PROVE  x = y
    BY DEF OneEntryPerStamp
  <2>1. x.dev \in Device /\ x \in Own(x.dev) /\ y \in Own(x.dev)
    BY DEF IndInv, TypeOK, WellFormed, Provenance, Own
  <2> QED
    BY <2>1 DEF IndInv, OwnStamps
<1> QED
  BY <1>1, Invariance, PTL

\* On every replica the hash chain of a device is a line: no two entries claim
\* the same predecessor.
THEOREM ChainsAreLines == Spec => []NoFork
<1>1. IndInv => NoFork
  <2> SUFFICES ASSUME IndInv, NEW d \in Device, NEW x \in entries[d],
                      NEW y \in entries[d], x.dev = y.dev, x.prev = y.prev
               PROVE  x = y
    BY DEF NoFork
  <2>1. x.dev \in Device /\ x \in Own(x.dev) /\ y \in Own(x.dev)
    BY DEF IndInv, TypeOK, WellFormed, Provenance, Own
  <2>2. \A q \in Own(x.dev) : WellFormed(q) /\ q.seq \in Nat
    BY <2>1 DEF IndInv, TypeOK, WellFormed, Own
  <2>3. x.seq = y.seq
    <3>1. CASE x.prev = NoHash
      <4>1. \A q \in Own(x.dev) : x.seq <= q.seq
        BY <2>1, <3>1 DEF IndInv, OwnChain
      <4>2. \A q \in Own(x.dev) : y.seq <= q.seq
        BY <2>1, <3>1 DEF IndInv, OwnChain
      <4> QED
        BY <2>1, <2>2, <4>1, <4>2
    <3>2. CASE x.prev # NoHash
      <4>1. PICK p \in Own(x.dev) :
              /\ p.hash = x.prev
              /\ p.seq < x.seq
              /\ \A q \in Own(x.dev) : q.seq < x.seq => q.seq <= p.seq
        BY <2>1, <3>2 DEF IndInv, OwnChain
      <4>2. PICK r \in Own(x.dev) :
              /\ r.hash = y.prev
              /\ r.seq < y.seq
              /\ \A q \in Own(x.dev) : q.seq < y.seq => q.seq <= r.seq
        BY <2>1, <3>2 DEF IndInv, OwnChain
      <4>3. p = r
        BY <2>2, <4>1, <4>2, HashDetermines
      <4> QED
        BY <2>1, <2>2, <4>1, <4>2, <4>3
    <3> QED
      BY <3>1, <3>2
  <2> QED
    BY <2>1, <2>3 DEF IndInv, OwnStamps
<1> QED
  BY <1>1, Invariance, PTL

\* The clock of a replica covers every entry it holds.
THEOREM ClockCovers == Spec => []LamportCovers
<1>1. IndInv => LamportCovers
  BY DEF IndInv
<1> QED
  BY <1>1, Invariance, PTL

\* An entry a device mints sorts after everything the device then held.
THEOREM MintsSortLast == Spec => MintedAfterHeld
<1> DEFINE After == \A d \in Device : \A e \in entries'[d] \ entries[d] :
                      e.dev = d => \A q \in entries[d] : q.lamport < e.lamport
<1>1. ASSUME IndInv, [Next]_vars
      PROVE  After
  <2>1. ASSUME NEW d, NEW rev, NEW ps, Minted(d, rev, ps)
        PROVE  After
    BY <1>1, <2>1, MintedRows DEF IndInv
  <2>2. ASSUME NEW d, NEW from, NEW e, TakenOver(d, from, e)
        PROVE  After
    BY <1>1, <2>2, TakenOverRows DEF IndInv
  <2>3. ASSUME Quiet
        PROVE  After
    BY <2>3 DEF Quiet
  <2>4. TypeOK
    BY <1>1 DEF IndInv
  <2> QED
    BY <1>1, <2>1, <2>2, <2>3, <2>4, StepKinds
<1>2. IndInv /\ [Next]_vars => [After]_vars
  BY <1>1
<1> QED
  BY <1>2, Invariance, PTL DEF Spec, MintedAfterHeld

\* No row is flagged REVERSED, locally or as received, without a reversal of it
\* somewhere.
THEOREM FlagsBacked == Spec => []FlagBacked
<1>1. Init => FlagBacked
  BY DEF Init, FlagBacked
<1>2. ASSUME IndInv, FlagBacked, [Next]_vars
      PROVE  FlagBacked'
  <2>1. TypeOK /\ OwnStamps /\ LamportCovers /\ Provenance
    BY <1>2 DEF IndInv
  <2>2. ASSUME NEW d, NEW rev, NEW ps, Minted(d, rev, ps),
               \/ rev = NoHash /\ UNCHANGED reversed
               \/ reversed' = [reversed EXCEPT ![d] = @ \cup {rev}]
        PROVE  FlagBacked'
    <3>1. /\ d \in Device
          /\ \A x \in Device : entries[x] \subseteq entries'[x]
          /\ \E r \in entries'[d] : r.reverses = rev
      BY <2>1, <2>2, MintedRows
    <3>2. \A x \in Device : \A h \in reversed'[x] :
            h \in reversed[x] \/ (x = d /\ h = rev)
      BY <2>1, <2>2 DEF TypeOK
    <3> QED
      BY <1>2, <3>1, <3>2 DEF FlagBacked
  <2>3. ASSUME NEW d, NEW from, NEW e, TakenOver(d, from, e)
        PROVE  FlagBacked'
    <3>1. /\ d \in Device /\ from \in Device /\ e \in entries'[d]
          /\ \A x \in Device : entries[x] \subseteq entries'[x]
      BY <2>1, <2>3, TakenOverRows
    <3>2. \A x \in Device : \A h \in reversed'[x] :
            h \in reversed[x] \/ h \in reversed[from] \/ h = e.reverses
      BY <2>1, <2>3 DEF TypeOK, TakenOver, Apply, ReversalFlag
    <3> QED
      BY <1>2, <3>1, <3>2 DEF FlagBacked
  <2>4. ASSUME Quiet
        PROVE  FlagBacked'
    BY <1>2, <2>4 DEF FlagBacked, Quiet
  <2> QED
    BY <1>2, <2>1, <2>2, <2>3, <2>4, StepKinds
<1> QED
  BY <1>1, <1>2, Invariance, PTL DEF Spec
-----------------------------------------------------------------------------
\* Minting: the new entry comes after all the device holds, its target too.
LEMMA MintedWaits ==
  ASSUME IndInv, WaitsForEarlier, NEW d, NEW rev, NEW ps, Minted(d, rev, ps),
         rev = NoHash \/ rev \in Hashes(d)
  PROVE  WaitsForEarlier'
<1> DEFINE new == NewEntry(d, rev, ps)
<1>1. /\ d \in Device
      /\ WellFormed(new) /\ new.dev = d /\ new.reverses = rev
      /\ entries'[d] = entries[d] \cup {new}
      /\ \A x \in Device \ {d} : entries'[x] = entries[x] /\ Own(x)' = Own(x)
      /\ Own(d)' = Own(d) \cup {new}
      /\ \A q \in Own(d) : q.seq < new.seq
      /\ \A q \in entries[d] : q.lamport < new.lamport
  BY MintedRows DEF IndInv
<1>2. new.postings = ps /\ Len(ps) >= 2 /\ SumOf(ps) = 0
  BY DEF Minted, Admissible, NewEntry, Entry
<1>3. \A x \in Device : \A q \in entries[x] : WellFormed(q) /\ q.lamport \in Nat /\ q.seq \in Nat
  BY DEF IndInv, TypeOK, WellFormed
<1>4. new.lamport \in Nat /\ new.seq \in Nat /\ Own(d) \subseteq entries[d]
  BY <1>1 DEF WellFormed, Own
<1> HIDE DEF new
<1>5. Balanced'
  BY <1>1, <1>2 DEF WaitsForEarlier, Balanced
<1>6. ClockAlongLog'
  <2> SUFFICES ASSUME NEW x \in Device, NEW r \in Own(x)', NEW q \in Own(x)', q.seq < r.seq
               PROVE  q.lamport < r.lamport
    BY DEF ClockAlongLog
  <2>1. CASE x # d
    BY <1>1, <2>1 DEF WaitsForEarlier, ClockAlongLog
  <2>2. CASE x = d /\ r = new
    BY <1>1, <1>4, <2>2
  <2>3. CASE x = d /\ r # new
    <3>1. r \in Own(d) /\ r.seq < new.seq /\ r.seq \in Nat
      BY <1>1, <1>3, <1>4, <2>3
    <3>2. q \in Own(d)
      BY <1>1, <1>4, <2>3, <3>1
    <3> QED
      BY <1>1, <3>1, <3>2 DEF WaitsForEarlier, ClockAlongLog
  <2> QED
    BY <2>1, <2>2, <2>3
\* No row of the replica reverses the new entry: what rows reverse is held.
<1>7. \A q \in entries[d] : q.hash # new.hash
  BY <1>1, <1>3, <1>4, HashDetermines
<1>8. \A r \in entries[d] \cup {new} : r.reverses # new.hash
  <2>1. new.hash # NoHash
    BY <1>1, HashIsSome
  <2>2. \A r \in entries[d] : r.reverses # NoHash => r.reverses \in Hashes(d)
    BY <1>1 DEF IndInv, ReversalFlagsTarget, TypeOK
  <2> QED
    BY <1>1, <1>7, <2>1, <2>2 DEF Hashes
<1>9. TargetsEarlier'
  <2> SUFFICES ASSUME NEW x \in Device, NEW r \in entries'[x], NEW t \in entries'[x],
                      t.hash = r.reverses
               PROVE  t.lamport < r.lamport
    BY DEF TargetsEarlier
  <2>1. CASE x # d
    BY <1>1, <2>1 DEF WaitsForEarlier, TargetsEarlier
  <2>2. CASE x = d
    <3>1. t \in entries[d]
      BY <1>1, <1>8, <2>2
    <3> QED
      BY <1>1, <2>2, <3>1 DEF WaitsForEarlier, TargetsEarlier
  <2> QED
    BY <2>1, <2>2
<1> QED
  BY <1>5, <1>6, <1>9 DEF WaitsForEarlier

\* Taking over: the replica that ships an entry holds its target as well.
LEMMA TakenOverWaits ==
  ASSUME IndInv, WaitsForEarlier, NEW d, NEW from, NEW e, TakenOver(d, from, e)
  PROVE  WaitsForEarlier'
<1>1. /\ d \in Device /\ from \in Device
      /\ WellFormed(e) /\ e \in entries[from]
      /\ entries'[d] = entries[d] \cup {e}
      /\ \A x \in Device \ {d} : entries'[x] = entries[x]
      /\ \A x \in Device : Own(x)' = Own(x)
  BY TakenOverRows DEF IndInv
<1>2. e.hash \notin Hashes(d) /\ Len(e.postings) >= 2 /\ SumOf(e.postings) = 0
  BY DEF TakenOver, Apply, Acceptable, Admissible
<1>3. /\ \A x \in Device : \A q \in entries[x] : WellFormed(q)
      /\ \A x \in Device : \A r \in entries[x] :
           r.reverses # NoHash => r.reverses \in Hashes(x)
  BY DEF IndInv, ReversalFlagsTarget, TypeOK
<1>4. Balanced' /\ ClockAlongLog'
  BY <1>1, <1>2 DEF WaitsForEarlier, Balanced, ClockAlongLog
<1>5. TargetsEarlier'
  <2> SUFFICES ASSUME NEW x \in Device, NEW r \in entries'[x], NEW t \in entries'[x],
                      t.hash = r.reverses
               PROVE  t.lamport < r.lamport
    BY DEF TargetsEarlier
  <2>0. WellFormed(t) /\ t.hash # NoHash
    BY <1>1, <1>3, HashIsSome
  <2>1. CASE r \in entries[x]
    <3>1. t.hash \in Hashes(x)
      BY <1>3, <2>0, <2>1
    <3>2. t \in entries[x]
      BY <1>1, <1>2, <3>1
    <3> QED
      BY <2>1, <3>2 DEF WaitsForEarlier, TargetsEarlier
  <2>2. CASE r \notin entries[x]
    <3>1. x = d /\ r = e
      BY <1>1, <2>2
    <3>2. PICK h \in entries[from] : h.hash = t.hash
      BY <1>1, <1>3, <2>0, <3>1 DEF Hashes
    <3>3. h = t
      BY <1>1, <1>3, <2>0, <3>2, HashDetermines
    <3> QED
      BY <1>1, <3>1, <3>2, <3>3 DEF WaitsForEarlier, TargetsEarlier
  <2> QED
    BY <2>1, <2>2
<1> QED
  BY <1>4, <1>5 DEF WaitsForEarlier

\* What an entry waits for, its predecessor and the entry it reverses, always
\* carries an earlier clock; and every entry held balances.
THEOREM WaitsAreForEarlier == Spec => []WaitsForEarlier
<1>1. Init => WaitsForEarlier
  BY DEF Init, WaitsForEarlier, Balanced, ClockAlongLog, TargetsEarlier, Own
<1>2. ASSUME IndInv, WaitsForEarlier, [Next]_vars
      PROVE  WaitsForEarlier'
  <2>1. ASSUME NEW d, NEW rev, NEW ps, Minted(d, rev, ps), rev = NoHash \/ rev \in Hashes(d)
        PROVE  WaitsForEarlier'
    BY <1>2, <2>1, MintedWaits
  <2>2. ASSUME NEW d, NEW from, NEW e, TakenOver(d, from, e)
        PROVE  WaitsForEarlier'
    BY <1>2, <2>2, TakenOverWaits
  <2>3. ASSUME Quiet
        PROVE  WaitsForEarlier'
    <3>1. entries' = entries /\ \A x \in Device : Own(x)' = Own(x)
      BY <2>3 DEF Quiet, Own
    <3> QED
      BY <1>2, <3>1 DEF WaitsForEarlier, Balanced, ClockAlongLog, TargetsEarlier
  <2>4. TypeOK
    BY <1>2 DEF IndInv
  <2> QED
    BY <1>2, <2>1, <2>2, <2>3, <2>4, StepKinds
<1> QED
  BY <1>1, <1>2, Invariance, PTL DEF Spec

\* Of a set of rows one comes first by the clock.
LEMMA EarliestRow ==
  ASSUME NEW S, S # {}, \A e \in S : e.lamport \in Nat
  PROVE  \E e \in S : \A q \in S : e.lamport <= q.lamport
<1> DEFINE T == {e.lamport : e \in S}
           R == OpToRel(<, Nat)
<1>1. T \subseteq Nat /\ T # {}
  OBVIOUS
<1>2. IsWellFoundedOn(R, Nat)
  BY NatLessThanWellFounded
<1>3. \A m, n \in Nat : m < n => <<m, n>> \in R
  BY DEF OpToRel
<1> HIDE DEF R, T
<1>4. PICK m \in T : \A n \in T : ~ (<<n, m>> \in R)
  BY <1>1, <1>2, WFMin
<1>5. \A n \in T : m \in Nat /\ n \in Nat /\ ~(n < m)
  BY <1>1, <1>3, <1>4
<1>6. \A n \in T : m <= n
  BY <1>5
<1> QED
  BY <1>4, <1>6 DEF T

\* While a replica lacks entries another one holds, none behind a gap in seq and
\* no account archived there, it accepts at least one of them: the earliest.
THEOREM CatchingUpNeverSticks == Spec => []NeverStuck
<1>1. IndInv /\ WaitsForEarlier => NeverStuck
  <2> SUFFICES ASSUME IndInv, WaitsForEarlier, NEW a \in Device, NEW d \in Device,
                      entries[a] \ entries[d] # {}, active[d] = Account,
                      \A e \in entries[a] \ entries[d] : Consecutive(e)
               PROVE  \E e \in entries[a] \ entries[d] : Acceptable(d, e)
    BY DEF NeverStuck
  <2>1. /\ \A q \in entries[a] : WellFormed(q) /\ q.lamport \in Nat /\ q.seq \in Nat
        /\ \A q \in entries[a] : q.dev \in Device /\ q \in Own(q.dev)
    BY DEF IndInv, TypeOK, WellFormed, Provenance, Own
  <2>2. PICK e \in entries[a] \ entries[d] :
          \A q \in entries[a] \ entries[d] : e.lamport <= q.lamport
    <3> HIDE DEF IndInv, WaitsForEarlier
    <3> QED
      BY <2>1, EarliestRow
  <2>3. \A q \in entries[a] : q.lamport < e.lamport => q \in entries[d]
    BY <2>1, <2>2
  <2>4. Admissible(d, e.postings)
    <3>1. e.postings \in Seq(Posting)
      BY <2>1 DEF WellFormed
    <3>2. \A i \in DOMAIN e.postings : e.postings[i] \in Posting
      BY <3>1
    <3>3. \A i \in DOMAIN e.postings : e.postings[i].account \in active[d]
      BY <3>2 DEF Posting
    <3> QED
      BY <3>3 DEF Admissible, WaitsForEarlier, Balanced
  <2>5. e.hash = Recomputed(e)
    BY <2>1 DEF WellFormed, Entry, Recomputed
  <2>6. Chained(d, e)
    <3> SUFFICES ASSUME e.prev # NoHash
                 PROVE  \E q \in entries[d] :
                          q.dev = e.dev /\ q.seq = e.seq - 1 /\ q.hash = e.prev
      BY DEF Chained
    <3>1. PICK q \in Own(e.dev) : q.hash = e.prev /\ q.seq = e.seq - 1
      BY DEF Consecutive
    <3>2. q.seq < e.seq /\ e \in Own(e.dev) /\ e.dev \in Device
      BY <2>1, <3>1
    <3>3. q \in entries[a] /\ q.lamport < e.lamport
      BY <3>1, <3>2 DEF IndInv, PrefixHeld, WaitsForEarlier, ClockAlongLog
    <3> QED
      BY <2>3, <3>1, <3>3 DEF Own
  <2>7. ASSUME e.reverses # NoHash
        PROVE  e.reverses \in Hashes(d)
    <3>1. e.reverses \in Hashes(a)
      BY <2>7 DEF IndInv, ReversalFlagsTarget, TypeOK
    <3>2. PICK t \in entries[a] : t.hash = e.reverses
      BY <3>1 DEF Hashes
    <3>3. t \in entries[d]
      BY <2>3, <3>2 DEF WaitsForEarlier, TargetsEarlier
    <3> QED
      BY <3>2, <3>3 DEF Hashes
  <2> QED
    BY <2>4, <2>5, <2>6, <2>7 DEF Acceptable
<1> QED
  BY <1>1, Invariance, WaitsAreForEarlier, PTL
-----------------------------------------------------------------------------
(* Logs: rows in the order of their sequence numbers *)

\* Finitely many rows, no two with one sequence number.
Ordered(S) ==
  /\ IsFiniteSet(S)
  /\ \A e \in S : e.seq \in Nat
  /\ \A e, q \in S : e.seq = q.seq => e = q

\* The log of such rows has each of them at the place of its rank.
LEMMA LogIs ==
  ASSUME NEW S, Ordered(S)
  PROVE  /\ Cardinality(S) \in Nat
         /\ LogOf(S) \in Seq(S) /\ Len(LogOf(S)) = Cardinality(S)
         /\ \A k \in 1 .. Cardinality(S) :
              LogOf(S)[k] \in S /\ Cardinality(UpTo(S, LogOf(S)[k])) = k
         /\ \A e \in S : /\ Cardinality(UpTo(S, e)) \in 1 .. Cardinality(S)
                         /\ LogOf(S)[Cardinality(UpTo(S, e))] = e
<1> DEFINE n == Cardinality(S)
           rank == [e \in S |-> Cardinality(UpTo(S, e))]
<1>1. /\ IsFiniteSet(S) /\ \A e \in S : e.seq \in Nat
      /\ \A e, q \in S : e.seq = q.seq => e = q
  BY DEF Ordered
<1>2. n \in Nat
  BY <1>1, FS_CardinalityType
<1>3. \A e \in S : /\ UpTo(S, e) \in SUBSET S /\ e \in UpTo(S, e) /\ IsFiniteSet(UpTo(S, e))
                  /\ Cardinality(UpTo(S, e)) \in Nat
  <2>1. \A e \in S : UpTo(S, e) \in SUBSET S /\ e \in UpTo(S, e)
    BY <1>1 DEF UpTo
  <2> QED
    BY <1>1, <2>1, FS_Subset, FS_CardinalityType
<1>4. ASSUME NEW e \in S, NEW q \in S, e.seq < q.seq
      PROVE  Cardinality(UpTo(S, e)) < Cardinality(UpTo(S, q))
  <2>1. UpTo(S, e) \in SUBSET UpTo(S, q) /\ q \notin UpTo(S, e)
    BY <1>1, <1>4 DEF UpTo
  <2>2. UpTo(S, e) # UpTo(S, q)
    BY <1>3, <2>1
  <2>3. Cardinality(UpTo(S, e)) <= Cardinality(UpTo(S, q))
        /\ Cardinality(UpTo(S, q)) # Cardinality(UpTo(S, e))
    BY <1>3, <2>1, <2>2, FS_Subset
  <2> QED
    BY <1>3, <2>3
<1>5. \A e, q \in S : e = q \/ e.seq < q.seq \/ q.seq < e.seq
  BY <1>1
<1>6. \A e, q \in S : Cardinality(UpTo(S, e)) = Cardinality(UpTo(S, q)) => e = q
  BY <1>3, <1>4, <1>5
<1>7. \A e \in S : Cardinality(UpTo(S, e)) \in 1 .. n
  <2> TAKE e \in S
  <2>1. Cardinality(UpTo(S, e)) <= n
    BY <1>1, <1>3, FS_Subset
  <2>2. Cardinality(UpTo(S, e)) # 0
    BY <1>3, FS_EmptySet
  <2> QED
    BY <1>2, <1>3, <2>1, <2>2
<1>8. rank \in Injection(S, 1 .. n)
  <2>1. rank \in [S -> 1 .. n]
    BY <1>7
  <2>2. \A e, q \in S : rank[e] = rank[q] => e = q
    BY <1>6
  <2> HIDE DEF rank
  <2> QED
    BY <2>1, <2>2 DEF Injection, IsInjective
<1> HIDE DEF n
<1>9. \A k \in 1 .. n : \E e \in S : Cardinality(UpTo(S, e)) = k
  <2>1. IsFiniteSet(1 .. n) /\ Cardinality(1 .. n) = n
    BY <1>2, FS_Interval
  <2>2. rank \in Surjection(S, 1 .. n)
    <3> HIDE DEF rank
    <3>1. Cardinality(S) = Cardinality(1 .. n) <=> rank \in Surjection(S, 1 .. n)
      BY <1>8, <2>1, FS_Injection
    <3> QED
      BY <2>1, <3>1 DEF n
  <2>3. \A k \in 1 .. n : \E e \in S : rank[e] = k
    BY <2>2 DEF Surjection
  <2> QED
    BY <2>3
<1>10. \A k \in 1 .. n : LogOf(S)[k] \in S /\ Cardinality(UpTo(S, LogOf(S)[k])) = k
  <2>1. LogOf(S) = [k \in 1 .. n |-> CHOOSE e \in S : Cardinality(UpTo(S, e)) = k]
    BY DEF LogOf, n
  <2> QED
    BY <1>9, <2>1
<1>11. \A e \in S : LogOf(S)[Cardinality(UpTo(S, e))] = e
  BY <1>6, <1>7, <1>10
<1>12. LogOf(S) \in Seq(S) /\ Len(LogOf(S)) = n
  <2>1. LogOf(S) \in [1 .. n -> S] /\ DOMAIN LogOf(S) = 1 .. n
    BY <1>10 DEF LogOf, n
  <2> QED
    BY <1>2, <2>1
<1> QED
  BY <1>2, <1>7, <1>10, <1>11, <1>12 DEF n

\* A row with a higher sequence number than all goes to the end of the log.
LEMMA LogAppends ==
  ASSUME NEW S, Ordered(S), NEW new, new.seq \in Nat, \A q \in S : q.seq < new.seq
  PROVE  /\ Ordered(S \cup {new})
         /\ Cardinality(S \cup {new}) = Cardinality(S) + 1
         /\ LogOf(S \cup {new}) = Append(LogOf(S), new)
<1> DEFINE T == S \cup {new}
           n == Cardinality(S)
<1>1. /\ IsFiniteSet(S) /\ \A e \in S : e.seq \in Nat
      /\ \A e, q \in S : e.seq = q.seq => e = q
  BY DEF Ordered
<1>2. new \notin S
  BY <1>1
<1>3. IsFiniteSet(T) /\ Cardinality(T) = n + 1 /\ n \in Nat
  BY <1>1, <1>2, FS_AddElement, FS_CardinalityType
<1>4. Ordered(T)
  <2>1. \A e \in T : e.seq \in Nat
    BY <1>1
  <2>2. \A e, q \in T : e.seq = q.seq => e = q
    BY <1>1
  <2> HIDE DEF T
  <2> QED
    BY <1>3, <2>1, <2>2 DEF Ordered
<1>5. /\ \A e \in S : UpTo(T, e) = UpTo(S, e)
      /\ UpTo(T, new) = T
  BY <1>1 DEF UpTo
<1>6. S \subseteq T /\ new \in T
  OBVIOUS
<1> HIDE DEF T, n
<1>7. /\ LogOf(T) \in Seq(T) /\ Len(LogOf(T)) = n + 1
      /\ \A e \in T : LogOf(T)[Cardinality(UpTo(T, e))] = e
  BY <1>3, <1>4, LogIs
<1>8. /\ LogOf(S) \in Seq(S) /\ Len(LogOf(S)) = n
      /\ \A k \in 1 .. n : LogOf(S)[k] \in S /\ Cardinality(UpTo(S, LogOf(S)[k])) = k
  BY LogIs DEF n
<1>9. \A k \in 1 .. n : LogOf(T)[k] = LogOf(S)[k]
  BY <1>5, <1>6, <1>7, <1>8
<1>10. LogOf(T)[n + 1] = new
  BY <1>3, <1>5, <1>6, <1>7
<1>11. LogOf(T) = Append(LogOf(S), new)
  <2> DEFINE l == LogOf(T)
             m == LogOf(S)
  <2>1. /\ l \in Seq(T) /\ m \in Seq(T) /\ Len(l) = Len(m) + 1 /\ Len(m) = n /\ new \in T
        /\ \A k \in 1 .. n : l[k] = m[k]
        /\ l[n + 1] = new
    BY <1>6, <1>7, <1>8, <1>9, <1>10
  <2> HIDE DEF l, m
  <2>2. l = Append(m, new)
    BY <2>1, <1>3
  <2> QED
    BY <2>2 DEF l, m
<1> QED
  BY <1>3, <1>4, <1>11 DEF T, n

\* Rows that come with all earlier ones are the beginning of the log.
LEMMA PrefixIs ==
  ASSUME NEW S, Ordered(S), NEW R \in SUBSET S,
         \A e \in R, q \in S : q.seq < e.seq => q \in R
  PROVE  /\ IsFiniteSet(R) /\ Cardinality(R) \in Nat
         /\ Cardinality(R) <= Len(LogOf(S))
         /\ R = {LogOf(S)[i] : i \in 1 .. Cardinality(R)}
<1>1. /\ IsFiniteSet(S) /\ \A e \in S : e.seq \in Nat
      /\ \A e, q \in S : e.seq = q.seq => e = q
  BY DEF Ordered
<1>2. IsFiniteSet(R) /\ Cardinality(R) <= Cardinality(S)
  BY <1>1, FS_Subset
<1>3. Ordered(R)
  BY <1>1, <1>2 DEF Ordered
<1>4. \A e \in R : UpTo(S, e) = UpTo(R, e)
  <2>1. \A e \in R, q \in S : q.seq <= e.seq => q \in R
    <3> TAKE e \in R, q \in S
    <3>1. e.seq \in Nat /\ q.seq \in Nat /\ e \in S
      BY <1>1
    <3>2. q.seq <= e.seq => q.seq < e.seq \/ q.seq = e.seq
      BY <3>1
    <3> QED
      BY <1>1, <3>1, <3>2
  <2> QED
    BY <2>1 DEF UpTo
<1>5. /\ Len(LogOf(S)) = Cardinality(S)
      /\ \A e \in S : LogOf(S)[Cardinality(UpTo(S, e))] = e
  BY LogIs
<1>6. /\ Cardinality(R) \in Nat
      /\ \A k \in 1 .. Cardinality(R) :
           LogOf(R)[k] \in R /\ Cardinality(UpTo(R, LogOf(R)[k])) = k
      /\ \A e \in R : Cardinality(UpTo(R, e)) \in 1 .. Cardinality(R)
  BY <1>3, LogIs
<1>7. \A k \in 1 .. Cardinality(R) : LogOf(S)[k] = LogOf(R)[k]
  BY <1>4, <1>5, <1>6
<1>8. \A e \in R : \E k \in 1 .. Cardinality(R) : LogOf(S)[k] = e
  BY <1>4, <1>5, <1>6
<1>9. R = {LogOf(S)[i] : i \in 1 .. Cardinality(R)}
  BY <1>6, <1>7, <1>8
<1> QED
  BY <1>2, <1>5, <1>6, <1>9
-----------------------------------------------------------------------------
(* The refinement of DeviceLogs *)

\* Every replica holds finitely many rows.
FiniteBooks == \A d \in Device : IsFiniteSet(entries[d])

LEMMA BooksStayFinite == Spec => []FiniteBooks
<1>1. Init => FiniteBooks
  BY FS_EmptySet DEF Init, FiniteBooks
<1>2. ASSUME IndInv, FiniteBooks, [Next]_vars
      PROVE  FiniteBooks'
  <2>1. TypeOK /\ OwnStamps /\ LamportCovers /\ Provenance
    BY <1>2 DEF IndInv
  <2>2. ASSUME NEW d, NEW rev, NEW ps, Minted(d, rev, ps)
        PROVE  FiniteBooks'
    <3>1. /\ d \in Device /\ entries'[d] = entries[d] \cup {NewEntry(d, rev, ps)}
          /\ \A x \in Device \ {d} : entries'[x] = entries[x]
      BY <2>1, <2>2, MintedRows
    <3>2. IsFiniteSet(entries'[d])
      BY <1>2, <3>1, FS_AddElement DEF FiniteBooks
    <3> QED
      BY <1>2, <3>1, <3>2 DEF FiniteBooks
  <2>3. ASSUME NEW d, NEW from, NEW e, TakenOver(d, from, e)
        PROVE  FiniteBooks'
    <3>1. /\ d \in Device /\ entries'[d] = entries[d] \cup {e}
          /\ \A x \in Device \ {d} : entries'[x] = entries[x]
      BY <2>1, <2>3, TakenOverRows
    <3>2. IsFiniteSet(entries'[d])
      BY <1>2, <3>1, FS_AddElement DEF FiniteBooks
    <3> QED
      BY <1>2, <3>1, <3>2 DEF FiniteBooks
  <2>4. ASSUME Quiet
        PROVE  FiniteBooks'
    BY <1>2, <2>4 DEF FiniteBooks, Quiet
  <2> QED
    BY <1>2, <2>1, <2>2, <2>3, <2>4, StepKinds
<1> QED
  BY <1>1, <1>2, Invariance, PTL DEF Spec

\* What a replica holds of a log is a prefix, as long as the rows it has.
HeldCounts ==
  \A x \in Device :
    /\ Ordered(Own(x))
    /\ \A d \in Device :
         /\ HeldRows(d, x) \subseteq Own(x)
         /\ IsFiniteSet(HeldRows(d, x)) /\ Cardinality(HeldRows(d, x)) \in Nat
         /\ Cardinality(HeldRows(d, x)) <= Len(LogOf(Own(x)))
         /\ Held(d, x) = Cardinality(HeldRows(d, x))

LEMMA HeldIs ==
  ASSUME IndInv, FiniteBooks
  PROVE  HeldCounts
<1> SUFFICES ASSUME NEW x \in Device
             PROVE  /\ Ordered(Own(x))
                    /\ \A d \in Device :
                         /\ HeldRows(d, x) \subseteq Own(x)
                         /\ IsFiniteSet(HeldRows(d, x)) /\ Cardinality(HeldRows(d, x)) \in Nat
                         /\ Cardinality(HeldRows(d, x)) <= Len(LogOf(Own(x)))
                         /\ Held(d, x) = Cardinality(HeldRows(d, x))
  BY DEF HeldCounts
<1>1. Ordered(Own(x))
  <2>1. IsFiniteSet(Own(x))
    BY FS_Subset DEF FiniteBooks, Own
  <2> QED
    BY <2>1 DEF IndInv, TypeOK, WellFormed, OwnStamps, Own, Ordered
<1>2. ASSUME NEW d \in Device
      PROVE  /\ HeldRows(d, x) \subseteq Own(x)
             /\ IsFiniteSet(HeldRows(d, x)) /\ Cardinality(HeldRows(d, x)) \in Nat
             /\ Cardinality(HeldRows(d, x)) <= Len(LogOf(Own(x)))
             /\ Held(d, x) = Cardinality(HeldRows(d, x))
  <2> DEFINE S == Own(x)
             R == HeldRows(d, x)
  <2>1. R \in SUBSET S
    BY DEF IndInv, Provenance, HeldRows, Own
  <2>2. \A e \in R, q \in S : q.seq < e.seq => q \in R
    BY DEF IndInv, PrefixHeld, HeldRows, Own
  <2>3. Held(d, x) = IF Cardinality(R) <= Len(LogOf(S))
                          /\ R = {LogOf(S)[i] : i \in 1 .. Cardinality(R)}
                       THEN Cardinality(R) ELSE -1
    BY DEF Held
  <2>4. Ordered(S)
    BY <1>1
  <2> HIDE DEF S, R
  <2>5. /\ IsFiniteSet(R) /\ Cardinality(R) \in Nat
        /\ Cardinality(R) <= Len(LogOf(S))
        /\ R = {LogOf(S)[i] : i \in 1 .. Cardinality(R)}
    BY <2>1, <2>2, <2>4, PrefixIs
  <2> QED
    BY <2>1, <2>3, <2>5 DEF S, R
<1> QED
  BY <1>1, <1>2

\* An entry a device mints is appended to its own log.
LEMMA MintedAppends ==
  ASSUME IndInv, HeldCounts, HeldCounts', NEW d, NEW rev, NEW ps, Minted(d, rev, ps)
  PROVE  d \in Device /\ Logs!AppendOwn(d)
<1> DEFINE new == NewEntry(d, rev, ps)
<1>1. /\ d \in Device
      /\ WellFormed(new) /\ new.dev = d
      /\ entries'[d] = entries[d] \cup {new}
      /\ \A x \in Device \ {d} : entries'[x] = entries[x] /\ Own(x)' = Own(x)
      /\ Own(d)' = Own(d) \cup {new}
      /\ \A q \in Own(d) : q.seq < new.seq
  BY MintedRows DEF IndInv
<1> HIDE DEF new
<1>2. Ordered(Own(d)) /\ new.seq \in Nat
  BY <1>1 DEF HeldCounts, WellFormed
<1>3. /\ Cardinality(Own(d) \cup {new}) = Cardinality(Own(d)) + 1
      /\ LogOf(Own(d) \cup {new}) = Append(LogOf(Own(d)), new)
  BY <1>1, <1>2, LogAppends
<1>4. LogOf(Own(d)) \in Seq(Own(d))
  BY <1>2, LogIs
<1>5. /\ AllLogs'[d] = Append(AllLogs[d], new) /\ AllLogs[d] \in Seq(Own(d))
      /\ \A x \in Device \ {d} : AllLogs'[x] = AllLogs[x]
  BY <1>1, <1>3, <1>4 DEF AllLogs
<1>6. AllLogs'[d] # << >> /\ AllLogs'[d][Len(AllLogs'[d])] = new
  <2> DEFINE l == AllLogs[d]
             m == AllLogs'[d]
  <2>1. l \in Seq(Own(d)) /\ m = Append(l, new)
    BY <1>5
  <2> HIDE DEF l, m
  <2>2. l \in Seq(Own(d) \cup {new})
    BY <2>1
  <2>3. m # << >> /\ m[Len(m)] = new
    BY <2>1, <2>2
  <2> QED
    BY <2>3 DEF m
<1>7. AllLogs' = [AllLogs EXCEPT ![d] = Append(@, AllLogs'[d][Len(AllLogs'[d])])]
  <2>1. AllLogs = [x \in Device |-> AllLogs[x]] /\ AllLogs' = [x \in Device |-> AllLogs'[x]]
    BY DEF AllLogs
  <2> QED
    BY <1>5, <1>6, <2>1
<1>8. /\ HeldRows(d, d) = Own(d) /\ HeldRows(d, d)' = Own(d) \cup {new}
      /\ \A a, x \in Device : a # d \/ x # d => HeldRows(a, x)' = HeldRows(a, x)
  BY <1>1 DEF HeldRows, Own
<1>9. \A a, x \in Device : /\ Held(a, x) = Cardinality(HeldRows(a, x))
                          /\ Held(a, x)' = Cardinality(HeldRows(a, x)')
  BY DEF HeldCounts
<1>10. Held(d, d)' = Held(d, d) + 1
  <2>1. Held(d, d) = Cardinality(Own(d)) /\ Held(d, d)' = Cardinality(Own(d) \cup {new})
    BY <1>1, <1>8, <1>9
  <2> QED
    BY <1>3, <2>1
<1>11. ASSUME NEW a \in Device, NEW x \in Device, a # d \/ x # d
       PROVE  Held(a, x)' = Held(a, x)
  <2>1. HeldRows(a, x)' = HeldRows(a, x)
    BY <1>8, <1>11
  <2> QED
    BY <1>9, <2>1
<1>12. AllHeld' = [AllHeld EXCEPT ![d][d] = @ + 1]
  <2> DEFINE u == [AllHeld EXCEPT ![d][d] = @ + 1]
  <2>1. \A x \in Device : u[d][x] = Held(d, x)'
    BY <1>1, <1>10, <1>11 DEF AllHeld
  <2>2. u[d] = [x \in Device |-> Held(d, x)']
    <3>1. u[d] = [x \in Device |-> u[d][x]]
      BY <1>1 DEF AllHeld
    <3> QED
      BY <2>1, <3>1
  <2>3. \A a \in Device \ {d} : u[a] = [x \in Device |-> Held(a, x)']
    BY <1>11 DEF AllHeld
  <2>4. u = [a \in Device |-> u[a]]
    BY DEF AllHeld
  <2> HIDE DEF u
  <2>5. AllHeld' = [a \in Device |-> [x \in Device |-> Held(a, x)']]
    BY DEF AllHeld
  <2>6. \A a \in Device : u[a] = [x \in Device |-> Held(a, x)']
    BY <2>2, <2>3
  <2>7. AllHeld' = u
    BY <2>4, <2>5, <2>6
  <2> QED
    BY <2>7 DEF u
<1> QED
  BY <1>1, <1>6, <1>7, <1>12 DEF Logs!AppendOwn

\* An entry a replica takes over is the next item of a log it knows.
LEMMA TakenOverLearns ==
  ASSUME IndInv, HeldCounts, HeldCounts', NEW d, NEW from, NEW e, TakenOver(d, from, e)
  PROVE  d \in Device /\ e.dev \in Device /\ Logs!Learn(d, e.dev)
<1>1. /\ d \in Device /\ WellFormed(e) /\ e \in Own(e.dev)
      /\ entries'[d] = entries[d] \cup {e}
      /\ \A x \in Device \ {d} : entries'[x] = entries[x]
      /\ \A x \in Device : Own(x)' = Own(x)
  BY TakenOverRows DEF IndInv
<1>2. e.dev \in Device /\ e \notin entries[d]
  BY <1>1 DEF WellFormed, TakenOver, Apply, Hashes
<1> DEFINE R == HeldRows(d, e.dev)
<1>3. /\ R' = R \cup {e} /\ e \notin R
      /\ \A a, x \in Device : a # d \/ x # e.dev => HeldRows(a, x)' = HeldRows(a, x)
  BY <1>1, <1>2 DEF HeldRows
<1>4. \A a, x \in Device : /\ Held(a, x) = Cardinality(HeldRows(a, x))
                          /\ Held(a, x)' = Cardinality(HeldRows(a, x)')
  BY DEF HeldCounts
<1>5. IsFiniteSet(R) /\ Cardinality(R) \in Nat
  BY <1>1, <1>2 DEF HeldCounts
<1>6. Cardinality(R') = Cardinality(R) + 1
  BY <1>3, <1>5, FS_AddElement
<1>7. /\ Held(d, e.dev)' = Held(d, e.dev) + 1
      /\ \A a, x \in Device : a # d \/ x # e.dev => Held(a, x)' = Held(a, x)
  BY <1>1, <1>2, <1>3, <1>4, <1>6
<1>8. AllHeld' = [AllHeld EXCEPT ![d][e.dev] = @ + 1]
  BY <1>1, <1>2, <1>7 DEF AllHeld
<1>9. AllLogs' = AllLogs
  BY <1>1 DEF AllLogs
<1>10. AllHeld[d][e.dev] < Len(AllLogs[e.dev])
  <2>1. Cardinality(R') <= Len(LogOf(Own(e.dev)))
    BY <1>1, <1>2 DEF HeldCounts
  <2>2. AllHeld[d][e.dev] = Cardinality(R) /\ AllLogs[e.dev] = LogOf(Own(e.dev))
    BY <1>1, <1>2, <1>4 DEF AllHeld, AllLogs
  <2>3. Len(LogOf(Own(e.dev))) \in Nat
    BY <1>2, LogIs DEF HeldCounts
  <2> QED
    BY <1>5, <1>6, <2>1, <2>2, <2>3
<1> QED
  BY <1>1, <1>2, <1>8, <1>9, <1>10 DEF Logs!Learn

\* The replicas implement per-device logs of which everyone holds a prefix:
\* minting appends, replaying extends a known prefix by the next item, and
\* nothing else shows.
THEOREM ReplicasAreDeviceLogs == Spec => ImplementsDeviceLogs
<1>1. Init => Logs!LogInit
  <2> SUFFICES ASSUME Init
               PROVE  Logs!LogInit
    OBVIOUS
  <2>1. \A x \in Device : Own(x) = {} /\ \A d \in Device : HeldRows(d, x) = {}
    BY DEF Init, Own, HeldRows
  <2>2. Cardinality({}) = 0
    BY FS_EmptySet
  <2>3. LogOf({}) = << >>
    BY <2>2 DEF LogOf
  <2>4. \A d, x \in Device : Held(d, x) = 0
    BY <2>1, <2>2, <2>3 DEF Held
  <2> QED
    BY <2>1, <2>3, <2>4 DEF Logs!LogInit, AllLogs, AllHeld
<1>2. IndInv /\ FiniteBooks => HeldCounts
  BY HeldIs
<1>3. ASSUME IndInv, HeldCounts, HeldCounts', [Next]_vars
      PROVE  [Logs!LogNext]_(Logs!logVars)
  <2>1. ASSUME NEW d, NEW rev, NEW ps, Minted(d, rev, ps)
        PROVE  Logs!LogNext
    BY <1>3, <2>1, MintedAppends DEF Logs!LogNext
  <2>2. ASSUME NEW d, NEW from, NEW e, TakenOver(d, from, e)
        PROVE  Logs!LogNext
    BY <1>3, <2>2, TakenOverLearns DEF Logs!LogNext
  <2>3. ASSUME Quiet
        PROVE  UNCHANGED Logs!logVars
    <3>1. \A x \in Device : Own(x)' = Own(x) /\ \A d \in Device : HeldRows(d, x)' = HeldRows(d, x)
      BY <2>3 DEF Quiet, Own, HeldRows
    <3>2. AllLogs' = AllLogs
      BY <3>1 DEF AllLogs
    <3>3. AllHeld' = AllHeld
      BY <1>3, <3>1 DEF AllHeld, HeldCounts
    <3> QED
      BY <3>2, <3>3 DEF Logs!logVars
  <2>4. TypeOK
    BY <1>3 DEF IndInv
  <2> QED
    BY <1>3, <2>1, <2>2, <2>3, <2>4, StepKinds
<1>4. IndInv /\ HeldCounts /\ HeldCounts' /\ [Next]_vars => [Logs!LogNext]_(Logs!logVars)
  BY <1>3
<1> QED
  BY <1>1, <1>2, <1>4, Invariance, BooksStayFinite, PTL
     DEF Spec, ImplementsDeviceLogs, Logs!LogSpec
=============================================================================
