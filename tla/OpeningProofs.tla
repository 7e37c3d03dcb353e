---------------------------- MODULE OpeningProofs ---------------------------
(***************************************************************************)
(* What holds of one book file for any number of processes, migrations,    *)
(* charts and rows: whoever opens, mints, seeds, writes, fails and quits   *)
(* in whatever order.  The argument keeps track of who can still give the  *)
(* book what it lacks.                                                     *)
(***************************************************************************)
EXTENDS Opening, SequenceTheorems, TLAPS

Early == {"probed", "migrate", "mint", "identify", "label"}   \* not yet open

Runs == [at : Place, seen : Nat, todo : Seq(Code), creating : BOOLEAN]

\* The shapes, and what a process may still seed has no code twice.
Shape ==
  /\ TypeOK
  /\ control \in [Control -> Nat] /\ accounts \in Seq(Code)
  /\ run \in [Opener -> Runs]
  /\ \A p \in Opener : IsInjective(run[p].todo)

\* A process has read a version the book has reached, and is past migrate only
\* at the latest; one that has only probed is to create; no process is in the
\* file before there is one.
VersionRead == \A p \in Opener :
  /\ run[p].at = "migrate" => run[p].seen <= version
  /\ run[p].at \notin {"closed", "probed", "migrate"} => version = Latest
  /\ run[p].at = "probed" => run[p].creating
FileFirst ==
  ~exists => accounts = << >> /\ \A p \in Opener : run[p].at \in {"closed", "probed"}

\* What no process found missing while another was to give it, at most one
\* process is about to give.
OneGiver == \A x \in {"device", "book", "accounts"} \ raced :
  \A p, q \in Opener : Gives(run[p], x) /\ Gives(run[q], x) => p = q

\* The identity is minted only while it is missing, and is there before a row.
Identified == \A p \in Opener :
  /\ run[p].at \notin {"closed", "probed", "migrate", "mint"} => device # NoId
  /\ run[p].at = "mint" => device = NoId \/ "device" \in raced
  /\ run[p].at = "label" => bookId = NoId \/ "book" \in raced
RowsAreNamed == device = NoId => rows = << >>

\* The clock and the counters are ahead of every row; the counter of an older
\* book is the single one until migration v6 has moved it.
ClockAhead == "device" \notin raced => \A i \in DOMAIN rows : rows[i].lamport <= lamport
CounterAhead ==
  IF legacySeq = 0 THEN \A i \in DOMAIN rows : rows[i].seq < nextSeq[rows[i].dev]
  ELSE /\ device = Old /\ version < Latest
       /\ \A i \in DOMAIN rows : rows[i].dev = Old /\ rows[i].seq < legacySeq

\* Whoever seeds has yet to seed what is not there; whoever has probed for the
\* file, and is to seed what it opens, will find no account in it.
Pending(p) == IF run[p].at = "record" THEN Range(Tail(run[p].todo)) ELSE Range(run[p].todo)
SeedsTheMissing == "accounts" \notin raced =>
  /\ \A p \in Opener : run[p].at \in AtWork => Range(accounts) \cap Pending(p) = {}
  /\ \A p \in Opener : run[p].creating /\ run[p].at \in Early => accounts = << >>

\* A control account about to be recorded is the one just created.
RecordsItsOwn == \A p \in Opener : run[p].at = "record" =>
  /\ run[p].todo # << >> /\ Head(run[p].todo) \in Control
  /\ run[p].seen \in DOMAIN accounts /\ accounts[run[p].seen] = Head(run[p].todo)

\* A process that is to seed is to seed every control account; and while one is
\* missing, no seeding having been cut short, no account is there or the missing
\* ones are still to come from those who seed.
ToSeed(p, r) == r.at = "count" \/ (r.at \in Early /\ (p \in Server \/ r.creating))
SeedsAll == \A p \in Opener : ToSeed(p, run[p]) => Control \subseteq Range(run[p].todo)
MissingControls == {c \in Control : control[c] = 0}
ControlsToCome == "seeding" \notin faulted /\ "controls" \notin raced /\ MissingControls # {} =>
  /\ accounts = << >> \/ \E p \in Opener : run[p].at \in AtWork
  /\ \A p \in Opener : run[p].at \in AtWork => MissingControls \subseteq Range(run[p].todo)
  /\ \A p \in Server : run[p].at # "serving"

IndInv ==
  /\ Shape /\ VersionRead /\ FileFirst /\ OneGiver /\ Identified /\ RowsAreNamed
  /\ ClockAhead /\ ClockForward /\ CounterAhead /\ StampsUnique
  /\ SeedsTheMissing /\ SeededOnce /\ RecordsItsOwn /\ ControlsResolve
  /\ SeedsAll /\ ControlsToCome
-----------------------------------------------------------------------------
\* A sequence with one more element at its end.
LEMMA AppendFacts ==
  ASSUME NEW S, NEW s \in Seq(S), NEW e \in S
  PROVE  /\ Append(s, e) \in Seq(S) /\ Len(Append(s, e)) = Len(s) + 1 /\ Len(s) \in Nat
         /\ DOMAIN s = 1 .. Len(s) /\ DOMAIN Append(s, e) = 1 .. Len(s) + 1
         /\ \A i \in 1 .. Len(s) : Append(s, e)[i] = s[i]
         /\ Append(s, e)[Len(s) + 1] = e
<1>1. /\ Append(s, e) \in Seq(S) /\ Len(Append(s, e)) = Len(s) + 1
      /\ \A i \in 1 .. Len(s) : Append(s, e)[i] = s[i]
      /\ Append(s, e)[Len(s) + 1] = e
  BY AppendProperties
<1>2. Len(s) \in Nat /\ DOMAIN s = 1 .. Len(s)
  BY LenProperties
<1>3. DOMAIN Append(s, e) = 1 .. Len(s) + 1
  BY <1>1, LenProperties
<1> QED
  BY <1>1, <1>2, <1>3

\* Its elements, and that they stay distinct.
LEMMA AppendRange ==
  ASSUME NEW S, NEW s \in Seq(S), NEW e \in S
  PROVE  /\ Range(Append(s, e)) = Range(s) \cup {e}
         /\ IsInjective(s) /\ e \notin Range(s) => IsInjective(Append(s, e))
<1> DEFINE t == Append(s, e)
           L == Len(s)
<1>1. /\ DOMAIN s = 1 .. L /\ L \in Nat /\ t[L + 1] = e
      /\ DOMAIN t = 1 .. L + 1 /\ \A i \in 1 .. L : t[i] = s[i]
  BY AppendFacts
<1> HIDE DEF t, L
<1>2. PICK k \in Nat : k = L + 1
  BY <1>1
<1>3. DOMAIN t = (DOMAIN s) \cup {k} /\ k \notin DOMAIN s /\ t[k] = e
  BY <1>1, <1>2
<1>4. \A i \in DOMAIN s : t[i] = s[i]
  BY <1>1
<1>5. Range(t) = Range(s) \cup {e}
  BY <1>3, <1>4 DEF Range
<1>6. ASSUME IsInjective(s), e \notin Range(s)
      PROVE  IsInjective(t)
  BY <1>3, <1>4, <1>6 DEF IsInjective, Range
<1> QED
  BY <1>5, <1>6 DEF t

\* A sequence of distinct elements without its head.
LEMMA TailFacts ==
  ASSUME NEW S, NEW s \in Seq(S), s # << >>
  PROVE  /\ Head(s) \in S /\ Tail(s) \in Seq(S)
         /\ Range(s) = {Head(s)} \cup Range(Tail(s))
         /\ IsInjective(s) => IsInjective(Tail(s)) /\ Head(s) \notin Range(Tail(s))
<1> DEFINE t == Tail(s)
           L == Len(s)
<1>1. /\ Head(s) \in S /\ t \in Seq(S) /\ Head(s) = s[1]
      /\ Len(t) = L - 1 /\ \A i \in 1 .. L - 1 : t[i] = s[i + 1]
  BY HeadTailProperties
<1>2. L \in Nat /\ L # 0 /\ DOMAIN s = 1 .. L /\ DOMAIN t = 1 .. L - 1
  BY <1>1, LenProperties, EmptySeq
<1> HIDE DEF t, L
<1>3. \A i \in 1 .. L : i = 1 \/ i - 1 \in 1 .. L - 1
  BY <1>2
<1>4. \A i \in 1 .. L - 1 : t[i] = s[i + 1] /\ i + 1 \in 1 .. L /\ i + 1 # 1
  BY <1>1, <1>2
<1>5. ASSUME NEW i \in 1 .. L, i # 1
      PROVE  \E j \in 1 .. L - 1 : i = j + 1 /\ t[j] = s[i]
  <2>1. i - 1 \in 1 .. L - 1 /\ i = (i - 1) + 1
    BY <1>2, <1>5
  <2>2. PICK j \in 1 .. L - 1 : i = j + 1
    BY <2>1
  <2> QED
    BY <1>4, <2>2
<1>6. 1 \in 1 .. L
  BY <1>2
<1>7. Range(s) = {Head(s)} \cup Range(t)
  <2>1. Range(s) \subseteq {s[1]} \cup Range(t)
    BY <1>2, <1>5 DEF Range
  <2>2. {s[1]} \cup Range(t) \subseteq Range(s)
    BY <1>2, <1>4, <1>6 DEF Range
  <2> QED
    BY <1>1, <2>1, <2>2
<1>8. ASSUME IsInjective(s)
      PROVE  IsInjective(t) /\ Head(s) \notin Range(t)
  <2>1. \A i, j \in 1 .. L : s[i] = s[j] => i = j
    BY <1>2, <1>8 DEF IsInjective
  <2>2. ASSUME NEW i \in DOMAIN t, NEW j \in DOMAIN t, t[i] = t[j]
        PROVE  i = j
    <3>1. i + 1 = j + 1
      BY <1>2, <1>4, <2>1, <2>2
    <3> QED
      BY <1>2, <3>1
  <2>3. \A i \in DOMAIN t : t[i] # s[1]
    BY <1>2, <1>4, <1>6, <2>1
  <2> QED
    BY <1>1, <2>2, <2>3 DEF IsInjective, Range
<1> QED
  BY <1>1, <1>7, <1>8 DEF t
-----------------------------------------------------------------------------
\* Either chart is a finite list of distinct codes with every control account.
LEMMA ChartFacts ==
  ASSUME NEW chart \in {Full, SystemOnly}
  PROVE  /\ chart \in Seq(Code) /\ Len(chart) \in Nat /\ DOMAIN chart = 1 .. Len(chart)
         /\ IsInjective(chart) /\ Control \subseteq Range(chart)
<1>1. Range(SystemOnly) \subseteq Code
  BY ChartAssumption, ElementOfSeq, LenProperties DEF Range
<1>2. chart \in Seq(Code) /\ IsInjective(chart)
  BY ChartAssumption
<1>3. Control \subseteq Range(chart)
  BY <1>1, ChartAssumption DEF Code
<1> QED
  BY <1>2, <1>3, LenProperties

\* No file, no device and nobody opening at the start.
LEMMA InitInv ==
  ASSUME Init
  PROVE  IndInv
<1>1. /\ raced = {} /\ faulted = {} /\ nextSeq = [i \in Id |-> 1]
      /\ \A p \in Opener : /\ run[p].at = "closed" /\ run[p].todo = << >>
                            /\ run[p].creating = FALSE
      /\ run \in [Opener -> Runs]
  BY DEF Init, Stopped, Place, Runs
<1>2. /\ Full \in Seq(Code) /\ Len(Full) \in Nat /\ DOMAIN Full = 1 .. Len(Full)
      /\ IsInjective(Full) /\ Control \subseteq Range(Full)
  BY ChartFacts
<1>3. \A p \in Opener : IsInjective(run[p].todo)
  BY <1>1 DEF IsInjective
<1>4. /\ VersionRead /\ SeedsTheMissing /\ RecordsItsOwn /\ SeedsAll /\ Identified /\ OneGiver
  BY <1>1 DEF VersionRead, SeedsTheMissing, RecordsItsOwn, SeedsAll, Identified, OneGiver, Gives,
     Early, AtWork, ToSeed
<1>9. /\ nextSeq \in [Id -> Nat] /\ \A p \in Opener : run[p].at \in Place
      /\ raced \subseteq Parts /\ faulted \subseteq {"opening", "seeding"}
  <2>1. \A p \in Opener : run[p].at \in Place
    BY <1>1, Zenon DEF Place
  <2> QED
    BY <1>1, <2>1
<1>5. CASE NoBook
  <2>1. TypeOK
    <3>1. /\ exists = FALSE /\ version = 0 /\ device = NoId /\ bookId = NoId
          /\ lamport = 0 /\ legacySeq = 0 /\ rows = << >>
      BY <1>5 DEF NoBook
    <3>3. 0 \in 0 .. Latest
      BY VersionAssumption
    <3>4. << >> \in Seq([dev : Id, seq : Nat, lamport : Nat])
      OBVIOUS
    <3>2. DOMAIN control = Control /\ \A c \in Control : control[c] \in 0 .. Len(accounts)
      BY <1>5 DEF NoBook
    <3> QED
      BY <1>9, <3>1, <3>2, <3>3, <3>4 DEF TypeOK
  <2>2. control \in [Control -> Nat] /\ accounts \in Seq(Code)
    BY <1>5 DEF NoBook
  <2>3. FileFirst /\ RowsAreNamed /\ ClockAhead /\ ClockForward /\ CounterAhead
        /\ StampsUnique /\ SeededOnce
    BY <1>1, <1>5 DEF NoBook, FileFirst, RowsAreNamed, ClockAhead, ClockForward, CounterAhead,
       StampsUnique, SeededOnce
  <2>4. ControlsResolve
    BY <1>5 DEF NoBook, ControlsResolve
  <2>5. ControlsToCome
    <3>1. accounts = << >> /\ \A p \in Opener : run[p].at = "closed"
      BY <1>1, <1>5 DEF NoBook
    <3> QED
      BY <3>1 DEF ControlsToCome, AtWork, Opener
  <2> QED
    BY <1>1, <1>3, <1>4, <2>1, <2>2, <2>3, <2>4, <2>5 DEF IndInv, Shape
<1>6. CASE OldBook
  <2>1. \A c \in Control : control[c] \in 1 .. Len(Full) /\ Full[control[c]] = c
    BY <1>2, <1>6 DEF OldBook, Range
  <2>2. /\ DOMAIN rows = 1 .. Len(Full)
        /\ \A i \in 1 .. Len(Full) : rows[i].dev = Old /\ rows[i].seq = i /\ rows[i].lamport = i
    BY <1>2, <1>6 DEF OldBook
  <2>3. rows \in Seq([dev : Id, seq : Nat, lamport : Nat])
    <3> DEFINE r(i) == [dev |-> Old, seq |-> i, lamport |-> i]
    <3>1. \A i \in 1 .. Len(Full) : r(i) \in [dev : Id, seq : Nat, lamport : Nat]
      BY DEF Id
    <3>2. rows = [i \in 1 .. Len(Full) |-> r(i)]
      BY <1>2, <1>6 DEF OldBook
    <3> HIDE DEF r
    <3>3. [i \in 1 .. Len(Full) |-> r(i)] \in Seq([dev : Id, seq : Nat, lamport : Nat])
      BY <1>2, <3>1, IsASeq
    <3> QED
      BY <3>2, <3>3, Zenon
  <2>4. control \in [Control -> Nat] /\ accounts \in Seq(Code) /\ accounts = Full
    BY <1>2, <1>6, <2>1 DEF OldBook
  <2>5. /\ exists = TRUE /\ version \in OldVersions /\ device = Old /\ bookId = NoId
        /\ lamport = Len(Full) /\ legacySeq = Len(Full) + 1
    BY <1>6 DEF OldBook
  <2>6. version \in 0 .. Latest /\ version < Latest
    BY <2>5, VersionAssumption
  <2>7. TypeOK
    <3>1. device \in Id \cup {NoId} /\ bookId \in Id \cup {NoId} /\ lamport \in Nat /\ legacySeq \in Nat
      BY <1>2, <2>5 DEF Id
    <3>2. DOMAIN control = Control /\ \A c \in Control : control[c] \in 0 .. Len(accounts)
      BY <1>2, <2>1, <2>4
    <3> QED
      BY <1>9, <2>3, <2>5, <2>6, <3>1, <3>2 DEF TypeOK
  <2>8. FileFirst /\ RowsAreNamed
    BY <2>5, IdAssumption DEF FileFirst, RowsAreNamed, Id
  <2>9. ClockAhead /\ ClockForward /\ CounterAhead /\ StampsUnique
    BY <1>2, <2>2, <2>5, <2>6 DEF ClockAhead, ClockForward, CounterAhead, StampsUnique
  <2>10. SeededOnce /\ ControlsResolve
    BY <1>2, <2>1, <2>4 DEF SeededOnce, ControlsResolve, IsInjective
  <2>11. ControlsToCome
    BY <1>1, <2>1 DEF ControlsToCome, MissingControls
  <2> QED
    BY <1>1, <1>3, <1>4, <2>4, <2>7, <2>8, <2>9, <2>10, <2>11 DEF IndInv, Shape
<1> QED
  BY <1>5, <1>6 DEF Init
-----------------------------------------------------------------------------
(* A process moves on, to r, and the book is as it was, but for its id *)

Moves(p, r) ==
  /\ run' = [run EXCEPT ![p] = r]
  /\ UNCHANGED <<exists, version, device, lamport, legacySeq, nextSeq, rows, accounts, control>>
  /\ \/ bookId' = bookId
     \/ bookId' = p /\ run[p].at = "label" /\ r.at # "label"
  /\ raced \subseteq raced' /\ raced' \subseteq Parts
  /\ faulted \subseteq faulted' /\ faulted' \subseteq {"opening", "seeding"}
\* It may be there: it has opened the book and found what it needs, ...
MayOpen(r) ==
  /\ ~exists => r.at \in {"closed", "probed"}
  /\ r.at = "migrate" => r.seen <= version
  /\ r.at \notin {"closed", "probed", "migrate"} => version = Latest
  /\ r.at = "probed" => r.creating
  /\ r.at \notin {"closed", "probed", "migrate", "mint"} => device # NoId
  /\ r.at = "mint" => device = NoId \/ "device" \in raced'
  /\ r.at = "label" => bookId = NoId \/ "book" \in raced'
\* ... it is alone about to give what it is about to give, ...
MayGive(p, r) ==
  \A x \in {"device", "book", "accounts"} \ raced' :
    Gives(r, x) => \A q \in Opener \ {p} : ~Gives(run[q], x)
\* ... it seeds what is missing, ...
MaySeed(p, r) ==
  /\ r.at # "record"
  /\ "accounts" \notin raced' =>
       /\ r.at \in AtWork => Range(accounts) \cap Range(r.todo) = {}
       /\ r.creating /\ r.at \in Early => accounts = << >>
  /\ ToSeed(p, r) => Control \subseteq Range(r.todo)
\* ... and leaves no control account behind.
MayLeave(p, r) ==
  "seeding" \notin faulted' /\ "controls" \notin raced' /\ MissingControls # {} =>
    /\ run[p].at \in AtWork => r.at \in AtWork
    /\ r.at \in AtWork => MissingControls \subseteq Range(r.todo)
    /\ p \in Server => r.at # "serving"

\* An opener that goes on in its run keeps the invariant.
LEMMA MoveKeeps ==
  ASSUME IndInv, NEW p \in Opener, NEW r \in Runs, IsInjective(r.todo),
         Moves(p, r), MayOpen(r), MayGive(p, r), MaySeed(p, r), MayLeave(p, r)
  PROVE  IndInv'
<1>1. /\ run' \in [Opener -> Runs] /\ run'[p] = r
      /\ \A q \in Opener : q # p => run'[q] = run[q]
      /\ UNCHANGED <<exists, version, device, lamport, legacySeq, nextSeq, rows, accounts, control>>
      /\ raced \subseteq raced' /\ raced' \subseteq Parts
      /\ faulted \subseteq faulted' /\ faulted' \subseteq {"opening", "seeding"}
      /\ bookId' = bookId \/ (bookId' = p /\ run[p].at = "label" /\ r.at # "label")
  BY DEF Moves, IndInv, Shape
<1>2. MissingControls' = MissingControls
  BY <1>1 DEF MissingControls
<1>4. Shape'
  <2>1. \A q \in Opener : run'[q].at \in Place
    BY <1>1 DEF Runs
  <2>2. \A q \in Opener : IsInjective(run'[q].todo)
    BY <1>1 DEF IndInv, Shape
  <2>3. TypeOK'
    BY <1>1, <2>1 DEF IndInv, Shape, TypeOK, Id
  <2> QED
    BY <1>1, <2>2, <2>3 DEF IndInv, Shape
<1>5. VersionRead' /\ Identified' /\ RowsAreNamed'
  <2>1. VersionRead' /\ RowsAreNamed'
    BY <1>1 DEF IndInv, MayOpen, VersionRead, RowsAreNamed
  <2>2. \A q \in Opener :
          /\ run'[q].at \notin {"closed", "probed", "migrate", "mint"} => device # NoId
          /\ run'[q].at = "mint" => device = NoId \/ "device" \in raced'
    BY <1>1 DEF IndInv, MayOpen, Identified
  <2>3. ASSUME NEW q \in Opener, run'[q].at = "label"
        PROVE  bookId' = NoId \/ "book" \in raced'
    <3>1. CASE q = p
      BY <1>1, <2>3, <3>1 DEF MayOpen
    <3>2. CASE q # p /\ ~(bookId = NoId /\ run[p].at = "label")
      BY <1>1, <2>3, <3>2 DEF IndInv, Identified
    <3>3. CASE q # p /\ bookId = NoId /\ run[p].at = "label"
      BY <1>1, <2>3, <3>3 DEF IndInv, OneGiver, Gives
    <3> QED
      BY <3>1, <3>2, <3>3
  <2> QED
    BY <1>1, <2>1, <2>2, <2>3 DEF Identified
<1>6. FileFirst' /\ OneGiver'
  <2>1. FileFirst'
    BY <1>1 DEF IndInv, FileFirst, MayOpen
  <2>2. ASSUME NEW x \in {"device", "book", "accounts"} \ raced',
               NEW q1 \in Opener, NEW q2 \in Opener, Gives(run'[q1], x), Gives(run'[q2], x)
        PROVE  q1 = q2
    <3>1. x \in {"device", "book", "accounts"} \ raced
      BY <1>1
    <3> HIDE DEF Gives
    <3>2. CASE q1 # p /\ q2 # p
      BY <1>1, <2>2, <3>1, <3>2 DEF IndInv, OneGiver
    <3>3. CASE q1 = p /\ q2 # p
      BY <1>1, <2>2, <3>3 DEF MayGive
    <3>4. CASE q1 # p /\ q2 = p
      BY <1>1, <2>2, <3>4 DEF MayGive
    <3> QED
      BY <3>2, <3>3, <3>4
  <2>3. OneGiver'
    <3>1. \A x \in {"device", "book", "accounts"} \ raced' :
            \A q1, q2 \in Opener : Gives(run'[q1], x) /\ Gives(run'[q2], x) => q1 = q2
      BY <2>2
    <3> QED
      BY <3>1 DEF OneGiver, Gives, AtWork
  <2> QED
    BY <2>1, <2>3
<1>7. ClockAhead' /\ ClockForward' /\ CounterAhead' /\ StampsUnique' /\ SeededOnce' /\ ControlsResolve'
  BY <1>1 DEF IndInv, ClockAhead, ClockForward, CounterAhead, StampsUnique, SeededOnce, ControlsResolve
<1>8. SeedsTheMissing'
  <2> SUFFICES ASSUME "accounts" \notin raced'
               PROVE  /\ \A q \in Opener : run'[q].at \in AtWork => Range(accounts) \cap Pending(q)' = {}
                      /\ \A q \in Opener : run'[q].creating /\ run'[q].at \in Early => accounts = << >>
    BY <1>1 DEF SeedsTheMissing
  <2>1. ASSUME NEW q \in Opener, run'[q].at \in AtWork
        PROVE  Range(accounts) \cap Pending(q)' = {}
    BY <1>1, <2>1 DEF IndInv, SeedsTheMissing, MaySeed, Pending
  <2>2. \A q \in Opener : run'[q].creating /\ run'[q].at \in Early => accounts = << >>
    BY <1>1 DEF IndInv, SeedsTheMissing, MaySeed
  <2> QED
    BY <2>1, <2>2
<1>9. RecordsItsOwn' /\ SeedsAll'
  <2>1. RecordsItsOwn'
    BY <1>1 DEF IndInv, RecordsItsOwn, MaySeed
  <2>2. ASSUME NEW q \in Opener, ToSeed(q, run'[q])
        PROVE  Control \subseteq Range(run'[q].todo)
    BY <1>1, <2>2 DEF IndInv, SeedsAll, MaySeed
  <2> QED
    BY <2>1, <2>2 DEF SeedsAll, ToSeed
<1>10. ControlsToCome'
  <2> SUFFICES ASSUME "seeding" \notin faulted', "controls" \notin raced', MissingControls # {}
               PROVE  /\ accounts = << >> \/ \E q \in Opener : run'[q].at \in AtWork
                      /\ \A q \in Opener : run'[q].at \in AtWork => MissingControls \subseteq Range(run'[q].todo)
                      /\ \A q \in Server : run'[q].at # "serving"
    BY <1>1, <1>2 DEF ControlsToCome
  <2>1. /\ accounts = << >> \/ \E q \in Opener : run[q].at \in AtWork
        /\ \A q \in Opener : run[q].at \in AtWork => MissingControls \subseteq Range(run[q].todo)
        /\ \A q \in Server : run[q].at # "serving"
    BY <1>1 DEF IndInv, ControlsToCome
  <2>2. accounts = << >> \/ \E q \in Opener : run'[q].at \in AtWork
    BY <1>1, <2>1 DEF MayLeave
  <2>3. \A q \in Opener : run'[q].at \in AtWork => MissingControls \subseteq Range(run'[q].todo)
    BY <1>1, <2>1 DEF MayLeave
  <2>4. \A q \in Server : run'[q].at # "serving"
    BY <1>1, <2>1 DEF MayLeave, Opener
  <2> QED
    BY <2>2, <2>3, <2>4
<1> QED
  BY <1>4, <1>5, <1>6, <1>7, <1>8, <1>9, <1>10 DEF IndInv

\* A process that looks for a part, and finds it missing, is alone about to give
\* it, or the race is on record.
LEMMA LookingFacts ==
  ASSUME IndInv, NEW p \in Opener, NEW x \in Parts, Looks(p, x)
  PROVE  /\ raced \subseteq raced' /\ raced' \subseteq Parts
         /\ Lacks(x) /\ x \notin raced' => \A q \in Opener \ {p} : ~Gives(run[q], x)
<1>1. raced \subseteq Parts
  BY DEF IndInv, Shape, TypeOK
<1> QED
  BY <1>1 DEF Looks

\* A process is alone about to give what it already was, or what it has just
\* looked for.
LEMMA MayGiveWhat ==
  ASSUME IndInv, NEW p \in Opener, NEW r, raced \subseteq raced',
         \A x \in {"device", "book", "accounts"} \ raced' : Gives(r, x) =>
           Gives(run[p], x) \/ \A q \in Opener \ {p} : ~Gives(run[q], x)
  PROVE  MayGive(p, r)
<1>1. \A x \in {"device", "book", "accounts"} \ raced : \A q \in Opener :
        Gives(run[p], x) /\ Gives(run[q], x) => p = q
  BY DEF IndInv, OneGiver
<1> HIDE DEF Gives
<1> QED
  BY <1>1 DEF MayGive

\* The moves of a process, one at a time.
MovesOn(p) ==
  \/ /\ UNCHANGED history
     /\ \/ MigrateStale(p) \/ MintBook(p) \/ SeedDone(p)
        \/ \E chart \in {Full, SystemOnly} : Onboard(p, chart)
  \/ /\ UNCHANGED faulted
     /\ FindDevice(p) \/ FindBook(p) \/ Count(p)
  \/ \E chart \in {Full, SystemOnly} : Probe(p, chart)
  \/ SeedFails(p)
  \/ Quit(p)

\* A process back at its menu, with nothing to seed.
LEMMA IdleFacts ==
  ASSUME NEW s \in Runs
  PROVE  LET r == [s EXCEPT !.at = "serving", !.todo = << >>]
         IN  /\ r \in Runs /\ r.at = "serving" /\ r.todo = << >> /\ r.creating = s.creating
             /\ IsInjective(r.todo)
<1> DEFINE e == << >>
<1>1. e \in Seq(Code) /\ IsInjective(e)
  BY DEF IsInjective
<1> HIDE DEF e
<1>2. /\ [s EXCEPT !.at = "serving", !.todo = e] \in Runs
      /\ [s EXCEPT !.at = "serving", !.todo = e].todo = e
      /\ [s EXCEPT !.at = "serving", !.todo = e].at = "serving"
      /\ [s EXCEPT !.at = "serving", !.todo = e].creating = s.creating
  BY <1>1 DEF Runs, Place
<1> QED
  BY <1>1, <1>2 DEF e

\* All the steps that read, check or give up keep the invariant.
LEMMA MovesKeep ==
  ASSUME IndInv, NEW p \in Opener,
         MovesOn(p)
  PROVE  IndInv'
<1>0. /\ run \in [Opener -> Runs] /\ run[p] \in Runs /\ IsInjective(run[p].todo)
      /\ raced \subseteq Parts /\ faulted \subseteq {"opening", "seeding"}
  BY DEF IndInv, Shape, TypeOK
<1> DEFINE s == run[p]
           Fits(r) == Moves(p, r) /\ r \in Runs /\ IsInjective(r.todo)
                       /\ MayOpen(r) /\ MayGive(p, r) /\ MaySeed(p, r) /\ MayLeave(p, r)
<1>1. ASSUME NEW r, Fits(r)
      PROVE  IndInv'
  BY <1>1, MoveKeeps
<1>8. /\ Stopped \in Runs /\ IsInjective(Stopped.todo)
      /\ MayOpen(Stopped) /\ MayGive(p, Stopped) /\ MaySeed(p, Stopped)
  <2>1. Stopped \in Runs /\ IsInjective(Stopped.todo)
    BY DEF Stopped, Runs, Place, IsInjective
  <2>2. MayOpen(Stopped) /\ MaySeed(p, Stopped)
    BY DEF Stopped, MayOpen, MaySeed, ToSeed, AtWork, Early
  <2>3. MayGive(p, Stopped)
    BY DEF Stopped, MayGive, Gives, AtWork
  <2> QED
    BY <2>1, <2>2, <2>3
<1>2. CASE MigrateStale(p) /\ UNCHANGED history
  <2>1. Moves(p, Stopped)
    BY <1>0, <1>2 DEF MigrateStale, Stop, Moves, history, book
  <2>2. MayLeave(p, Stopped)
    BY <1>2 DEF Stopped, MayLeave, MigrateStale, AtWork
  <2> QED
    BY <1>1, <1>8, <2>1, <2>2
<1>3. CASE FindDevice(p) /\ UNCHANGED faulted
  <2> DEFINE r == [s EXCEPT !.at = IF device = NoId THEN "mint" ELSE "identify"]
  <2>1. r \in Runs /\ r.todo = s.todo /\ r.seen = s.seen /\ r.creating = s.creating
        /\ r.at = IF device = NoId THEN "mint" ELSE "identify"
    BY <1>0 DEF Runs, Place
  <2>3. s.at = "migrate" /\ s.seen = Latest /\ Looks(p, "device")
    BY <1>3 DEF FindDevice
  <2>7. /\ raced \subseteq raced' /\ raced' \subseteq Parts
        /\ device = NoId /\ "device" \notin raced'
             => \A q \in Opener \ {p} : ~Gives(run[q], "device")
    BY <2>3, LookingFacts DEF Parts, Lacks
  <2>2. Moves(p, r)
    BY <1>0, <1>3, <2>7 DEF FindDevice, Goto, Moves, book
  <2> HIDE DEF r
  <2>4. MayOpen(r)
    <3>1. version = Latest
      BY <2>3, VersionAssumption DEF IndInv, Shape, TypeOK, VersionRead
    <3>2. exists
      BY <2>3 DEF IndInv, Shape, TypeOK, FileFirst
    <3> QED
      BY <2>1, <2>3, <3>1, <3>2 DEF MayOpen
  <2>5. MaySeed(p, r)
    BY <2>1, <2>3, <2>7 DEF IndInv, SeedsTheMissing, SeedsAll, ToSeed, MaySeed, AtWork, Early
  <2>6. MayLeave(p, r)
    BY <2>1, <2>3 DEF MayLeave, AtWork
  <2>8. MayGive(p, r)
    <3>1. \A x \in {"device", "book", "accounts"} \ raced' : Gives(r, x) =>
            Gives(run[p], x) \/ \A q \in Opener \ {p} : ~Gives(run[q], x)
      <4>1. Gives(r, "device") => device = NoId
        BY <2>1 DEF Gives
      <4>2. ~Gives(r, "book") /\ (Gives(r, "accounts") => Gives(run[p], "accounts"))
        BY <2>1 DEF Gives, AtWork
      <4> QED
        BY <2>7, <4>1, <4>2
    <3> QED
      BY <2>7, <3>1, MayGiveWhat
  <2> QED
    BY <1>0, <1>1, <2>1, <2>2, <2>4, <2>5, <2>6, <2>8
<1>4. CASE (FindBook(p) /\ UNCHANGED faulted) \/ (MintBook(p) /\ UNCHANGED history)
  <2> DEFINE at == IF FindBook(p) /\ bookId = NoId THEN "label"
                   ELSE IF s.creating THEN "seed"
                   ELSE IF p \in Server THEN "count" ELSE "serving"
             r == [s EXCEPT !.at = at]
  <2>0. /\ at \in {"label", "seed", "count", "serving"}
        /\ at = "label" => bookId = NoId /\ FindBook(p)
        /\ at = "seed" => s.creating
        /\ at = "count" => p \in Server
        /\ p \in Server => at # "serving"
    OBVIOUS
  <2>7. /\ raced \subseteq raced' /\ raced' \subseteq Parts
        /\ bookId = NoId /\ FindBook(p) /\ "book" \notin raced'
             => \A q \in Opener \ {p} : ~Gives(run[q], "book")
    <3>1. CASE MintBook(p) /\ UNCHANGED history
      <4>1. ~FindBook(p) /\ raced' = raced
        BY <3>1 DEF MintBook, FindBook, history
      <4> QED
        BY <1>0, <4>1
    <3>2. CASE FindBook(p)
      BY <3>2, LookingFacts DEF FindBook, Parts, Lacks
    <3> QED
      BY <1>4, <3>1, <3>2
  <2>2. Moves(p, r)
    <3>1. CASE FindBook(p) /\ UNCHANGED faulted /\ bookId = NoId
      BY <1>0, <2>7, <3>1 DEF FindBook, Goto, Moves, book
    <3>2. CASE FindBook(p) /\ UNCHANGED faulted /\ bookId # NoId
      BY <1>0, <2>7, <3>2 DEF FindBook, Opened, Goto, Moves, book
    <3>3. CASE MintBook(p) /\ UNCHANGED history
      <4>1. ~FindBook(p)
        BY <3>3 DEF MintBook, FindBook
      <4> QED
        BY <1>0, <2>7, <3>3, <4>1 DEF MintBook, Opened, Goto, Moves, history
    <3> QED
      BY <1>4, <3>1, <3>2, <3>3
  <2>3. s.at \in {"identify", "label"}
    BY <1>4 DEF FindBook, MintBook
  <2> HIDE DEF at
  <2>1. /\ r \in Runs /\ r.todo = s.todo /\ r.seen = s.seen /\ r.creating = s.creating /\ r.at = at
    BY <1>0, <2>0 DEF Runs, Place
  <2> HIDE DEF r
  <2>4. MayOpen(r)
    BY <2>0, <2>1, <2>3 DEF IndInv, FileFirst, Shape, TypeOK, VersionRead, Identified, MayOpen
  <2>5. MaySeed(p, r)
    <3>1. "accounts" \notin raced' /\ s.creating => Range(accounts) = {} /\ accounts = << >>
      BY <2>3, <2>7 DEF IndInv, SeedsTheMissing, Early, Range
    <3>2. ToSeed(p, r) => ToSeed(p, s)
      BY <2>0, <2>1, <2>3 DEF ToSeed, Early
    <3> QED
      BY <2>0, <2>1, <3>1, <3>2 DEF IndInv, SeedsAll, MaySeed, AtWork
  <2>6. MayLeave(p, r)
    BY <2>0, <2>1, <2>3 DEF IndInv, SeedsAll, ToSeed, MayLeave, AtWork, Early, MissingControls
  <2>8. MayGive(p, r)
    <3>1. \A x \in {"device", "book", "accounts"} \ raced' : Gives(r, x) =>
            Gives(run[p], x) \/ \A q \in Opener \ {p} : ~Gives(run[q], x)
      <4>1. Gives(r, "book") => bookId = NoId /\ FindBook(p)
        BY <2>0, <2>1 DEF Gives
      <4>2. ~Gives(r, "device")
        BY <2>0, <2>1 DEF Gives
      <4>3. Gives(r, "accounts") => Gives(run[p], "accounts")
        BY <2>0, <2>1 DEF Gives, AtWork
      <4> QED
        BY <2>7, <4>1, <4>2, <4>3
    <3> QED
      BY <2>7, <3>1, MayGiveWhat
  <2> QED
    BY <1>0, <1>1, <2>1, <2>2, <2>4, <2>5, <2>6, <2>8
<1>5. CASE Count(p) /\ UNCHANGED faulted
  <2>1. s.at = "count"
    BY <1>5 DEF Count
  <2>2. CASE accounts = << >>
    <3> DEFINE r == [s EXCEPT !.at = "seed"]
    <3>1. r \in Runs /\ r.todo = s.todo /\ r.creating = s.creating /\ r.at = "seed"
      BY <1>0 DEF Runs, Place
    <3>6. /\ raced \subseteq raced' /\ raced' \subseteq Parts
          /\ "accounts" \notin raced' => \A q \in Opener \ {p} : ~Gives(run[q], "accounts")
      <4>1. Looks(p, "accounts") /\ Lacks("accounts")
        BY <1>5, <2>2 DEF Count, Lacks
      <4> QED
        BY <4>1, LookingFacts DEF Parts
    <3>2. Moves(p, r)
      BY <1>0, <1>5, <2>2, <3>6 DEF Count, Goto, Moves, book
    <3> HIDE DEF r
    <3>3. MayOpen(r)
      BY <2>1, <3>1 DEF IndInv, FileFirst, VersionRead, Identified, MayOpen
    <3>4. MaySeed(p, r)
      <4>1. Range(accounts) = {}
        BY <2>2 DEF Range
      <4> QED
        BY <3>1, <4>1 DEF MaySeed, ToSeed, AtWork, Early
    <3>5. MayLeave(p, r)
      BY <2>1, <3>1 DEF IndInv, SeedsAll, ToSeed, MayLeave, AtWork, MissingControls
    <3>7. MayGive(p, r)
      <4>1. \A x \in {"device", "book", "accounts"} \ raced' : Gives(r, x) =>
              Gives(run[p], x) \/ \A q \in Opener \ {p} : ~Gives(run[q], x)
        <5>1. ~Gives(r, "device") /\ ~Gives(r, "book")
          BY <3>1 DEF Gives
        <5> QED
          BY <3>6, <5>1
      <4> QED
        BY <3>6, <4>1, MayGiveWhat
    <3> QED
      BY <1>0, <1>1, <3>1, <3>2, <3>3, <3>4, <3>5, <3>7
  <2>3. CASE accounts # << >>
    <3> DEFINE r == [s EXCEPT !.at = "serving", !.todo = << >>]
    <3>1. r \in Runs /\ r.todo = << >> /\ r.creating = s.creating /\ r.at = "serving" /\ IsInjective(r.todo)
      BY <1>0, IdleFacts
    <3>6. /\ raced \subseteq raced' /\ raced' \subseteq Parts
          /\ MissingControls # {} /\ "controls" \notin raced'
               => \A q \in Opener \ {p} : run[q].at \notin AtWork
      <4>1. Looks(p, "controls") /\ (MissingControls # {} => Lacks("controls"))
        BY <1>5, <2>3 DEF Count, Lacks, MissingControls
      <4>2. \A q \in Opener : Gives(run[q], "controls") <=> run[q].at \in AtWork
        BY DEF Gives
      <4>3. /\ raced \subseteq raced' /\ raced' \subseteq Parts
            /\ Lacks("controls") /\ "controls" \notin raced'
                 => \A q \in Opener \ {p} : ~Gives(run[q], "controls")
        BY <4>1, LookingFacts DEF Parts
      <4> QED
        BY <4>1, <4>2, <4>3
    <3>2. Moves(p, r)
      BY <1>0, <1>5, <2>3, <3>6 DEF Count, Moves, book
    <3> HIDE DEF r
    <3>3. MayOpen(r)
      BY <2>1, <3>1 DEF IndInv, FileFirst, VersionRead, Identified, MayOpen
    <3>4. MaySeed(p, r)
      BY <2>1, <3>1 DEF MaySeed, ToSeed, AtWork, Early
    <3>5. MayLeave(p, r)
      <4> SUFFICES ASSUME "seeding" \notin faulted, "controls" \notin raced', MissingControls # {}
                   PROVE  FALSE
        BY <1>5, <2>1, <3>1 DEF MayLeave, AtWork
      <4>1. PICK q \in Opener : run[q].at \in AtWork
        BY <2>3, <3>6 DEF IndInv, ControlsToCome
      <4>2. q = p
        BY <3>6, <4>1
      <4> QED
        BY <2>1, <4>1, <4>2 DEF AtWork
    <3>7. MayGive(p, r)
      <4>1. \A x \in {"device", "book", "accounts"} \ raced' : Gives(r, x) =>
              Gives(run[p], x) \/ \A q \in Opener \ {p} : ~Gives(run[q], x)
        BY <3>1 DEF Gives, AtWork
      <4> QED
        BY <3>6, <4>1, MayGiveWhat
    <3> QED
      BY <1>1, <3>1, <3>2, <3>3, <3>4, <3>5, <3>7
  <2> QED
    BY <2>2, <2>3
<1>6. CASE SeedDone(p) /\ UNCHANGED history
  <2> DEFINE r == [s EXCEPT !.at = "serving", !.creating = FALSE]
  <2>1. s.at = "seed" /\ s.todo = << >>
    BY <1>6 DEF SeedDone
  <2>2. r \in Runs /\ r.todo = s.todo /\ r.creating = FALSE /\ r.at = "serving"
    BY <1>0 DEF Runs, Place
  <2>3. Moves(p, r)
    BY <1>0, <1>6 DEF SeedDone, Moves, history, book
  <2> HIDE DEF r
  <2>4. MayOpen(r)
    BY <2>1, <2>2 DEF IndInv, FileFirst, VersionRead, Identified, MayOpen
  <2>5. MaySeed(p, r) /\ MayGive(p, r)
    BY <2>1, <2>2 DEF MaySeed, MayGive, Gives, ToSeed, AtWork, Early
  <2>6. MayLeave(p, r)
    <3> SUFFICES ASSUME "seeding" \notin faulted, "controls" \notin raced, MissingControls # {}
                 PROVE  FALSE
      BY <1>6 DEF MayLeave, history
    <3>1. MissingControls \subseteq Range(s.todo)
      BY <2>1 DEF IndInv, ControlsToCome, AtWork
    <3> QED
      BY <2>1, <3>1 DEF Range
  <2> QED
    BY <1>0, <1>1, <2>2, <2>3, <2>4, <2>5, <2>6
<1>7. ASSUME NEW chart \in {Full, SystemOnly}, Onboard(p, chart), UNCHANGED history
      PROVE  IndInv'
  <2> DEFINE r == [s EXCEPT !.at = "count", !.todo = chart]
  <2>1. /\ chart \in Seq(Code) /\ IsInjective(chart) /\ Control \subseteq Range(chart)
    BY ChartFacts
  <2>2. s.at = "serving"
    BY <1>7 DEF Onboard
  <2>3. r \in Runs /\ r.todo = chart /\ r.creating = s.creating /\ r.at = "count"
    BY <1>0, <2>1 DEF Runs, Place
  <2>4. Moves(p, r)
    BY <1>0, <1>7 DEF Onboard, Moves, history, book
  <2> HIDE DEF r
  <2>5. MayOpen(r)
    BY <2>2, <2>3 DEF IndInv, FileFirst, VersionRead, Identified, MayOpen
  <2>6. MaySeed(p, r) /\ MayLeave(p, r)
    BY <2>1, <2>2, <2>3 DEF MaySeed, MayLeave, AtWork, Early
  <2>7. MayGive(p, r)
    <3>1. raced' = raced
      BY <1>7 DEF history
    <3>2. \A x \in {"device", "book", "accounts"} \ raced' : Gives(r, x) =>
            Gives(run[p], x) \/ \A q \in Opener \ {p} : ~Gives(run[q], x)
      BY <2>3 DEF Gives, AtWork
    <3> QED
      BY <3>1, <3>2, MayGiveWhat
  <2> QED
    BY <1>1, <2>1, <2>3, <2>4, <2>5, <2>6, <2>7
<1>11. ASSUME NEW chart \in {Full, SystemOnly}, Probe(p, chart)
       PROVE  IndInv'
  <2> DEFINE r == [s EXCEPT !.at = "probed", !.todo = chart, !.creating = TRUE]
  <2>1. /\ chart \in Seq(Code) /\ IsInjective(chart) /\ Control \subseteq Range(chart)
    BY ChartFacts
  <2>2. s.at = "closed" /\ ~exists /\ accounts = << >>
    BY <1>11 DEF Probe, IndInv, FileFirst
  <2>3. r \in Runs /\ r.todo = chart /\ r.creating = TRUE /\ r.at = "probed"
    BY <1>0, <2>1 DEF Runs, Place
  <2>7. /\ raced \subseteq raced' /\ raced' \subseteq Parts
        /\ "accounts" \notin raced' => \A q \in Opener \ {p} : ~Gives(run[q], "accounts")
    <3>1. Looks(p, "accounts") /\ Lacks("accounts")
      BY <1>11, <2>2 DEF Probe, Lacks
    <3> QED
      BY <3>1, LookingFacts DEF Parts
  <2>4. Moves(p, r)
    BY <1>0, <1>11, <2>7 DEF Probe, Moves, book
  <2> HIDE DEF r
  <2>5. MayOpen(r)
    BY <2>3 DEF MayOpen
  <2>6. MaySeed(p, r) /\ MayLeave(p, r)
    BY <2>1, <2>2, <2>3 DEF MaySeed, MayLeave, AtWork, Early
  <2>8. MayGive(p, r)
    <3>1. \A x \in {"device", "book", "accounts"} \ raced' : Gives(r, x) =>
            Gives(run[p], x) \/ \A q \in Opener \ {p} : ~Gives(run[q], x)
      <4>1. ~Gives(r, "device") /\ ~Gives(r, "book")
        BY <2>3 DEF Gives
      <4> QED
        BY <2>7, <4>1
    <3> QED
      BY <2>7, <3>1, MayGiveWhat
  <2> QED
    BY <1>1, <2>1, <2>3, <2>4, <2>5, <2>6, <2>8
<1>9. CASE SeedFails(p)
  <2>1. s.at \in AtWork /\ faulted' = faulted \cup {"seeding"} /\ raced' = raced
    BY <1>9 DEF SeedFails
  <2>2. CASE s.creating
    <3>1. Moves(p, Stopped) /\ MayLeave(p, Stopped)
      BY <1>0, <1>9, <2>1, <2>2 DEF SeedFails, Stop, Moves, MayLeave, book
    <3> QED
      BY <1>1, <1>8, <3>1
  <2>3. CASE ~s.creating
    <3> DEFINE r == [s EXCEPT !.at = "serving", !.todo = << >>]
    <3>1. r \in Runs /\ r.todo = << >> /\ r.creating = s.creating /\ r.at = "serving" /\ IsInjective(r.todo)
      BY <1>0, IdleFacts
    <3>2. Moves(p, r)
      BY <1>0, <1>9, <2>1, <2>3 DEF SeedFails, Moves, book
    <3> HIDE DEF r
    <3>3. MayOpen(r)
      BY <2>1, <3>1 DEF IndInv, FileFirst, VersionRead, Identified, MayOpen, AtWork
    <3>4. MaySeed(p, r) /\ MayLeave(p, r) /\ MayGive(p, r)
      BY <2>1, <2>3, <3>1 DEF MaySeed, MayLeave, MayGive, Gives, ToSeed, AtWork, Early
    <3> QED
      BY <1>1, <3>1, <3>2, <3>3, <3>4
  <2> QED
    BY <2>2, <2>3
<1>10. CASE Quit(p)
  <2>0. /\ raced' = raced /\ faulted \subseteq faulted' /\ faulted' \subseteq {"opening", "seeding"}
        /\ s.at \in AtWork => "seeding" \in faulted'
    BY <1>0, <1>10 DEF Quit, AtWork
  <2>1. Moves(p, Stopped)
    BY <1>0, <1>10, <2>0 DEF Quit, Stop, Moves, book
  <2>2. MayLeave(p, Stopped)
    BY <2>0 DEF Stopped, MayLeave, AtWork
  <2> QED
    BY <1>1, <1>8, <2>1, <2>2
<1> QED
  BY <1>2, <1>3, <1>4, <1>5, <1>6, <1>7, <1>9, <1>10, <1>11 DEF MovesOn
-----------------------------------------------------------------------------
(* The steps that change the book *)

\* Processes that give no more than they did are no more who give.
LEMMA GiversStay ==
  ASSUME IndInv, UNCHANGED raced,
         \A q \in Opener : \A x \in {"device", "book", "accounts"} :
           Gives(run'[q], x) => Gives(run[q], x)
  PROVE  OneGiver'
<1> HIDE DEF Gives
<1>1. \A x \in {"device", "book", "accounts"} \ raced : \A q1, q2 \in Opener :
        Gives(run[q1], x) /\ Gives(run[q2], x) => q1 = q2
  BY DEF IndInv, OneGiver
<1>2. \A x \in {"device", "book", "accounts"} \ raced' : \A q1, q2 \in Opener :
        Gives(run'[q1], x) /\ Gives(run'[q2], x) => q1 = q2
  BY <1>1
<1> QED
  BY <1>2 DEF OneGiver, Gives, AtWork

\* Opening the file, to serve it or to seed what was probed for, keeps the
\* invariant.
LEMMA BeginKeeps ==
  ASSUME IndInv, NEW p \in Opener, NEW todo \in Seq(Code), NEW creating \in BOOLEAN,
         IsInjective(todo), Begin(p, todo, creating), UNCHANGED history,
         run[p].at \in {"closed", "probed"},
         p \in Server \/ creating => Control \subseteq Range(todo),
         creating => run[p].at = "probed" /\ run[p].creating
  PROVE  IndInv'
<1> DEFINE r == [at |-> "migrate", seen |-> version, todo |-> todo, creating |-> creating]
<1>1. /\ run' = [run EXCEPT ![p] = r] /\ exists' = TRUE
      /\ UNCHANGED <<version, device, bookId, lamport, legacySeq, nextSeq, rows,
                     accounts, control, raced, faulted>>
  BY DEF Begin, history
<1>2. r \in Runs /\ r.at = "migrate" /\ r.seen = version /\ r.todo = todo /\ r.creating = creating
  BY VersionAssumption DEF Runs, Place, IndInv, Shape, TypeOK
<1> HIDE DEF r
<1>3. /\ run' \in [Opener -> Runs] /\ run'[p] = r
      /\ \A q \in Opener : q # p => run'[q] = run[q]
  BY <1>1, <1>2 DEF IndInv, Shape
<1>4. MissingControls' = MissingControls
  BY <1>1 DEF MissingControls
<1>6. Shape'
  <2>1. \A q \in Opener : run'[q].at \in Place
    BY <1>3 DEF Runs
  <2>2. \A q \in Opener : IsInjective(run'[q].todo)
    BY <1>2, <1>3 DEF IndInv, Shape
  <2>3. TypeOK'
    BY <1>1, <2>1 DEF IndInv, Shape, TypeOK
  <2> QED
    BY <1>1, <1>3, <2>2, <2>3 DEF IndInv, Shape
<1>7. VersionRead' /\ Identified' /\ RowsAreNamed' /\ FileFirst'
  <2>1. version <= version
    BY VersionAssumption DEF IndInv, Shape, TypeOK
  <2>2. VersionRead'
    BY <1>1, <1>2, <1>3, <2>1 DEF IndInv, VersionRead
  <2> QED
    BY <1>1, <1>2, <1>3, <2>2 DEF IndInv, Identified, RowsAreNamed, FileFirst
<1>8. OneGiver'
  <2>1. ASSUME NEW x \in {"device", "book", "accounts"}, NEW q \in Opener, Gives(run'[q], x)
        PROVE  Gives(run[q], x)
    BY <1>2, <1>3, <2>1 DEF Gives, AtWork
  <2> QED
    BY <1>1, <2>1, GiversStay
<1>9. ClockAhead' /\ ClockForward' /\ CounterAhead' /\ StampsUnique' /\ SeededOnce' /\ ControlsResolve'
  BY <1>1 DEF IndInv, ClockAhead, ClockForward, CounterAhead, StampsUnique, SeededOnce, ControlsResolve
<1>10. SeedsTheMissing' /\ RecordsItsOwn' /\ SeedsAll'
  <2>1. \A q \in Opener : run'[q].at \in AtWork => run'[q] = run[q] /\ Pending(q)' = Pending(q)
    BY <1>2, <1>3 DEF AtWork, Pending
  <2>2. creating /\ "accounts" \notin raced => accounts = << >>
    BY DEF IndInv, SeedsTheMissing, Early
  <2>3. SeedsTheMissing'
    BY <1>1, <1>2, <1>3, <2>1, <2>2 DEF IndInv, SeedsTheMissing
  <2>4. RecordsItsOwn'
    BY <1>1, <1>2, <1>3 DEF IndInv, RecordsItsOwn
  <2>5. SeedsAll'
    BY <1>1, <1>2, <1>3 DEF IndInv, SeedsAll, ToSeed
  <2> QED
    BY <2>3, <2>4, <2>5
<1>11. ControlsToCome'
  <2> SUFFICES ASSUME "seeding" \notin faulted, "controls" \notin raced, MissingControls # {}
               PROVE  /\ accounts = << >> \/ \E q \in Opener : run'[q].at \in AtWork
                      /\ \A q \in Opener : run'[q].at \in AtWork => MissingControls \subseteq Range(run'[q].todo)
                      /\ \A q \in Server : run'[q].at # "serving"
    BY <1>1, <1>4 DEF ControlsToCome
  <2>1. /\ accounts = << >> \/ \E q \in Opener : run[q].at \in AtWork
        /\ \A q \in Opener : run[q].at \in AtWork => MissingControls \subseteq Range(run[q].todo)
        /\ \A q \in Server : run[q].at # "serving"
    BY DEF IndInv, ControlsToCome
  <2>2. accounts = << >> \/ \E q \in Opener : run'[q].at \in AtWork
    BY <1>1, <1>3, <2>1 DEF AtWork
  <2>3. \A q \in Opener : run'[q].at \in AtWork => MissingControls \subseteq Range(run'[q].todo)
    BY <1>2, <1>3, <2>1 DEF AtWork
  <2>4. \A q \in Server : run'[q].at # "serving"
    BY <1>2, <1>3, <2>1 DEF Opener
  <2> QED
    BY <2>2, <2>3, <2>4
<1> QED
  BY <1>6, <1>7, <1>8, <1>9, <1>10, <1>11 DEF IndInv

\* The migrations of one opener keep the invariant.
LEMMA MigrateKeeps ==
  ASSUME IndInv, NEW p \in Opener, Migrate(p), UNCHANGED history
  PROVE  IndInv'
<1>1. /\ run[p].at = "migrate" /\ run[p].seen < Latest
      /\ run[p].seen = version \/ run[p].seen = Latest - 1
      /\ version' = run[p].seen + 1 /\ run' = [run EXCEPT ![p].seen = @ + 1]
      /\ UNCHANGED <<exists, device, bookId, lamport, rows, accounts, control, raced, faulted>>
      /\ Rekey(run[p].seen)
  BY DEF Migrate, history
<1>2. /\ run[p] \in Runs /\ run[p].seen \in Nat /\ version \in Nat /\ version <= Latest /\ Latest \in Nat
      /\ run[p].seen <= version
  BY <1>1, VersionAssumption DEF IndInv, Shape, TypeOK, VersionRead, Runs
<1>3. version' \in Nat /\ version <= version' /\ version' <= Latest /\ (version = Latest => version' = Latest)
  BY <1>1, <1>2
<1>4. /\ run' \in [Opener -> Runs]
      /\ \A q \in Opener : q # p => run'[q] = run[q]
      /\ \A q \in Opener : run'[q].at = run[q].at /\ run'[q].todo = run[q].todo /\ run'[q].creating = run[q].creating
      /\ run'[p].seen = version'
  <2> DEFINE r == [run[p] EXCEPT !.seen = @ + 1]
  <2>1. r \in Runs /\ r.at = run[p].at /\ r.todo = run[p].todo /\ r.creating = run[p].creating /\ r.seen = run[p].seen + 1
    BY <1>2 DEF Runs
  <2>2. run' = [run EXCEPT ![p] = r] /\ run \in [Opener -> Runs]
    BY <1>1 DEF IndInv, Shape
  <2> HIDE DEF r
  <2> QED
    BY <1>1, <2>1, <2>2
<1>5. /\ MissingControls' = MissingControls
      /\ \A q \in Opener : /\ ToSeed(q, run'[q]) = ToSeed(q, run[q])
                            /\ Pending(q)' = Pending(q) /\ (run'[q].at # "migrate" => run'[q] = run[q])
  BY <1>1, <1>4 DEF MissingControls, ToSeed, Pending
<1>6. /\ nextSeq' \in [Id -> Nat] /\ legacySeq' \in Nat /\ CounterAhead'
  <2>1. /\ nextSeq \in [Id -> Nat] /\ legacySeq \in Nat /\ CounterAhead
    BY DEF IndInv, Shape, TypeOK
  <2>2. CASE legacySeq = 0
    BY <1>1, <2>1, <2>2 DEF Rekey, CounterAhead
  <2>3. CASE legacySeq # 0 /\ run[p].seen = Latest - 1
    <3>1. nextSeq' = [nextSeq EXCEPT ![device] = legacySeq] /\ legacySeq' = 0
      BY <1>1, <2>3 DEF Rekey
    <3>2. device = Old /\ Old \in Id /\ \A i \in DOMAIN rows : rows[i].dev = Old /\ rows[i].seq < legacySeq
      BY <2>1, <2>3 DEF CounterAhead, Id
    <3>3. nextSeq' \in [Id -> Nat] /\ nextSeq'[Old] = legacySeq
      BY <2>1, <3>1, <3>2
    <3> QED
      BY <1>1, <3>1, <3>2, <3>3 DEF CounterAhead
  <2>4. CASE legacySeq # 0 /\ run[p].seen # Latest - 1
    <3>1. version' < Latest
      BY <1>1, <1>2, <2>4
    <3> QED
      BY <1>1, <2>1, <2>4, <3>1 DEF Rekey, CounterAhead
  <2> QED
    BY <2>2, <2>3, <2>4
<1>7. Shape'
  <2>1. TypeOK'
    BY <1>1, <1>3, <1>4, <1>6, VersionAssumption DEF IndInv, Shape, TypeOK
  <2> QED
    BY <1>1, <1>4, <2>1 DEF IndInv, Shape
<1>8. VersionRead'
  <2> SUFFICES ASSUME NEW q \in Opener
               PROVE  /\ run'[q].at = "migrate" => run'[q].seen <= version'
                      /\ run'[q].at \notin {"closed", "probed", "migrate"} => version' = Latest
                      /\ run'[q].at = "probed" => run'[q].creating
    BY DEF VersionRead
  <2>1. run[q].seen \in Nat /\ (run'[q].at = "probed" => run'[q].creating)
    BY <1>4 DEF IndInv, Shape, Runs, VersionRead
  <2>2. CASE q = p
    BY <1>1, <1>3, <1>4, <2>1, <2>2
  <2>3. CASE q # p
    <3>1. run[q].at = "migrate" => run[q].seen <= version
      BY DEF IndInv, VersionRead
    <3>2. run[q].at \notin {"closed", "probed", "migrate"} => version = Latest
      BY DEF IndInv, VersionRead
    <3> QED
      BY <1>2, <1>3, <1>4, <2>1, <2>3, <3>1, <3>2
  <2> QED
    BY <2>2, <2>3
<1>9. FileFirst' /\ OneGiver' /\ Identified' /\ RowsAreNamed'
  <2>1. \A q \in Opener : \A x \in {"device", "book", "accounts"} :
          Gives(run'[q], x) => Gives(run[q], x)
    BY <1>4 DEF Gives
  <2>2. OneGiver'
    BY <1>1, <2>1, GiversStay
  <2> QED
    BY <1>1, <1>4, <2>2 DEF IndInv, FileFirst, Identified, RowsAreNamed
<1>10. ClockAhead' /\ ClockForward' /\ StampsUnique' /\ SeededOnce' /\ ControlsResolve'
  BY <1>1 DEF IndInv, ClockAhead, ClockForward, StampsUnique, SeededOnce, ControlsResolve
<1>11. SeedsTheMissing' /\ RecordsItsOwn' /\ SeedsAll' /\ ControlsToCome'
  <2>1. SeedsTheMissing'
    BY <1>1, <1>4, <1>5 DEF IndInv, SeedsTheMissing
  <2>2. RecordsItsOwn'
    BY <1>1, <1>5 DEF IndInv, RecordsItsOwn
  <2>3. SeedsAll'
    BY <1>4, <1>5 DEF IndInv, SeedsAll, ToSeed
  <2>4. ControlsToCome'
    BY <1>1, <1>4, <1>5 DEF IndInv, ControlsToCome, Opener
  <2> QED
    BY <2>1, <2>2, <2>3, <2>4
<1> QED
  BY <1>6, <1>7, <1>8, <1>9, <1>10, <1>11 DEF IndInv

\* Minting the device's identity keeps the invariant.
LEMMA MintDeviceKeeps ==
  ASSUME IndInv, NEW p \in Opener, MintDevice(p), UNCHANGED history
  PROVE  IndInv'
<1>1. /\ run[p].at = "mint" /\ device' = p /\ lamport' = 0 /\ run' = [run EXCEPT ![p].at = "identify"]
      /\ UNCHANGED <<exists, version, bookId, legacySeq, nextSeq, rows, accounts, control, raced, faulted>>
  BY DEF MintDevice, Goto, history
<1>2. /\ run' \in [Opener -> Runs] /\ run'[p].at = "identify"
      /\ \A q \in Opener : q # p => run'[q] = run[q]
      /\ \A q \in Opener : run'[q].todo = run[q].todo /\ run'[q].creating = run[q].creating
  <2> DEFINE r == [run[p] EXCEPT !.at = "identify"]
  <2>1. r \in Runs /\ r.at = "identify" /\ r.todo = run[p].todo /\ r.creating = run[p].creating
    BY DEF IndInv, Shape, Runs, Place
  <2>2. run' = [run EXCEPT ![p] = r] /\ run \in [Opener -> Runs]
    BY <1>1 DEF IndInv, Shape
  <2> HIDE DEF r
  <2> QED
    BY <2>1, <2>2
<1>3. /\ device' \in Id /\ device' # NoId /\ version = Latest
      /\ device = NoId \/ "device" \in raced
  BY <1>1, IdAssumption DEF IndInv, Identified, VersionRead, Id
<1>4. /\ MissingControls' = MissingControls
      /\ \A q \in Opener : /\ ToSeed(q, run'[q]) = ToSeed(q, run[q])
                            /\ (run'[q].at \in Early => run[q].at \in Early)
                            /\ Pending(q)' = Pending(q) /\ (run'[q].at \in AtWork <=> run[q].at \in AtWork)
                            /\ (run'[q].at = "serving" <=> run[q].at = "serving")
  <2>1. MissingControls' = MissingControls
    BY <1>1 DEF MissingControls
  <2>2. \A q \in Opener : ToSeed(q, run'[q]) = ToSeed(q, run[q]) /\ Pending(q)' = Pending(q)
    BY <1>1, <1>2 DEF ToSeed, Pending, Early
  <2>3. \A q \in Opener : /\ (run'[q].at \in Early => run[q].at \in Early)
                          /\ (run'[q].at \in AtWork <=> run[q].at \in AtWork)
                          /\ (run'[q].at = "serving" <=> run[q].at = "serving")
    BY <1>1, <1>2 DEF AtWork, Early
  <2> QED
    BY <2>1, <2>2, <2>3
<1>5. Shape'
  <2>1. \A q \in Opener : run'[q].at \in Place
    BY <1>2 DEF Runs
  <2>2. TypeOK'
    BY <1>1, <1>3, <2>1 DEF IndInv, Shape, TypeOK
  <2> QED
    BY <1>1, <1>2, <2>2 DEF IndInv, Shape
<1>6. VersionRead' /\ FileFirst' /\ OneGiver' /\ RowsAreNamed'
  <2>1. \A q \in Opener : \A x \in {"device", "book", "accounts"} :
          Gives(run'[q], x) => Gives(run[q], x)
    BY <1>1, <1>2 DEF Gives, AtWork
  <2>2. OneGiver'
    BY <1>1, <2>1, GiversStay
  <2> QED
    BY <1>1, <1>2, <1>3, <2>2 DEF IndInv, VersionRead, FileFirst, RowsAreNamed
<1>7. Identified'
  <2>1. ASSUME NEW q \in Opener, q # p, run[q].at = "mint"
        PROVE  "device" \in raced
    BY <1>1, <2>1 DEF IndInv, OneGiver, Gives
  <2> QED
    BY <1>1, <1>2, <1>3, <2>1 DEF IndInv, Identified
<1>8. ClockAhead' /\ CounterAhead'
  <2>1. "device" \notin raced => rows = << >>
    BY <1>3 DEF IndInv, RowsAreNamed
  <2>2. legacySeq = 0
    BY <1>3, VersionAssumption DEF IndInv, CounterAhead
  <2> QED
    BY <1>1, <2>1, <2>2 DEF IndInv, ClockAhead, CounterAhead
<1>9. ClockForward' /\ StampsUnique' /\ SeededOnce' /\ ControlsResolve'
  BY <1>1 DEF IndInv, ClockForward, StampsUnique, SeededOnce, ControlsResolve
<1>10. SeedsTheMissing' /\ RecordsItsOwn' /\ SeedsAll' /\ ControlsToCome'
  <2>1. SeedsTheMissing'
    BY <1>1, <1>2, <1>4 DEF IndInv, SeedsTheMissing
  <2>2. RecordsItsOwn'
    BY <1>1, <1>2 DEF IndInv, RecordsItsOwn
  <2>3. SeedsAll'
    BY <1>2, <1>4 DEF IndInv, SeedsAll, ToSeed
  <2>4. ControlsToCome'
    BY <1>1, <1>2, <1>4 DEF IndInv, ControlsToCome, Opener
  <2> QED
    BY <2>1, <2>2, <2>3, <2>4
<1> QED
  BY <1>5, <1>6, <1>7, <1>8, <1>9, <1>10 DEF IndInv

\* A stamped row follows all others.
LEMMA StampKeeps ==
  ASSUME IndInv, Stamp, device # NoId, version = Latest,
         UNCHANGED <<version, device, legacySeq, raced>>
  PROVE  /\ rows' \in Seq([dev : Id, seq : Nat, lamport : Nat])
         /\ lamport' \in Nat /\ nextSeq' \in [Id -> Nat]
         /\ RowsAreNamed' /\ ClockAhead' /\ ClockForward' /\ CounterAhead' /\ StampsUnique'
<1> DEFINE row == [dev |-> device, seq |-> nextSeq[device], lamport |-> lamport + 1]
           Stamps == [dev : Id, seq : Nat, lamport : Nat]
           L == Len(rows)
<1>1. /\ device \in Id /\ lamport \in Nat /\ nextSeq \in [Id -> Nat] /\ rows \in Seq(Stamps)
      /\ legacySeq = 0 /\ \A i \in DOMAIN rows : rows[i].seq < nextSeq[rows[i].dev]
  BY VersionAssumption DEF IndInv, Shape, TypeOK, CounterAhead
<1>2. /\ row \in Stamps /\ row.dev = device /\ row.seq = nextSeq[device] /\ row.lamport = lamport + 1
  BY <1>1
<1>3. nextSeq' = [nextSeq EXCEPT ![device] = @ + 1] /\ lamport' = lamport + 1 /\ rows' = Append(rows, row)
  BY DEF Stamp
<1>4. /\ nextSeq' \in [Id -> Nat] /\ nextSeq'[device] = nextSeq[device] + 1
      /\ \A d \in Id : nextSeq[d] <= nextSeq'[d]
  BY <1>1, <1>3
<1> HIDE DEF row, Stamps
<1>5. /\ rows' \in Seq(Stamps) /\ L \in Nat /\ DOMAIN rows = 1 .. L /\ DOMAIN rows' = 1 .. L + 1
      /\ \A i \in 1 .. L : rows'[i] = rows[i] /\ rows[i] \in Stamps
      /\ rows'[L + 1] = row
  <2>1. /\ Append(rows, row) \in Seq(Stamps) /\ L \in Nat
        /\ DOMAIN rows = 1 .. L /\ DOMAIN Append(rows, row) = 1 .. L + 1
        /\ \A i \in 1 .. L : Append(rows, row)[i] = rows[i]
        /\ Append(rows, row)[L + 1] = row
    BY <1>1, <1>2, AppendFacts
  <2>2. \A i \in 1 .. L : rows[i] \in Stamps
    BY <1>1, ElementOfSeq
  <2> QED
    BY <1>3, <2>1, <2>2
<1> HIDE DEF L
<1>6. PICK k \in Nat : k = L + 1
  BY <1>5
<1>7. /\ DOMAIN rows' = DOMAIN rows \cup {k} /\ rows'[k] = row
      /\ \A i \in DOMAIN rows : i \in Nat /\ i < k /\ rows'[i] = rows[i]
      /\ \A i \in DOMAIN rows : rows[i].dev \in Id /\ rows[i].seq \in Nat /\ rows[i].lamport \in Nat
  BY <1>5, <1>6 DEF Stamps
<1>8. RowsAreNamed'
  BY DEF RowsAreNamed
<1>9. ClockAhead' /\ ClockForward'
  <2> SUFFICES ASSUME "device" \notin raced
               PROVE  /\ \A i \in DOMAIN rows' : rows'[i].lamport <= lamport'
                      /\ \A i, j \in DOMAIN rows' : i < j => rows'[i].lamport < rows'[j].lamport
    BY DEF ClockAhead, ClockForward
  <2>1. \A i \in DOMAIN rows : rows[i].lamport <= lamport /\ rows[i].lamport \in Nat
    BY <1>7 DEF IndInv, ClockAhead
  <2>2. \A i, j \in DOMAIN rows : i < j => rows[i].lamport < rows[j].lamport
    BY DEF IndInv, ClockForward
  <2>3. \A i \in DOMAIN rows' : rows'[i].lamport <= lamport'
    BY <1>1, <1>2, <1>3, <1>7, <2>1
  <2>4. ASSUME NEW i \in DOMAIN rows', NEW j \in DOMAIN rows', i < j
        PROVE  rows'[i].lamport < rows'[j].lamport
    <3>1. i \in DOMAIN rows
      BY <1>7, <2>4
    <3>2. CASE j \in DOMAIN rows
      BY <1>7, <2>2, <2>4, <3>1, <3>2
    <3>3. CASE j = k
      BY <1>1, <1>2, <1>7, <2>1, <3>1, <3>3
    <3> QED
      BY <1>7, <3>2, <3>3
  <2> QED
    BY <2>3, <2>4
<1>10. CounterAhead'
  <2>1. \A i \in DOMAIN rows : rows[i].dev \in Id /\ rows[i].seq \in Nat
    BY <1>7
  <2>2. ASSUME NEW i \in DOMAIN rows'
        PROVE  rows'[i].seq < nextSeq'[rows'[i].dev]
    <3>1. CASE i \in DOMAIN rows
      <4>1. /\ rows'[i] = rows[i] /\ rows[i].dev \in Id /\ rows[i].seq \in Nat
            /\ rows[i].seq < nextSeq[rows[i].dev]
        BY <1>1, <1>7, <2>1, <3>1
      <4>2. nextSeq[rows[i].dev] <= nextSeq'[rows[i].dev] /\ nextSeq[rows[i].dev] \in Nat /\ nextSeq'[rows[i].dev] \in Nat
        BY <1>1, <1>4, <4>1
      <4> QED
        BY <4>1, <4>2
    <3>2. CASE i = k
      BY <1>1, <1>2, <1>4, <1>7, <3>2
    <3> QED
      BY <1>7, <3>1, <3>2
  <2> QED
    BY <1>1, <2>2 DEF CounterAhead
<1>11. StampsUnique'
  <2> SUFFICES ASSUME NEW i \in DOMAIN rows', NEW j \in DOMAIN rows',
                      rows'[i].dev = rows'[j].dev, rows'[i].seq = rows'[j].seq
               PROVE  i = j
    BY DEF StampsUnique
  <2>1. ASSUME NEW m \in DOMAIN rows
        PROVE  ~(rows'[m].dev = row.dev /\ rows'[m].seq = row.seq)
    BY <1>1, <1>2, <1>7
  <2>2. CASE i \in DOMAIN rows /\ j \in DOMAIN rows
    BY <1>7, <2>2 DEF IndInv, StampsUnique
  <2> QED
    BY <1>7, <2>1, <2>2
<1> QED
  BY <1>1, <1>3, <1>4, <1>5, <1>8, <1>9, <1>10, <1>11 DEF Stamps

\* A stamped write keeps the invariant.
LEMMA WriteKeeps ==
  ASSUME IndInv, NEW p \in Opener, Write(p), UNCHANGED history
  PROVE  IndInv'
<1>1. /\ run[p].at = "serving" /\ Stamp
      /\ UNCHANGED <<exists, version, device, bookId, legacySeq, accounts, control, run, raced, faulted>>
  BY DEF Write, history
<1>2. device # NoId /\ version = Latest
  BY <1>1 DEF IndInv, Identified, VersionRead
<1>3. /\ rows' \in Seq([dev : Id, seq : Nat, lamport : Nat])
      /\ lamport' \in Nat /\ nextSeq' \in [Id -> Nat]
      /\ RowsAreNamed' /\ ClockAhead' /\ ClockForward' /\ CounterAhead' /\ StampsUnique'
  BY <1>1, <1>2, StampKeeps
<1>4. MissingControls' = MissingControls
  BY <1>1 DEF MissingControls
<1>5. Shape'
  BY <1>1, <1>3 DEF IndInv, Shape, TypeOK
<1>6. VersionRead' /\ FileFirst' /\ OneGiver' /\ Identified'
  BY <1>1 DEF IndInv, VersionRead, FileFirst, OneGiver, Gives, Identified
<1>7. SeedsTheMissing' /\ SeededOnce' /\ RecordsItsOwn' /\ ControlsResolve' /\ SeedsAll' /\ ControlsToCome'
  BY <1>1, <1>4 DEF IndInv, SeedsTheMissing, SeededOnce, RecordsItsOwn, ControlsResolve, SeedsAll,
     ControlsToCome, Pending, ToSeed
<1> QED
  BY <1>3, <1>5, <1>6, <1>7 DEF IndInv

\* Writing one account of the chart keeps the invariant.
LEMMA SeedAccountKeeps ==
  ASSUME IndInv, NEW p \in Opener, SeedAccount(p), UNCHANGED history
  PROVE  IndInv'
<1> DEFINE s == run[p]
           c == Head(s.todo)
           L == Len(accounts)
           r == IF c \in Control THEN [s EXCEPT !.at = "record", !.seen = L + 1]
                ELSE [s EXCEPT !.todo = Tail(@)]
<1>1. /\ s.at = "seed" /\ s.todo # << >> /\ Stamp /\ accounts' = Append(accounts, c)
      /\ UNCHANGED <<exists, version, device, bookId, legacySeq, control, raced, faulted>>
  BY DEF SeedAccount, history
<1>2. /\ s \in Runs /\ s.todo \in Seq(Code) /\ IsInjective(s.todo) /\ accounts \in Seq(Code)
      /\ L \in Nat
  BY DEF IndInv, Shape, Runs
<1>3. /\ c \in Code /\ Tail(s.todo) \in Seq(Code) /\ Range(s.todo) = {c} \cup Range(Tail(s.todo))
      /\ c \notin Range(Tail(s.todo)) /\ IsInjective(Tail(s.todo))
  BY <1>1, <1>2, TailFacts
<1>4. /\ accounts' \in Seq(Code) /\ Range(accounts') = Range(accounts) \cup {c} /\ DOMAIN accounts = 1 .. L
      /\ DOMAIN accounts' = 1 .. L + 1 /\ accounts'[L + 1] = c /\ Len(accounts') = L + 1
      /\ \A i \in 1 .. L : accounts'[i] = accounts[i]
      /\ IsInjective(accounts) /\ c \notin Range(accounts) => IsInjective(accounts')
  <2>1. /\ Append(accounts, c) \in Seq(Code) /\ DOMAIN accounts = 1 .. L
        /\ DOMAIN Append(accounts, c) = 1 .. L + 1 /\ Append(accounts, c)[L + 1] = c
        /\ Len(Append(accounts, c)) = L + 1
        /\ \A i \in 1 .. L : Append(accounts, c)[i] = accounts[i]
    BY <1>2, <1>3, AppendFacts
  <2>2. /\ Range(Append(accounts, c)) = Range(accounts) \cup {c}
        /\ IsInjective(accounts) /\ c \notin Range(accounts) => IsInjective(Append(accounts, c))
    BY <1>2, <1>3, AppendRange
  <2> QED
    BY <1>1, <2>1, <2>2
<1>5. run' = [run EXCEPT ![p] = r]
  BY DEF SeedAccount, IndInv, Shape
<1>6. /\ r \in Runs /\ r.creating = s.creating /\ r.at \in AtWork
      /\ c \in Control => r.at = "record" /\ r.seen = L + 1 /\ r.todo = s.todo
      /\ c \notin Control => r.at = "seed" /\ r.todo = Tail(s.todo)
  <2> HIDE DEF s, c, L
  <2>1. CASE c \in Control
    <3> DEFINE k == L + 1
    <3>1. k \in Nat
      BY <1>2
    <3> HIDE DEF k
    <3>2. LET t == [s EXCEPT !.at = "record", !.seen = k]
          IN  t \in Runs /\ t.creating = s.creating /\ t.at = "record" /\ t.seen = k /\ t.todo = s.todo
      BY <1>2, <3>1 DEF Runs, Place
    <3> QED
      BY <2>1, <3>2 DEF AtWork, k
  <2>2. CASE c \notin Control
    BY <1>1, <1>2, <1>3, <2>2 DEF Runs, Place, AtWork
  <2> QED
    BY <2>1, <2>2
<1> HIDE DEF r
<1>7. /\ run' \in [Opener -> Runs] /\ run'[p] = r
      /\ \A q \in Opener : q # p => run'[q] = run[q]
  BY <1>5, <1>6 DEF IndInv, Shape
<1>8. device # NoId /\ version = Latest
  BY <1>1 DEF IndInv, Identified, VersionRead
<1>9. /\ rows' \in Seq([dev : Id, seq : Nat, lamport : Nat])
      /\ lamport' \in Nat /\ nextSeq' \in [Id -> Nat]
      /\ RowsAreNamed' /\ ClockAhead' /\ ClockForward' /\ CounterAhead' /\ StampsUnique'
  BY <1>1, <1>8, StampKeeps
<1> HIDE DEF s, c, L
<1>10. MissingControls' = MissingControls
  BY <1>1 DEF MissingControls
<1>12. Shape'
  <2>1. \A q \in Opener : run'[q].at \in Place
    BY <1>7 DEF Runs
  <2>2. \A q \in Opener : IsInjective(run'[q].todo)
    BY <1>2, <1>3, <1>6, <1>7 DEF IndInv, Shape
  <2>3. \A d \in Control : control'[d] \in 0 .. Len(accounts')
    <3>1. \A d \in Control : control[d] \in 0 .. L
      BY DEF IndInv, Shape, TypeOK, L
    <3> QED
      BY <1>1, <1>2, <1>4, <3>1
  <2>4. TypeOK'
    BY <1>1, <1>9, <2>1, <2>3 DEF IndInv, Shape, TypeOK
  <2> QED
    BY <1>1, <1>4, <1>7, <2>2, <2>4 DEF IndInv, Shape
<1>13. VersionRead' /\ Identified' /\ FileFirst' /\ OneGiver'
  <2>1. VersionRead' /\ Identified'
    BY <1>1, <1>6, <1>7, <1>8 DEF IndInv, VersionRead, Identified, AtWork
  <2>2. FileFirst'
    BY <1>1 DEF IndInv, FileFirst, s
  <2>3. OneGiver'
    <3>1. \A q \in Opener : \A x \in {"device", "book", "accounts"} :
            Gives(run'[q], x) => Gives(run[q], x)
      BY <1>1, <1>6, <1>7 DEF Gives, AtWork, s
    <3> QED
      BY <1>1, <3>1, GiversStay
  <2> QED
    BY <2>1, <2>2, <2>3
<1>14. SeedsTheMissing' /\ SeededOnce'
  <2> SUFFICES ASSUME "accounts" \notin raced
               PROVE  /\ \A q \in Opener : run'[q].at \in AtWork => Range(accounts') \cap Pending(q)' = {}
                      /\ \A q \in Opener : run'[q].creating /\ run'[q].at \in Early => accounts' = << >>
                      /\ IsInjective(accounts')
    BY <1>1 DEF SeedsTheMissing, SeededOnce, IsInjective
  <2>0. \A q \in Opener : run[q].creating \/ run[q].at \in AtWork => q = p
    BY <1>1 DEF IndInv, OneGiver, Gives, AtWork, s
  <2>1. Range(accounts) \cap Range(s.todo) = {}
    BY <1>1 DEF IndInv, SeedsTheMissing, AtWork, Pending, s
  <2>2. Pending(p)' = Range(Tail(s.todo))
    BY <1>6, <1>7 DEF Pending
  <2>3. Range(accounts') \cap Pending(p)' = {}
    BY <1>3, <1>4, <2>1, <2>2
  <2>4. \A q \in Opener : run'[q].at \in AtWork => q = p
    BY <1>7, <2>0
  <2>5. ASSUME NEW q \in Opener, run'[q].creating, run'[q].at \in Early
        PROVE  FALSE
    BY <1>6, <1>7, <2>0, <2>5 DEF AtWork, Early
  <2>6. IsInjective(accounts')
    BY <1>3, <1>4, <2>1 DEF IndInv, SeededOnce, IsInjective
  <2> QED
    BY <2>3, <2>4, <2>5, <2>6
<1>15. RecordsItsOwn'
  <2> SUFFICES ASSUME NEW q \in Opener, run'[q].at = "record"
               PROVE  /\ run'[q].todo # << >> /\ Head(run'[q].todo) \in Control
                      /\ run'[q].seen \in DOMAIN accounts'
                      /\ accounts'[run'[q].seen] = Head(run'[q].todo)
    BY DEF RecordsItsOwn
  <2>1. CASE q = p
    BY <1>1, <1>2, <1>4, <1>6, <1>7, <2>1 DEF c
  <2>2. CASE q # p
    <3>1. /\ run[q].todo # << >> /\ Head(run[q].todo) \in Control
          /\ run[q].seen \in 1 .. L /\ accounts[run[q].seen] = Head(run[q].todo)
      BY <1>4, <1>7, <2>2 DEF IndInv, RecordsItsOwn
    <3> QED
      BY <1>2, <1>4, <1>7, <2>2, <3>1
  <2> QED
    BY <2>1, <2>2
<1>16. ControlsResolve' /\ SeedsAll'
  <2>1. \A d \in Control : control[d] # 0 => control[d] \in 1 .. L /\ accounts[control[d]] = d
    BY <1>2 DEF IndInv, Shape, TypeOK, ControlsResolve, L
  <2>2. ControlsResolve'
    BY <1>1, <1>4, <2>1 DEF ControlsResolve
  <2>3. SeedsAll'
    BY <1>6, <1>7 DEF IndInv, SeedsAll, ToSeed, AtWork, Early
  <2> QED
    BY <2>2, <2>3
<1>17. ControlsToCome'
  <2> SUFFICES ASSUME "seeding" \notin faulted, "controls" \notin raced, MissingControls # {}
               PROVE  /\ \E q \in Opener : run'[q].at \in AtWork
                      /\ \A q \in Opener : run'[q].at \in AtWork => MissingControls \subseteq Range(run'[q].todo)
                      /\ \A q \in Server : run'[q].at # "serving"
    BY <1>1, <1>10 DEF ControlsToCome
  <2>1. /\ \A q \in Opener : run[q].at \in AtWork => MissingControls \subseteq Range(run[q].todo)
        /\ \A q \in Server : run[q].at # "serving"
    BY DEF IndInv, ControlsToCome
  <2>2. MissingControls \subseteq Range(run'[p].todo)
    <3>1. MissingControls \subseteq Range(s.todo) /\ MissingControls \subseteq Control
      BY <1>1, <2>1 DEF AtWork, s, MissingControls
    <3> QED
      BY <1>3, <1>6, <1>7, <3>1
  <2>3. \A q \in Server : run'[q].at # "serving"
    BY <1>6, <1>7, <2>1 DEF Opener, AtWork
  <2> QED
    BY <1>6, <1>7, <2>1, <2>2, <2>3
<1> QED
  BY <1>9, <1>12, <1>13, <1>14, <1>15, <1>16, <1>17 DEF IndInv

\* Recording that the chart is seeded keeps the invariant.
LEMMA SeedRecordKeeps ==
  ASSUME IndInv, NEW p \in Opener, SeedRecord(p), UNCHANGED history
  PROVE  IndInv'
<1> DEFINE s == run[p]
           c == Head(s.todo)
           r == [s EXCEPT !.at = "seed", !.todo = Tail(@)]
<1>1. /\ s.at = "record" /\ control' = [control EXCEPT ![c] = s.seen]
      /\ UNCHANGED <<exists, version, device, bookId, lamport, legacySeq, nextSeq, rows,
                     accounts, raced, faulted>>
  BY DEF SeedRecord, history
<1>2. /\ s \in Runs /\ s.todo \in Seq(Code) /\ IsInjective(s.todo) /\ s.todo # << >>
      /\ c \in Control /\ accounts[s.seen] = c /\ accounts \in Seq(Code)
      /\ s.seen \in 1 .. Len(accounts) /\ Len(accounts) \in Nat
  <2>1. DOMAIN accounts = 1 .. Len(accounts) /\ Len(accounts) \in Nat
    BY LenProperties DEF IndInv, Shape
  <2> QED
    BY <1>1, <2>1 DEF IndInv, Shape, Runs, RecordsItsOwn
<1>3. /\ Tail(s.todo) \in Seq(Code) /\ Range(s.todo) = {c} \cup Range(Tail(s.todo))
      /\ IsInjective(Tail(s.todo))
  BY <1>1, <1>2, TailFacts
<1>4. run' = [run EXCEPT ![p] = r]
  BY DEF SeedRecord, IndInv, Shape
<1>5. /\ r \in Runs /\ r.creating = s.creating /\ r.at = "seed" /\ r.todo = Tail(s.todo)
  BY <1>2, <1>3 DEF Runs, Place
<1> HIDE DEF r
<1>6. /\ run' \in [Opener -> Runs] /\ run'[p] = r
      /\ \A q \in Opener : q # p => run'[q] = run[q]
  BY <1>4, <1>5 DEF IndInv, Shape
<1> HIDE DEF s, c
<1>7. /\ control' \in [Control -> Nat] /\ control'[c] = s.seen /\ s.seen # 0
      /\ \A d \in Control : d # c => control'[d] = control[d]
  BY <1>1, <1>2 DEF IndInv, Shape
<1>8. MissingControls' \subseteq MissingControls \ {c}
  BY <1>7 DEF MissingControls
<1>9. \A q \in Opener : /\ Pending(q)' = Pending(q)
                        /\ run'[q].at \in AtWork <=> run[q].at \in AtWork
  <2>1. s.at # "seed" /\ s = run[p]
    BY <1>1 DEF s
  <2> QED
    BY <1>1, <1>5, <1>6, <2>1 DEF AtWork, Pending
<1>10. Shape'
  <2>1. \A q \in Opener : run'[q].at \in Place
    BY <1>6 DEF Runs
  <2>2. \A q \in Opener : IsInjective(run'[q].todo)
    BY <1>3, <1>5, <1>6 DEF IndInv, Shape
  <2>3. \A d \in Control : control'[d] \in 0 .. Len(accounts')
    BY <1>1, <1>2, <1>7 DEF IndInv, Shape, TypeOK
  <2>4. TypeOK'
    BY <1>1, <1>7, <2>1, <2>3 DEF IndInv, Shape, TypeOK
  <2> QED
    BY <1>1, <1>6, <1>7, <2>2, <2>4 DEF IndInv, Shape
<1>11. VersionRead' /\ Identified' /\ FileFirst' /\ OneGiver' /\ RowsAreNamed'
  <2>1. VersionRead' /\ Identified' /\ RowsAreNamed'
    BY <1>1, <1>5, <1>6 DEF IndInv, VersionRead, Identified, RowsAreNamed, s
  <2>2. FileFirst'
    BY <1>1, <1>5, <1>6 DEF IndInv, FileFirst, s
  <2>3. OneGiver'
    <3>1. \A q \in Opener : \A x \in {"device", "book", "accounts"} :
            Gives(run'[q], x) => Gives(run[q], x)
      BY <1>1, <1>5, <1>6 DEF Gives, AtWork, s
    <3> QED
      BY <1>1, <3>1, GiversStay
  <2> QED
    BY <2>1, <2>2, <2>3
<1>12. ClockAhead' /\ ClockForward' /\ CounterAhead' /\ StampsUnique' /\ SeededOnce'
  BY <1>1 DEF IndInv, ClockAhead, ClockForward, CounterAhead, StampsUnique, SeededOnce
<1>13. SeedsTheMissing' /\ RecordsItsOwn'
  <2>1. \A q \in Opener : run'[q].at \in Early => run'[q] = run[q]
    BY <1>5, <1>6 DEF Early
  <2>2. SeedsTheMissing'
    BY <1>1, <1>9, <2>1 DEF IndInv, SeedsTheMissing
  <2>3. RecordsItsOwn'
    BY <1>1, <1>5, <1>6 DEF IndInv, RecordsItsOwn
  <2> QED
    BY <2>2, <2>3
<1>14. ControlsResolve' /\ SeedsAll'
  <2>1. ControlsResolve'
    BY <1>1, <1>2, <1>7 DEF IndInv, ControlsResolve
  <2>2. SeedsAll'
    BY <1>5, <1>6 DEF IndInv, SeedsAll, ToSeed, Early
  <2> QED
    BY <2>1, <2>2
<1>15. ControlsToCome'
  <2> SUFFICES ASSUME "seeding" \notin faulted, "controls" \notin raced, MissingControls' # {}
               PROVE  /\ accounts = << >> \/ \E q \in Opener : run'[q].at \in AtWork
                      /\ \A q \in Opener : run'[q].at \in AtWork => MissingControls' \subseteq Range(run'[q].todo)
                      /\ \A q \in Server : run'[q].at # "serving"
    BY <1>1 DEF ControlsToCome
  <2>1. /\ \A q \in Opener : run[q].at \in AtWork => MissingControls \subseteq Range(run[q].todo)
        /\ \A q \in Server : run[q].at # "serving"
    BY <1>8 DEF IndInv, ControlsToCome
  <2>2. p \in Opener /\ run'[p].at \in AtWork
    BY <1>5, <1>6 DEF AtWork
  <2>3. MissingControls' \subseteq Range(run'[p].todo)
    <3>1. MissingControls \subseteq Range(s.todo)
      BY <1>1, <2>1 DEF AtWork, s
    <3> QED
      BY <1>3, <1>5, <1>6, <1>8, <3>1
  <2>4. \A q \in Server : run'[q].at # "serving"
    BY <1>5, <1>6, <2>1 DEF Opener
  <2>5. \A q \in Opener : run'[q].at \in AtWork => MissingControls' \subseteq Range(run'[q].todo)
    BY <1>6, <1>8, <2>1, <2>3
  <2> QED
    BY <2>2, <2>4, <2>5
<1> QED
  BY <1>10, <1>11, <1>12, <1>13, <1>14, <1>15 DEF IndInv
-----------------------------------------------------------------------------
\* Every step of every opener keeps the invariant.
LEMMA StepKeeps ==
  ASSUME IndInv, [Next]_vars
  PROVE  IndInv'
<1>1. CASE UNCHANGED vars
  <2>1. UNCHANGED <<exists, version, device, bookId, lamport, legacySeq, nextSeq, rows,
                    accounts, control, run, raced, faulted>>
    BY <1>1 DEF vars
  <2>2. MissingControls' = MissingControls
    BY <2>1 DEF MissingControls
  <2>3. Shape' /\ VersionRead' /\ FileFirst' /\ OneGiver' /\ Identified' /\ RowsAreNamed'
    BY <2>1, <2>2 DEF IndInv, Shape, TypeOK, VersionRead, FileFirst, OneGiver, Gives, Identified,
       RowsAreNamed
  <2>4. /\ ClockAhead' /\ ClockForward' /\ CounterAhead' /\ StampsUnique' /\ SeedsTheMissing'
        /\ SeededOnce' /\ RecordsItsOwn' /\ ControlsResolve'
    BY <2>1 DEF IndInv, ClockAhead, ClockForward, CounterAhead, StampsUnique, SeedsTheMissing,
       SeededOnce, RecordsItsOwn, ControlsResolve, Pending
  <2>5. SeedsAll' /\ ControlsToCome'
    BY <2>1, <2>2 DEF IndInv, SeedsAll, ControlsToCome, ToSeed
  <2> QED
    BY <2>3, <2>4, <2>5 DEF IndInv
<1>2. ASSUME NEW p \in Opener, Step(p)
      PROVE  IndInv'
  <2>1. CASE MovesOn(p)
    BY <2>1, MovesKeep
  <2>2. CASE CreateBook(p) /\ UNCHANGED history
    <3>1. /\ run[p].at = "probed" /\ run[p].todo \in Seq(Code) /\ IsInjective(run[p].todo)
          /\ Begin(p, run[p].todo, TRUE)
      BY <2>2 DEF CreateBook, IndInv, Shape, Runs
    <3>2. run[p].creating
      BY <3>1 DEF IndInv, VersionRead
    <3>3. Control \subseteq Range(run[p].todo)
      BY <3>1, <3>2 DEF IndInv, SeedsAll, ToSeed, Early
    <3> QED
      BY <2>2, <3>1, <3>2, <3>3, BeginKeeps
  <2>3. CASE Migrate(p) /\ UNCHANGED history
    BY <2>3, MigrateKeeps
  <2>4. CASE MintDevice(p) /\ UNCHANGED history
    BY <2>4, MintDeviceKeeps
  <2>5. CASE SeedAccount(p) /\ UNCHANGED history
    BY <2>5, SeedAccountKeeps
  <2>6. CASE SeedRecord(p) /\ UNCHANGED history
    BY <2>6, SeedRecordKeeps
  <2> QED
    BY <1>2, <2>1, <2>2, <2>3, <2>4, <2>5, <2>6 DEF Step, MovesOn
<1>3. ASSUME NEW p \in Opener, Event(p)
      PROVE  IndInv'
  <2>1. CASE OpenBook(p)
    <3> DEFINE todo == IF p \in Server THEN Full ELSE << >>
    <3>1. << >> \in Seq(Code) /\ IsInjective(<< >>)
      BY DEF IsInjective
    <3>2. /\ todo \in Seq(Code) /\ IsInjective(todo)
          /\ p \in Server => Control \subseteq Range(todo)
      BY <3>1, ChartFacts
    <3>3. Begin(p, todo, FALSE) /\ run[p].at = "closed" /\ UNCHANGED history
      BY <2>1 DEF OpenBook
    <3> HIDE DEF todo
    <3> QED
      BY <3>2, <3>3, BeginKeeps
  <2>2. CASE Write(p) /\ UNCHANGED history
    BY <2>2, WriteKeeps
  <2>3. CASE MovesOn(p)
    BY <2>3, MovesKeep
  <2> QED
    BY <1>3, <2>1, <2>2, <2>3 DEF Event, MovesOn
<1> QED
  BY <1>1, <1>2, <1>3 DEF Next

\* A step gives the book its identity only once.
LEMMA StepIsStable ==
  ASSUME IndInv, [Next]_vars
  PROVE  /\ version' >= version
         /\ device # NoId /\ "device" \notin raced => device' = device
         /\ bookId # NoId /\ "book" \notin raced => bookId' = bookId
<1>1. version \in Nat /\ version <= Latest /\ Latest \in Nat
  BY VersionAssumption DEF IndInv, Shape, TypeOK
<1>2. CASE UNCHANGED <<version, device, bookId>>
  BY <1>1, <1>2
<1>3. ASSUME NEW p \in Opener, Migrate(p)
      PROVE  version' >= version /\ UNCHANGED <<device, bookId>>
  <2>1. run[p].seen \in Nat
    BY DEF IndInv, Shape, Runs
  <2> QED
    BY <1>1, <1>3, <2>1 DEF Migrate
<1>4. ASSUME NEW p \in Opener, MintDevice(p)
      PROVE  (device = NoId \/ "device" \in raced) /\ UNCHANGED <<version, bookId>>
  BY <1>4 DEF MintDevice, IndInv, Identified
<1>5. ASSUME NEW p \in Opener, MintBook(p)
      PROVE  (bookId = NoId \/ "book" \in raced) /\ UNCHANGED <<version, device>>
  BY <1>5 DEF MintBook, IndInv, Identified
<1>6. CASE UNCHANGED vars
  BY <1>2, <1>6 DEF vars
<1>7. ASSUME NEW p \in Opener, Step(p), ~Migrate(p), ~MintDevice(p), ~MintBook(p)
      PROVE  UNCHANGED <<version, device, bookId>>
  BY <1>7 DEF Step, CreateBook, Begin, MigrateStale, FindDevice, FindBook, Count,
     SeedAccount, SeedRecord, SeedDone, book
<1>8. ASSUME NEW p \in Opener, Event(p)
      PROVE  UNCHANGED <<version, device, bookId>>
  BY <1>8 DEF Event, OpenBook, Begin, Probe, Write, Onboard, SeedFails, Quit, book
<1>9. ASSUME NEW p \in Opener, Step(p) \/ Event(p)
      PROVE  /\ version' >= version
             /\ device # NoId /\ "device" \notin raced => device' = device
             /\ bookId # NoId /\ "book" \notin raced => bookId' = bookId
  BY <1>1, <1>2, <1>3, <1>4, <1>5, <1>7, <1>8, <1>9
<1> QED
  BY <1>6, <1>2, <1>9 DEF Next, vars

\* The invariant that carries the rest, through every migration, mint, seed,
\* write, failure and quit of any number of processes.
THEOREM Invariance == Spec => []IndInv
<1>1. Init => IndInv
  BY InitInv
<1>2. IndInv /\ [Next]_vars => IndInv'
  BY StepKeeps
<1> QED
  BY <1>1, <1>2, PTL DEF Spec

\* No two rows ever carry the same (device, seq), whoever minted the id and
\* whenever migration v6 moved the counter.
THEOREM StampsAreUnique == Spec => []StampsUnique
<1>1. IndInv => StampsUnique
  BY DEF IndInv
<1> QED
  BY <1>1, Invariance, PTL

\* The book's clock only runs forward, however often it is opened, unless two
\* processes found its device id missing.
THEOREM ClockRunsForward == Spec => []ClockForward
<1>1. IndInv => ClockForward
  BY DEF IndInv
<1> QED
  BY <1>1, Invariance, PTL

\* The chart is seeded once, whoever creates the file between another's probe and
\* its open, unless a process found no accounts while another was to seed them.
THEOREM ChartSeededOnce == Spec => []SeededOnce
<1>1. IndInv => SeededOnce
  BY DEF IndInv
<1> QED
  BY <1>1, Invariance, PTL

\* The book is well formed, a control account that is recorded is the account of
\* that code, and a server serves only a book whose control accounts are.
THEOREM BookStaysConsistent == Spec => []BookConsistent
<1>1. IndInv => ServedWithControls
  BY DEF IndInv, ControlsToCome, MissingControls, ServedWithControls
<1>2. IndInv => BookConsistent
  BY <1>1 DEF IndInv, Shape, BookConsistent
<1> QED
  BY <1>2, Invariance, PTL

\* No step lowers the schema version or replaces an identity, unless a process
\* found it missing while another was about to write it.
THEOREM IdentityIsKept == Spec => IdentityStable
<1>1. IndInv /\ [Next]_vars =>
        [/\ version' >= version
         /\ device # NoId /\ "device" \notin raced => device' = device
         /\ bookId # NoId /\ "book" \notin raced => bookId' = bookId]_vars
  BY StepIsStable
<1> QED
  BY <1>1, Invariance, PTL DEF Spec, IdentityStable
=============================================================================
