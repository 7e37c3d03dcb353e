------------------------------ MODULE AppProofs -----------------------------
(***************************************************************************)
(* What the desktop app keeps besides a book: its sharing with guests and  *)
(* the list of books it knows.                                             *)
(*                                                                         *)
(* Sharing, for any books and guests and any number of commits, dials and  *)
(* faults: Stop revokes, answers are live, and a connection shows one      *)
(* company.  The argument ties the loop's position to the state of its     *)
(* peer's call, and the peer's connection to the handle the loop reads     *)
(* from.                                                                   *)
(*                                                                         *)
(* The list, for any books and any number of opens, forgets, short writes  *)
(* and crashes of one app: it is what the completed calls have recorded,   *)
(* or part of it once a write was cut short.                               *)
(***************************************************************************)
EXTENDS Sharing, Registry, TLAPS

\* There is a loop exactly while an endpoint is bound, with a handle of a book,
\* and it has a peer whenever it is past accepting.
LoopIsHosted ==
  /\ loop # "off" <=> share.started
  /\ share.started => share.ro \in Books
  /\ wire => loop \notin {"off", "accept"}
  /\ loop \notin {"off", "accept"} => peer \in Guests

\* Who is not connected has no call open.
CallsNeedLinks == \A g \in Guests : link[g] \in {"none", "dialing"} => call[g] = "idle"

\* While sharing is on every open call has had the chance of an answer; a request
\* past the gate has.
OpenCallsOffered ==
  /\ share.started /\ share.serving =>
       \A g \in Guests : call[g] = "sent" => asked[g].offered
  /\ wire /\ loop \in {"gate", "answer"} => call[peer] = "sent"
  /\ wire /\ loop = "answer" => asked[peer].offered

\* A connection reads one handle, whose book only moves forward.
OneHandle == \A g \in Guests : link[g] = "up" =>
  /\ first[g] \in {NoBook, share.ro}
  /\ call[g] = "sent" => asked[g].version <= version[share.ro]

IndInv == /\ TypeOK /\ LoopIsHosted /\ CallsNeedLinks /\ OpenCallsOffered /\ OneHandle
          /\ StopRevokes /\ AnswersAreLive /\ OneCompanyPerSession
-----------------------------------------------------------------------------
\* Nothing is shared, open or held at the start.
LEMMA InitInv ==
  ASSUME Init
  PROVE  IndInv
<1>1. TypeOK
  <2>1. version \in [Books -> 0 .. MaxWrites] /\ dials \in [Guests -> 0 .. MaxDials]
    BY SharingAssumption DEF Init
  <2>2. asked \in [Guests -> [version : 0 .. MaxWrites, offered : BOOLEAN]]
    BY SharingAssumption DEF Init
  <2>3. reply \in [Guests -> Answers]
    BY SharingAssumption DEF Init, NoAnswer, Answers
  <2> QED
    BY <2>1, <2>2, <2>3, SharingAssumption DEF Init, TypeOK
<1>2. LoopIsHosted /\ CallsNeedLinks /\ OpenCallsOffered /\ OneHandle
  BY DEF Init, LoopIsHosted, CallsNeedLinks, OpenCallsOffered, OneHandle
<1>3. StopRevokes /\ AnswersAreLive /\ OneCompanyPerSession
  BY DEF Init, StopRevokes, AnswersAreLive, OneCompanyPerSession
<1> QED
  BY <1>1, <1>2, <1>3 DEF IndInv

\* Share: open calls are offered an answer, and the handle is that of the first
\* time the button was pressed.
LEMMA ShareStartKeeps ==
  ASSUME IndInv, ShareStart
  PROVE  IndInv'
<1>1. /\ asked' \in [Guests -> [version : 0 .. MaxWrites, offered : BOOLEAN]]
      /\ \A g \in Guests : asked'[g].version = asked[g].version /\ asked'[g].offered
  <2>1. \A g \in Guests : asked[g] \in [version : 0 .. MaxWrites, offered : BOOLEAN]
    BY DEF IndInv, TypeOK
  <2>2. asked' = [g \in Guests |-> [asked[g] EXCEPT !.offered = TRUE]]
    BY DEF ShareStart, Offered
  <2> QED
    BY <2>1, <2>2
<1>2. /\ share' \in [started : BOOLEAN, serving : BOOLEAN, ro : Books \cup {NoBook}]
      /\ share'.started /\ share'.serving
      /\ share'.ro = IF share.started THEN share.ro ELSE book
  <2>1. /\ share \in [started : BOOLEAN, serving : BOOLEAN, ro : Books \cup {NoBook}]
        /\ book \in Books \cup {NoBook}
    BY DEF IndInv, TypeOK
  <2>2. CASE share.started
    <3>1. share' = [share EXCEPT !.serving = TRUE]
      BY <2>2 DEF ShareStart
    <3> QED
      BY <2>1, <2>2, <3>1
  <2>3. CASE ~share.started
    <3>1. share' = [started |-> TRUE, serving |-> TRUE, ro |-> book]
      BY <2>3 DEF ShareStart
    <3> QED
      BY <2>1, <2>3, <3>1
  <2> QED
    BY <2>2, <2>3
<1>3. TypeOK' /\ LoopIsHosted' /\ CallsNeedLinks'
  <2>1. CASE share.started
    BY <1>1, <1>2, <2>1 DEF ShareStart, IndInv, TypeOK, LoopIsHosted, CallsNeedLinks, thread
  <2>2. CASE ~share.started
    BY <1>1, <1>2, <2>2 DEF ShareStart, IndInv, TypeOK, LoopIsHosted, CallsNeedLinks
  <2> QED
    BY <2>1, <2>2
<1>4. OpenCallsOffered' /\ StopRevokes'
  <2>1. CASE share.started
    <3>1. UNCHANGED <<loop, peer, wire, call>>
      BY <2>1 DEF ShareStart, thread
    <3> QED
      BY <1>1, <2>1, <3>1 DEF IndInv, OpenCallsOffered, StopRevokes, LoopIsHosted
  <2>2. CASE ~share.started
    BY <1>1, <1>2, <2>2 DEF ShareStart, IndInv, OpenCallsOffered, StopRevokes,
                            LoopIsHosted
  <2> QED
    BY <2>1, <2>2
<1>5. OneHandle' /\ AnswersAreLive' /\ OneCompanyPerSession'
  <2>1. UNCHANGED <<version, link, call, reply, first, wire>>
    BY DEF ShareStart, thread
  <2>2. \A g \in Guests : link[g] = "up" => share'.ro = share.ro
    BY <1>2 DEF IndInv, TypeOK, LoopIsHosted
  <2> QED
    BY <1>1, <2>1, <2>2 DEF IndInv, OneHandle, AnswersAreLive, OneCompanyPerSession
<1> QED
  BY <1>3, <1>4, <1>5 DEF IndInv

\* The owner: whoever switches books, writes, stops or quits.
LEMMA OwnerKeeps ==
  ASSUME IndInv, Owner
  PROVE  IndInv'
<1> USE DEF IndInv, TypeOK, LoopIsHosted, CallsNeedLinks, OpenCallsOffered,
            OneHandle, StopRevokes, AnswersAreLive, OneCompanyPerSession,
            thread, guest
<1>1. ASSUME NEW b \in Books \cup {NoBook}, SwitchBook(b)
      PROVE  IndInv'
  BY <1>1 DEF SwitchBook
<1>2. ASSUME NEW b \in Books, Write(b)
      PROVE  IndInv'
  BY <1>2, SharingAssumption DEF Write
<1>3. ASSUME ShareStart
      PROVE  IndInv'
  BY <1>3, ShareStartKeeps
<1>4. ASSUME ShareStartFails
      PROVE  IndInv'
  BY <1>4 DEF ShareStartFails
<1>5. ASSUME ShareStop
      PROVE  IndInv'
  BY <1>5 DEF ShareStop
<1>6. ASSUME Quit
      PROVE  IndInv'
  BY <1>6 DEF Quit
<1> QED
  BY <1>1, <1>2, <1>3, <1>4, <1>5, <1>6 DEF Owner

\* An answer on a live connection: the gate was passed while sharing was on, and
\* the book has not moved back since the call.
LEMMA AnswerKeeps ==
  ASSUME IndInv, Answer, wire
  PROVE  IndInv'
<1>1. /\ peer \in Guests /\ link[peer] = "up" /\ share.ro \in Books
      /\ version[share.ro] \in 0 .. MaxWrites
      /\ call[peer] = "sent" /\ asked[peer].offered
  BY DEF IndInv, TypeOK, LoopIsHosted, OpenCallsOffered, Answer
<1>2. reply' \in [Guests -> Answers]
  BY <1>1 DEF IndInv, TypeOK, Answer, Content, Answers
<1>3. TypeOK' /\ LoopIsHosted' /\ CallsNeedLinks'
  BY <1>1, <1>2 DEF IndInv, TypeOK, LoopIsHosted, CallsNeedLinks, Answer, Content,
                    owner, thread, guest
<1>4. OpenCallsOffered' /\ StopRevokes'
  BY <1>1 DEF IndInv, TypeOK, OpenCallsOffered, StopRevokes, Answer, owner
<1>5. AnswersAreLive'
  <2>1. asked[peer].version <= version[share.ro]
    BY <1>1 DEF IndInv, OneHandle
  <2>2. reply' = [reply EXCEPT ![peer] = [book |-> share.ro, version |-> version[share.ro]]]
    BY DEF Answer, Content
  <2> QED
    BY <1>1, <2>1, <2>2 DEF IndInv, TypeOK, AnswersAreLive, Answer
<1>6. OneHandle' /\ OneCompanyPerSession'
  <2>1. first[peer] \in {NoBook, share.ro}
    BY <1>1 DEF IndInv, OneHandle
  <2>2. /\ reply' = [reply EXCEPT ![peer] = [book |-> share.ro, version |-> version[share.ro]]]
        /\ first' = [first EXCEPT ![peer] = share.ro]
    BY <2>1 DEF Answer, Content
  <2> QED
    BY <1>1, <2>1, <2>2, SharingAssumption
       DEF IndInv, TypeOK, OneHandle, OneCompanyPerSession, Answer, owner
<1> QED
  BY <1>3, <1>4, <1>5, <1>6 DEF IndInv

\* The share loop: each of its steps either moves on with the connection as it
\* is, or closes it.
LEMMA LoopKeeps ==
  ASSUME IndInv, ShareLoop
  PROVE  IndInv'
<1> USE DEF IndInv, TypeOK, LoopIsHosted, CallsNeedLinks, OpenCallsOffered,
            OneHandle, StopRevokes, AnswersAreLive, OneCompanyPerSession,
            owner, CloseConn
<1>1. ASSUME NEW g \in Guests, AcceptConn(g)
      PROVE  IndInv'
  BY <1>1 DEF AcceptConn
<1>2. ASSUME AcceptStream
      PROVE  IndInv'
  <2>1. CASE wire /\ call[peer] = "sent" /\ share.serving
    BY <1>2, <2>1 DEF AcceptStream
  <2>2. CASE wire /\ call[peer] = "sent" /\ ~share.serving
    <3>1. /\ loop' = "accept" /\ peer' = NoGuest /\ wire' = FALSE
          /\ link' = [link EXCEPT ![peer] = "closed"]
          /\ UNCHANGED <<owner, call, asked, reply, first, dials>>
      BY <1>2, <2>2 DEF AcceptStream
    <3>2. peer \in Guests /\ loop = "stream"
      BY <1>2, <2>2, SharingAssumption DEF AcceptStream
    <3> QED
      BY <3>1, <3>2, <2>2, SharingAssumption
  <2>3. CASE ~wire
    BY <1>2, <2>3 DEF AcceptStream
  <2> QED
    BY <1>2, <2>1, <2>2, <2>3 DEF AcceptStream
<1>3. ASSUME Recv
      PROVE  IndInv'
  <2>1. CASE wire
    BY <1>3, <2>1 DEF Recv
  <2>2. CASE ~wire
    BY <1>3, <2>2 DEF Recv
  <2> HIDE DEF IndInv
  <2> QED
    BY <2>1, <2>2
<1>4. ASSUME Gate
      PROVE  IndInv'
  <2>1. CASE share.serving
    BY <1>4, <2>1 DEF Gate
  <2>2. CASE ~share.serving
    BY <1>4, <2>2 DEF Gate
  <2> HIDE DEF IndInv
  <2> QED
    BY <2>1, <2>2
<1>5. ASSUME Answer
      PROVE  IndInv'
  <2>1. CASE wire
    BY <1>5, <2>1, AnswerKeeps
  <2>2. CASE ~wire
    BY <1>5, <2>2 DEF Answer
  <2> QED
    BY <2>1, <2>2
<1> QED
  BY <1>1, <1>2, <1>3, <1>4, <1>5 DEF ShareLoop

\* A guest's app, and the network between.
LEMMA GuestsKeep ==
  ASSUME IndInv, (\E g \in Guests : Guest(g)) \/ LinkDrops
  PROVE  IndInv'
<1> USE DEF IndInv, TypeOK, LoopIsHosted, CallsNeedLinks, OpenCallsOffered,
            OneHandle, StopRevokes, AnswersAreLive, OneCompanyPerSession,
            owner, thread, RemoteActive
<1>1. ASSUME NEW g \in Guests, Dial(g)
      PROVE  IndInv'
  BY <1>1, SharingAssumption DEF Dial
<1>2. ASSUME NEW g \in Guests, DialFails(g)
      PROVE  IndInv'
  BY <1>2 DEF DialFails
<1>3. ASSUME NEW g \in Guests, Call(g)
      PROVE  IndInv'
  BY <1>3, SharingAssumption DEF Call
<1>4. ASSUME NEW g \in Guests, Receive(g)
      PROVE  IndInv'
  BY <1>4 DEF Receive
<1>5. ASSUME NEW g \in Guests, CallFails(g)
      PROVE  IndInv'
  BY <1>5 DEF CallFails
<1>6. ASSUME NEW g \in Guests, Disconnect(g)
      PROVE  IndInv'
  BY <1>6 DEF Disconnect
<1>7. ASSUME LinkDrops
      PROVE  IndInv'
  BY <1>7 DEF LinkDrops
<1> QED
  BY <1>1, <1>2, <1>3, <1>4, <1>5, <1>6, <1>7 DEF Guest

\* Every step of the host, the guests and the relay keeps the invariant.
LEMMA StepKeeps ==
  ASSUME IndInv, [Next]_vars
  PROVE  IndInv'
<1>1. CASE UNCHANGED vars
  BY <1>1 DEF vars, owner, thread, guest, IndInv, TypeOK, LoopIsHosted, CallsNeedLinks, OpenCallsOffered,
           OneHandle, StopRevokes, AnswersAreLive, OneCompanyPerSession
<1> QED
  BY <1>1, OwnerKeeps, LoopKeeps, GuestsKeep DEF Next

\* The inductive invariant holds in every reachable state.
THEOREM Invariance == Spec => []IndInv
<1>1. Init => IndInv
  BY InitInv
<1>2. IndInv /\ [Next]_vars => IndInv'
  BY StepKeeps
<1> QED
  BY <1>1, <1>2, PTL DEF Spec
-----------------------------------------------------------------------------
\* Nothing is answered to a call that sharing was off for from beginning to end,
\* however Stop, the gate, other guests and the network interleave.
THEOREM StopAlwaysRevokes == Spec => []StopRevokes
<1>1. IndInv => StopRevokes
  BY DEF IndInv
<1> QED
  BY <1>1, Invariance, PTL

\* Every answer shows the commits made to the shared book before the call.
THEOREM AnswersStayLive == Spec => []AnswersAreLive
<1>1. IndInv => AnswersAreLive
  BY DEF IndInv
<1> QED
  BY <1>1, Invariance, PTL

\* A connection shows one company, and its two ends agree that it exists.
THEOREM OneCompany == Spec => []SessionConsistent
<1>1. IndInv => SessionConsistent
  BY DEF IndInv, SessionConsistent
<1> QED
  BY <1>1, Invariance, PTL
-----------------------------------------------------------------------------
(* The list of known books *)

\* One app runs at a time.
OneApp == \A p, q \in Apps : p = q

\* A call under way has a book and the time of its call.
JobsNamed ==
  \A p \in Apps : app[p].at \in {"read", "truncate", "write"} =>
    app[p].op \in {"touch", "forget"} /\ app[p].path \in Paths /\ app[p].now \in 1 .. MaxClock

\* A list shows what is on record, all of it unless a write was cut short.
Part(arr, all) == \A b \in DOMAIN arr : b \in DOMAIN all /\ arr[b] = all[b]
Shows(arr, all) == IF lost THEN Part(arr, all) ELSE arr = all

\* The file shows what is on record until it is emptied for a new list, and from
\* its reading on that list shows what will be.
ListInv ==
  /\ RegistryTypeOK /\ JobsNamed
  /\ (\A p \in Apps : app[p].at # "write") => Shows(ReadAll, known)
  /\ \A p \in Apps :
       /\ app[p].at = "write" => file = Torn
       /\ app[p].at \in {"truncate", "write"} => Shows(app[p].arr, Recorded(app[p]))

\* Lists are functions from books to times.
LEMMA ListsAre ==
  ASSUME NEW arr
  PROVE  arr \in Lists <=>
           /\ DOMAIN arr \subseteq Paths
           /\ arr = [b \in DOMAIN arr |-> arr[b]]
           /\ \A b \in DOMAIN arr : arr[b] \in 1 .. MaxClock
BY DEF Lists

\* A list changed is a list, and shows the new record if the old one showed the old.
LEMMA ChangedShows ==
  ASSUME NEW arr \in Lists, known \in Lists, Shows(arr, known),
         NEW j, j.op \in {"touch", "forget"}, j.path \in Paths, j.now \in 1 .. MaxClock
  PROVE  /\ Changed(arr, j) \in Lists
         /\ Recorded(j) \in Lists
         /\ Shows(Changed(arr, j), Recorded(j))
<1>1. CASE j.op = "touch"
  <2> DEFINE c == With(arr, j.path, j.now)
             r == With(known, j.path, j.now)
  <2>1. Changed(arr, j) = c /\ Recorded(j) = r
    <3>1. Changed(arr, j) = c
      BY <1>1 DEF Changed
    <3>2. Recorded(j) = r
      <4>1. (DOMAIN known \ {j.path}) \cup {j.path} = DOMAIN known \cup {j.path}
        OBVIOUS
      <4> QED
        BY <1>1, <4>1 DEF Recorded, With
    <3> QED
      BY <3>1, <3>2
  <2>2. c \in Lists /\ r \in Lists
    BY ListsAre DEF With
  <2>3. Shows(c, r)
    BY DEF Shows, Part, With
  <2> QED
    BY <2>1, <2>2, <2>3
<1>2. CASE j.op = "forget"
  <2> DEFINE c == Without(arr, j.path)
             r == Without(known, j.path)
  <2>1. Changed(arr, j) = c /\ Recorded(j) = r
    <3>1. Changed(arr, j) = c
      BY <1>2 DEF Changed
    <3>2. Recorded(j) = r
      <4>1. (DOMAIN known \ {j.path}) \cup {} = DOMAIN known \ {j.path}
        OBVIOUS
      <4> QED
        BY <1>2, <4>1 DEF Recorded, Without
    <3> QED
      BY <3>1, <3>2
  <2>2. c \in Lists /\ r \in Lists
    BY ListsAre DEF Without
  <2>3. Shows(c, r)
    BY DEF Shows, Part, Without
  <2> QED
    BY <2>1, <2>2, <2>3
<1> QED
  BY <1>1, <1>2

Job == [at : {"off", "idle", "read", "truncate", "write"}, op : {"none", "touch", "forget"},
        path : Paths \cup {NoPath}, now : 0 .. MaxClock, arr : Lists]

\* A torn file shows nothing, and nothing is part of any list.
LEMMA TornIsEmpty ==
  /\ Empty \in Lists /\ DOMAIN Empty = {}
  /\ Torn \in [parses : BOOLEAN, list : Lists]
  /\ \A all : Part(Empty, all)
  /\ file = Torn => ReadAll = Empty
<1>1. DOMAIN Empty = {} /\ Empty = [b \in DOMAIN Empty |-> Empty[b]]
  BY DEF Empty
<1>2. Empty \in Lists
  BY <1>1, ListsAre
<1> QED
  BY <1>1, <1>2 DEF Part, Torn, ReadAll

\* The list that is read is a list, and its most recent entry a book.
LEMMA ReadAllIs ==
  ASSUME RegistryTypeOK
  PROVE  /\ ReadAll \in Lists
         /\ MostRecent(ReadAll) \subseteq Paths
<1>1. ReadAll \in Lists
  BY TornIsEmpty DEF ReadAll, RegistryTypeOK
<1> QED
  BY <1>1, ListsAre DEF MostRecent

\* The one app there is moves on in a call, or out of one.
LEMMA AppMoves ==
  ASSUME OneApp, RegistryTypeOK, NEW p \in Apps, NEW job \in Job, app' = [app EXCEPT ![p] = job]
  PROVE  /\ app' \in [Apps -> Job]
         /\ \A q \in Apps : app'[q] = job
BY DEF OneApp, RegistryTypeOK, Job

\* There is no file and no call at first.
LEMMA InitListInv ==
  ASSUME RegistryInit
  PROVE  ListInv
<1>1. Idle \in Job /\ Off \in Job /\ Off.at = "off" /\ Idle.at = "idle"
  BY RegistryAssumption, TornIsEmpty DEF Idle, Off, Job
<1>2. RegistryTypeOK
  <2>1. app \in [Apps -> Job] /\ open \in [Apps -> Paths \cup {NoPath}]
    BY <1>1 DEF RegistryInit
  <2>2. file \in [parses : BOOLEAN, list : Lists] /\ known \in Lists /\ lost \in BOOLEAN
    BY TornIsEmpty DEF RegistryInit
  <2>3. clock \in 0 .. MaxClock
    BY RegistryAssumption DEF RegistryInit
  <2> QED
    BY <2>1, <2>2, <2>3 DEF RegistryTypeOK, Job
<1>3. ReadAll = known
  BY TornIsEmpty DEF RegistryInit
<1> QED
  BY <1>1, <1>2, <1>3 DEF ListInv, JobsNamed, Shows, RegistryInit

\* A call begins on a list that nobody is changing.
LEMMA BeginKeepsList ==
  ASSUME OneApp, ListInv, NEW p \in Apps, NEW op \in {"touch", "forget"},
         NEW b \in Paths, app[p].at # "write", Begin(p, op, b),
         open' \in [Apps -> Paths \cup {NoPath}]
  PROVE  ListInv'
<1> DEFINE job == [at |-> "read", op |-> op, path |-> b, now |-> clock + 1, arr |-> Empty]
<1>1. RegistryTypeOK /\ clock + 1 \in 1 .. MaxClock /\ clock' = clock + 1
  BY RegistryAssumption DEF ListInv, RegistryTypeOK, Begin
<1>2. job \in Job
  BY <1>1, TornIsEmpty DEF Job
<1>3. app' = [app EXCEPT ![p] = job] /\ UNCHANGED <<file, known, lost>>
  BY DEF Begin
<1> HIDE DEF job
<1>4. app' \in [Apps -> Job] /\ \A q \in Apps : app'[q] = job
  BY <1>1, <1>2, <1>3, AppMoves
<1>5. RegistryTypeOK'
  BY RegistryAssumption, <1>1, <1>3, <1>4 DEF RegistryTypeOK, Job
<1>6. JobsNamed'
  BY <1>1, <1>4 DEF JobsNamed, job
<1>7. Shows(ReadAll, known)
  BY DEF ListInv, OneApp
<1> QED
  BY <1>3, <1>4, <1>5, <1>6, <1>7 DEF ListInv, Shows, Part, ReadAll, job

\* Every step of the one app keeps the invariant.
LEMMA NextListInv ==
  ASSUME OneApp, ListInv, RegistryNext
  PROVE  ListInv'
<1> USE DEF OneApp
<1>1. PICK p \in Apps :
        \/ Launch(p) \/ Read(p) \/ Truncate(p)
        \/ WriteAll(p) \/ WriteShort(p) \/ QuitApp(p)
        \/ \E b \in Paths : Choose(p, b) \/ Forget(p, b)
  BY DEF RegistryNext
<1>2. RegistryTypeOK /\ JobsNamed /\ app[p] \in Job
  BY DEF ListInv, RegistryTypeOK, Job
<1>3. app[p].at # "write" => Shows(ReadAll, known)
  BY DEF ListInv
<1>4. app[p].at = "write" => file = Torn
  BY DEF ListInv
<1>5. app[p].at \in {"truncate", "write"} => Shows(app[p].arr, Recorded(app[p]))
  BY DEF ListInv
<1>6. Idle \in Job /\ Off \in Job /\ Off.at = "off" /\ Idle.at = "idle"
  BY RegistryAssumption, TornIsEmpty DEF Idle, Off, Job
<1>7. ASSUME NEW b \in Paths, OpenBook(p, b), app[p].at # "write"
      PROVE  ListInv'
  <2>1. open' \in [Apps -> Paths \cup {NoPath}]
    BY <1>2, <1>7 DEF OpenBook, RegistryTypeOK
  <2> QED
    BY <1>7, <2>1, BeginKeepsList DEF OpenBook
<1>8. ASSUME app' = [app EXCEPT ![p] = Idle] \/ app' = [app EXCEPT ![p] = Off],
             file' \in [parses : BOOLEAN, list : Lists], known' \in Lists,
             open' \in [Apps -> Paths \cup {NoPath}], clock' = clock, lost' \in BOOLEAN,
             Shows(ReadAll, known)'
      PROVE  ListInv'
  <2>1. PICK job \in {Idle, Off} : app' = [app EXCEPT ![p] = job]
    BY <1>8
  <2>2. app' \in [Apps -> Job] /\ \A q \in Apps : app'[q] = job
    BY <1>2, <1>6, <2>1, AppMoves
  <2>3. RegistryTypeOK'
    BY <1>2, <1>8, <2>2 DEF RegistryTypeOK, Job
  <2>4. \A q \in Apps : app'[q].at \in {"off", "idle"}
    BY <1>6, <2>1, <2>2
  <2> QED
    BY <1>8, <2>3, <2>4 DEF ListInv, JobsNamed
<1>9. CASE Launch(p)
  <2>1. CASE \E b \in MostRecent(ReadAll) : OpenBook(p, b)
    BY <1>2, <1>7, <1>9, <2>1, ReadAllIs DEF Launch
  <2>2. CASE app' = [app EXCEPT ![p] = Idle] /\ UNCHANGED <<file, open, clock, known, lost>>
    <3>1. Shows(ReadAll, known)'
      BY <1>3, <1>9, <2>2 DEF Launch, Shows, Part, ReadAll
    <3> QED
      BY <1>2, <1>8, <2>2, <3>1 DEF RegistryTypeOK
  <2> QED
    BY <1>9, <2>1, <2>2 DEF Launch
<1>10. CASE \E b \in Paths : Choose(p, b) \/ Forget(p, b)
  <2>1. PICK b \in Paths : Choose(p, b) \/ Forget(p, b)
    BY <1>10
  <2>2. CASE Choose(p, b)
    BY <1>7, <2>2 DEF Choose
  <2>3. CASE Forget(p, b)
    BY <1>2, <2>3, BeginKeepsList DEF Forget, RegistryTypeOK
  <2> QED
    BY <2>1, <2>2, <2>3
<1>11. CASE Read(p)
  <2> DEFINE arr == Changed(ReadAll, app[p])
             job == [app[p] EXCEPT !.at = "truncate", !.arr = arr]
  <2>1. app[p].at = "read" /\ UNCHANGED <<file, open, clock, known, lost>>
    BY <1>11 DEF Read
  <2>2. app' = [app EXCEPT ![p] = job]
    BY <1>2, <1>11 DEF Read, RegistryTypeOK
  <2>3. app[p].op \in {"touch", "forget"} /\ app[p].path \in Paths /\ app[p].now \in 1 .. MaxClock
    BY <1>2, <2>1 DEF JobsNamed
  <2>4. arr \in Lists /\ Shows(arr, Recorded(app[p]))
    BY <1>2, <1>3, <2>1, <2>3, ReadAllIs, ChangedShows DEF RegistryTypeOK
  <2>5. job \in Job /\ job.at = "truncate" /\ job.arr = arr /\ job.op = app[p].op
        /\ job.path = app[p].path /\ job.now = app[p].now
    BY <1>2, <2>4 DEF Job
  <2> HIDE DEF job, arr
  <2>6. app' \in [Apps -> Job] /\ \A q \in Apps : app'[q] = job
    BY <1>2, <2>2, <2>5, AppMoves
  <2>7. RegistryTypeOK'
    BY <1>2, <2>1, <2>6 DEF RegistryTypeOK, Job
  <2>8. \A q \in Apps : Recorded(app[q])' = Recorded(app[p])
    BY <2>1, <2>5, <2>6 DEF Recorded
  <2>9. JobsNamed'
    BY <2>3, <2>5, <2>6 DEF JobsNamed
  <2>10. Shows(ReadAll, known)'
    BY <1>3, <2>1 DEF Shows, Part, ReadAll
  <2>11. \A q \in Apps : Shows(app[q].arr, Recorded(app[q]))'
    BY <2>1, <2>4, <2>5, <2>6, <2>8 DEF Shows, Part
  <2> QED
    BY <2>5, <2>6, <2>7, <2>9, <2>10, <2>11 DEF ListInv
<1>12. CASE Truncate(p)
  <2> DEFINE job == [app[p] EXCEPT !.at = "write"]
  <2>1. app[p].at = "truncate" /\ file' = Torn /\ UNCHANGED <<open, clock, known, lost>>
    BY <1>12 DEF Truncate
  <2>2. app' = [app EXCEPT ![p] = job]
    BY <1>2, <1>12 DEF Truncate, RegistryTypeOK
  <2>3. job \in Job /\ job.at = "write" /\ job.arr = app[p].arr /\ job.op = app[p].op
        /\ job.path = app[p].path /\ job.now = app[p].now
    BY <1>2 DEF Job
  <2> HIDE DEF job
  <2>4. app' \in [Apps -> Job] /\ \A q \in Apps : app'[q] = job
    BY <1>2, <2>2, <2>3, AppMoves
  <2>5. RegistryTypeOK'
    BY <1>2, <2>1, <2>4, TornIsEmpty DEF RegistryTypeOK, Job
  <2>6. \A q \in Apps : Recorded(app[q])' = Recorded(app[p])
    BY <2>1, <2>3, <2>4 DEF Recorded
  <2>7. JobsNamed'
    BY <1>2, <2>1, <2>3, <2>4 DEF JobsNamed
  <2>8. Torn' = Torn
    BY DEF Torn, Empty
  <2>9. \A q \in Apps : Shows(app[q].arr, Recorded(app[q]))'
    BY <1>5, <2>1, <2>3, <2>4, <2>6 DEF Shows, Part
  <2> QED
    BY <2>1, <2>3, <2>4, <2>5, <2>7, <2>8, <2>9 DEF ListInv
<1>13. CASE WriteAll(p)
  <2>1. /\ app[p].at = "write" /\ file' = Whole(app[p].arr) /\ known' = Recorded(app[p])
        /\ app' = [app EXCEPT ![p] = Idle] /\ UNCHANGED <<open, clock, lost>>
    BY <1>13 DEF WriteAll
  <2>2. app[p].op \in {"touch", "forget"} /\ app[p].path \in Paths /\ app[p].now \in 1 .. MaxClock
    BY <1>2, <2>1 DEF JobsNamed
  <2>3. known' \in Lists
    <3> DEFINE job == app[p]
    <3>1. job.op \in {"touch", "forget"} /\ job.path \in Paths /\ job.now \in 1 .. MaxClock
      BY <2>2
    <3>2. known \in Lists /\ Shows(known, known)
      BY <1>2 DEF RegistryTypeOK, Shows, Part
    <3> HIDE DEF job
    <3>3. Recorded(job) \in Lists
      BY <3>1, <3>2, ChangedShows
    <3> QED
      BY <2>1, <3>3 DEF job
  <2>4. file' \in [parses : BOOLEAN, list : Lists] /\ ReadAll' = app[p].arr
    BY <1>2, <2>1 DEF Whole, ReadAll, Job
  <2>5. Shows(ReadAll, known)'
    BY <1>5, <2>1, <2>4 DEF Shows, Part
  <2> QED
    BY <1>2, <1>8, <2>1, <2>3, <2>4, <2>5 DEF RegistryTypeOK
<1>14. CASE WriteShort(p)
  <2>1. /\ app[p].at = "write" /\ lost' = TRUE
        /\ app' = [app EXCEPT ![p] = Idle] /\ UNCHANGED <<file, open, clock, known>>
    BY <1>14 DEF WriteShort
  <2>2. ReadAll' = Empty
    BY <1>4, <2>1, TornIsEmpty DEF ReadAll
  <2>3. Shows(ReadAll, known)'
    BY <2>1, <2>2, TornIsEmpty DEF Shows, Part
  <2> QED
    BY <1>2, <1>8, <2>1, <2>3 DEF RegistryTypeOK
<1>15. CASE QuitApp(p)
  <2>1. /\ lost' = (lost \/ app[p].at = "write") /\ app' = [app EXCEPT ![p] = Off]
        /\ open' = [open EXCEPT ![p] = NoPath] /\ UNCHANGED <<file, clock, known>>
    BY <1>15 DEF QuitApp
  <2>2. lost' \in BOOLEAN /\ open' \in [Apps -> Paths \cup {NoPath}]
    BY <1>2, <2>1 DEF RegistryTypeOK
  <2>3. Shows(ReadAll, known)'
    <3>1. CASE app[p].at = "write"
      <4>1. ReadAll' = Empty
        BY <1>4, <2>1, <3>1, TornIsEmpty DEF ReadAll
      <4> QED
        BY <2>1, <3>1, <4>1, TornIsEmpty DEF Shows, Part
    <3>2. CASE app[p].at # "write"
      <4>1. lost' = lost
        BY <1>2, <2>1, <3>2 DEF RegistryTypeOK
      <4> QED
        BY <1>3, <2>1, <3>2, <4>1 DEF Shows, Part, ReadAll
    <3> QED
      BY <3>1, <3>2
  <2> QED
    BY <1>2, <1>8, <2>1, <2>2, <2>3 DEF RegistryTypeOK
<1> QED
  BY <1>1, <1>9, <1>10, <1>11, <1>12, <1>13, <1>14, <1>15

\* Steps that change nothing keep it too.
LEMMA StutterListInv ==
  ASSUME ListInv, UNCHANGED registryVars
  PROVE  ListInv'
<1>1. UNCHANGED <<file, app, open, clock, known, lost>>
  BY DEF registryVars
<1>2. RegistryTypeOK' /\ JobsNamed'
  BY <1>1 DEF ListInv, RegistryTypeOK, JobsNamed
<1>3. Torn' = Torn /\ ReadAll' = ReadAll
  BY <1>1 DEF Torn, Empty, ReadAll
<1>4. \A p \in Apps : Recorded(app[p])' = Recorded(app[p])
  BY <1>1 DEF Recorded
<1> QED
  BY <1>1, <1>2, <1>3, <1>4 DEF ListInv, Shows, Part

\* While one app runs at a time, the books file lists between calls exactly what
\* the completed calls of registry.c recorded, and only that once a write was cut
\* short: however many books there are, however often they are opened, and
\* wherever the app stops.
THEOREM ListIsCurrentAlways ==
  ASSUME OneApp
  PROVE  RegistrySpec => []ListIsCurrent
<1>1. RegistryInit => ListInv
  BY InitListInv
<1>2. ListInv /\ [RegistryNext]_registryVars => ListInv'
  BY NextListInv, StutterListInv
<1>3. ListInv => ListIsCurrent
  <2> SUFFICES ASSUME ListInv
               PROVE  ListIsCurrent
    OBVIOUS
  <2>1. RegistryTypeOK
    BY DEF ListInv
  <2>2. ASSUME Settled
        PROVE  Shows(ReadAll, known)
    BY <2>2 DEF ListInv, Settled
  <2> QED
    BY <2>1, <2>2 DEF ListIsCurrent, Shows, Part
<1> QED
  BY <1>1, <1>2, <1>3, PTL DEF RegistrySpec
=============================================================================
