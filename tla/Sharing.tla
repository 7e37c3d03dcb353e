------------------------------ MODULE Sharing -------------------------------
(* Live read-only sharing: the owner's app (its UI thread and the detached    *)
(* share_loop thread of app/main.c, which runs mb_share_serve_gated) and the  *)
(* apps of the guests who dial it.  A connection is two FrameChannels; a      *)
(* guest has at most one call open on it, so a call and its answer are one    *)
(* slot that moves from "sent" to "answered".                                 *)
EXTENDS Naturals, FiniteSets

CONSTANTS Books, NoBook,
          Guests, NoGuest,
          MaxWrites,     \* bound: commits per book
          MaxDials,      \* bound: dials per guest
          ThreadFails,   \* may mb_thread_create fail?
          Unreachable    \* may a dial fail although the host would accept it?
ASSUME SharingAssumption == /\ NoBook \notin Books /\ NoGuest \notin Guests
                            /\ {MaxWrites, MaxDials} \subseteq Nat
                            /\ {ThreadFails, Unreachable} \subseteq BOOLEAN

VARIABLES
  book,      \* the owner's current company, c->s
  share,     \* struct app_share: started, serving, and the company of its ro handle
  onscreen,  \* company on screen when the owner last pressed Share
  version,   \* [Books -> number of commits]
  loop,      \* where share_loop is: off, accept, stream, recv, gate, answer
  peer,      \* the guest whose connection it has
  wire,      \* that connection is up
  link,      \* [Guests -> none, dialing, up, closed]: up and closed are remote_active
  call,      \* [Guests -> idle, sent, answered]
  asked,     \* [Guests -> version and whether sharing was on during the call]
  reply,     \* [Guests -> company and version of the answer]
  first,     \* [Guests -> company of the connection's first answer]
  dials
owner == <<book, share, onscreen, version>>
thread == <<loop, peer, wire>>
guest == <<link, call, asked, reply, first, dials>>
vars == <<owner, thread, guest>>

RemoteActive(g) == link[g] \in {"up", "closed"}
NoAnswer == [book |-> NoBook, version |-> 0]

Init == /\ book \in Books \cup {NoBook}
        /\ share = [started |-> FALSE, serving |-> FALSE, ro |-> NoBook]
        /\ onscreen = NoBook
        /\ version = [b \in Books |-> 0]
        /\ loop = "off" /\ peer = NoGuest /\ wire = FALSE
        /\ link = [g \in Guests |-> "none"] /\ call = [g \in Guests |-> "idle"]
        /\ asked = [g \in Guests |-> [version |-> 0, offered |-> FALSE]]
        /\ reply = [g \in Guests |-> NoAnswer]
        /\ first = [g \in Guests |-> NoBook]
        /\ dials = [g \in Guests |-> 0]

-----------------------------------------------------------------------------
(* The owner's UI thread *)

\* open_book, and share_connect, which leaves the owner with no local book.
SwitchBook(b) == /\ book' = b
                 /\ UNCHANGED <<share, onscreen, version, thread, guest>>

\* A commit by the app or by another process that has the book open.
Write(b) == /\ version[b] < MaxWrites
            /\ version' = [version EXCEPT ![b] = @ + 1]
            /\ UNCHANGED <<book, share, onscreen, thread, guest>>

\* Calls in flight when sharing is on, or comes on, may be answered.
Offered == [g \in Guests |-> [asked[g] EXCEPT !.offered = TRUE]]

ShareStart ==
  /\ book # NoBook
  /\ onscreen' = book
  /\ asked' = Offered
  /\ IF share.started
       THEN /\ share' = [share EXCEPT !.serving = TRUE]
            /\ UNCHANGED thread
       ELSE /\ share' = [started |-> TRUE, serving |-> TRUE, ro |-> book]
            /\ loop' = "accept"
            /\ UNCHANGED <<peer, wire>>
  /\ UNCHANGED <<book, version, link, call, reply, first, dials>>

\* The thread is not created: endpoint and handle are released, the gate is not.
ShareStartFails ==
  /\ ThreadFails /\ book # NoBook /\ ~share.started
  /\ share' = [share EXCEPT !.serving = TRUE]
  /\ UNCHANGED <<book, onscreen, version, thread, guest>>

ShareStop == /\ share' = [share EXCEPT !.serving = FALSE]
             /\ UNCHANGED <<book, onscreen, version, thread, guest>>

\* The process ends; the system reclaims thread, handle and endpoint, whose
\* address dies with it: a dial in progress can only fail.
Quit == /\ book' = NoBook /\ onscreen' = NoBook
        /\ share' = [started |-> FALSE, serving |-> FALSE, ro |-> NoBook]
        /\ loop' = "off" /\ peer' = NoGuest /\ wire' = FALSE
        /\ link' = [g \in Guests |-> CASE link[g] = "up" -> "closed"
                                  [] link[g] = "dialing" -> "none"
                                  [] OTHER -> link[g]]
        /\ UNCHANGED <<version, call, asked, reply, first, dials>>

-----------------------------------------------------------------------------
(* The share_loop thread *)

\* endpoint_accept_any: the dialling guest's connect returns as well.
AcceptConn(g) ==
  /\ loop = "accept" /\ link[g] = "dialing"
  /\ loop' = "stream" /\ peer' = g /\ wire' = TRUE
  /\ link' = [link EXCEPT ![g] = "up"]
  /\ first' = [first EXCEPT ![g] = NoBook]
  /\ UNCHANGED <<owner, call, asked, reply, dials>>

\* t.close, or connection_free: whoever is at the other end sees the link drop.
CloseQuiet == /\ loop' = "accept" /\ peer' = NoGuest /\ wire' = FALSE  \* slip: no t.close
              /\ UNCHANGED link
CloseConn == /\ loop' = "accept" /\ peer' = NoGuest /\ wire' = FALSE
             /\ link' = IF wire THEN [link EXCEPT ![peer] = "closed"] ELSE link

\* connection_accept_bi waits for the stream, which the guest's first frame opens.
AcceptStream ==
  /\ loop = "stream"
  /\ \/ /\ wire /\ call[peer] = "sent"
        /\ IF share.serving THEN loop' = "recv" /\ UNCHANGED <<peer, wire, link>>
                            ELSE CloseConn
     \/ /\ ~wire /\ CloseConn
  /\ UNCHANGED <<owner, call, asked, reply, first, dials>>

Recv ==
  /\ loop = "recv"
  /\ \/ /\ wire /\ call[peer] = "sent"
        /\ loop' = "gate" /\ UNCHANGED <<peer, wire, link>>
     \/ /\ ~wire /\ CloseConn
  /\ UNCHANGED <<owner, call, asked, reply, first, dials>>

GateSkipped ==  \* slip: the gate is asked only when a guest connects
  /\ loop = "gate" /\ loop' = "answer"
  /\ UNCHANGED <<owner, peer, wire, guest>>

GateDropsOnly ==  \* slip: a stopped guest's request is dropped, its link kept
  /\ loop = "gate"
  /\ loop' = IF share.serving THEN "answer" ELSE "recv"
  /\ UNCHANGED <<owner, peer, wire, guest>>

Gate ==
  /\ loop = "gate"
  /\ IF share.serving THEN loop' = "answer" /\ UNCHANGED <<peer, wire, link>>
                      ELSE CloseConn
  /\ UNCHANGED <<owner, call, asked, reply, first, dials>>

\* mb_api_dispatch_guest runs against the loop's own read-only handle, a live one.
ContentOfOpenBook ==  \* slip: answers from c->s
  LET b == IF book = NoBook THEN share.ro ELSE book IN [book |-> b, version |-> version[b]]
ContentCached ==  \* slip: the session's first answer is kept
  [book |-> share.ro,
   version |-> IF first[peer] = NoBook THEN version[share.ro] ELSE reply[peer].version]
Content == [book |-> share.ro, version |-> version[share.ro]]

\* respond_to, then round the loop; a send on a dropped link ends the session.
Answer ==
  /\ loop = "answer"
  /\ IF wire
       THEN /\ call' = [call EXCEPT ![peer] = "answered"]
            /\ reply' = [reply EXCEPT ![peer] = Content]
            /\ first' = [first EXCEPT ![peer] = IF @ = NoBook THEN Content.book ELSE @]
            /\ loop' = "recv"
            /\ UNCHANGED <<peer, wire, link>>
       ELSE /\ CloseConn
            /\ UNCHANGED <<call, reply, first>>
  /\ UNCHANGED <<owner, asked, dials>>

-----------------------------------------------------------------------------
(* A guest's app, all of it on its UI thread *)

\* share_connect blocks in mb_share_iroh_connect until the host accepts.  (A dial
\* to an address no endpoint has fails and changes nothing.)
Dial(g) == /\ share.started
           /\ link[g] = "none" /\ dials[g] < MaxDials
           /\ link' = [link EXCEPT ![g] = "dialing"]
           /\ dials' = [dials EXCEPT ![g] = @ + 1]
           /\ UNCHANGED <<owner, thread, call, asked, reply, first>>

\* The transport gives up on a host that is gone or does not come to accept.
DialFails(g) == /\ link[g] = "dialing"
                /\ loop # "accept" \/ Unreachable
                /\ link' = [link EXCEPT ![g] = "none"]
                /\ UNCHANGED <<owner, thread, call, asked, reply, first, dials>>

\* on_invoke forwards a call, of the user or of the 2.5 s keepalive.
Call(g) ==
  /\ RemoteActive(g) /\ call[g] = "idle"
  /\ call' = [call EXCEPT ![g] = "sent"]
  /\ asked' = [asked EXCEPT ![g] =
        [version |-> IF link[g] = "up" THEN version[share.ro] ELSE 0,
         offered |-> share.serving]]
  /\ UNCHANGED <<owner, thread, link, reply, first, dials>>

Receive(g) == /\ call[g] = "answered"
              /\ call' = [call EXCEPT ![g] = "idle"]
              /\ UNCHANGED <<owner, thread, link, asked, reply, first, dials>>

\* Send or receive fails: close the transport, leave guest mode.
CallFails(g) == /\ link[g] = "closed" /\ call[g] # "idle"
                /\ call' = [call EXCEPT ![g] = "idle"]
                /\ link' = [link EXCEPT ![g] = "none"]
                /\ UNCHANGED <<owner, thread, asked, reply, first, dials>>

\* share_disconnect, possible between calls; the host sees the end of the stream.
Disconnect(g) == /\ RemoteActive(g) /\ call[g] = "idle"
                 /\ wire' = (wire /\ link[g] # "up")
                 /\ link' = [link EXCEPT ![g] = "none"]
                 /\ UNCHANGED <<owner, loop, peer, call, asked, reply, first, dials>>

\* The network cuts the connection.
LinkDrops == /\ wire
             /\ wire' = FALSE
             /\ link' = [link EXCEPT ![peer] = "closed"]
             /\ UNCHANGED <<owner, loop, peer, call, asked, reply, first, dials>>

-----------------------------------------------------------------------------
ShareLoop == (\E g \in Guests : AcceptConn(g)) \/ AcceptStream \/ Recv \/ Gate \/ Answer
Owner == \/ \E b \in Books : SwitchBook(b) \/ Write(b)
         \/ SwitchBook(NoBook) \/ ShareStart \/ ShareStartFails \/ ShareStop \/ Quit
Guest(g) == Dial(g) \/ DialFails(g) \/ Call(g) \/ Receive(g) \/ CallFails(g) \/ Disconnect(g)
Next == Owner \/ ShareLoop \/ (\E g \in Guests : Guest(g)) \/ LinkDrops

\* The thread runs; a connected guest's keepalive calls and its calls return; a
\* dial is given up in the end.  Nobody owes a click, a write or a cut.
Fairness == /\ WF_vars(ShareLoop)
            /\ \A g \in Guests : /\ WF_vars(Call(g)) /\ WF_vars(DialFails(g))
                                 /\ WF_vars(Receive(g) \/ CallFails(g))
Spec == Init /\ [][Next]_vars /\ Fairness

-----------------------------------------------------------------------------
Answers == [book : Books \cup {NoBook}, version : 0 .. MaxWrites]

\* Every variable stays in its range, and only a connection that is up has a peer.
TypeOK ==
  /\ book \in Books \cup {NoBook} /\ onscreen \in Books \cup {NoBook}
  /\ share \in [started : BOOLEAN, serving : BOOLEAN, ro : Books \cup {NoBook}]
  /\ version \in [Books -> 0 .. MaxWrites]
  /\ loop \in {"off", "accept", "stream", "recv", "gate", "answer"}
  /\ peer \in Guests \cup {NoGuest} /\ wire \in BOOLEAN
  /\ link \in [Guests -> {"none", "dialing", "up", "closed"}]
  /\ call \in [Guests -> {"idle", "sent", "answered"}]
  /\ asked \in [Guests -> [version : 0 .. MaxWrites, offered : BOOLEAN]]
  /\ reply \in [Guests -> Answers] /\ first \in [Guests -> Books \cup {NoBook}]
  /\ dials \in [Guests -> 0 .. MaxDials]
  /\ \A g \in Guests : link[g] = "up" <=> wire /\ peer = g

\* Stop cuts a connected guest off at its next call: an answer is given only to
\* a call during which sharing was on at some moment.
StopRevokes == \A g \in Guests : call[g] = "answered" => asked[g].offered

\* What a guest reads is live: an answer shows every commit made to the shared
\* book before the call.
AnswersAreLive == \A g \in Guests :
  call[g] = "answered" => reply[g].version >= asked[g].version

\* All answers on one connection are of one company, whatever the owner opens.
OneCompanyPerSession == \A g \in Guests :
  call[g] = "answered" => reply[g].book = first[g] /\ first[g] # NoBook

\* The two ends agree on who is connected, and a session shows one company.
SessionConsistent == TypeOK /\ OneCompanyPerSession

\* A guest notices within its keepalive that sharing stopped or the host quit.
StopIsNoticed == \A g \in Guests :
  (RemoteActive(g) /\ ~share.serving) ~> (~RemoteActive(g) \/ share.serving)

\* A guest's UI thread, blocked in a call, is always released.
CallsReturn == \A g \in Guests : (call[g] # "idle") ~> (call[g] = "idle")

\* Share.jsx: the panel shares the book on the owner's screen when it is used.
SharedIsOnScreen == share.started /\ share.serving => share.ro = onscreen

\* The gate is on only while an endpoint is bound and a loop serves it.
SharingIsHosted == share.serving => share.started

\* While sharing is on no guest is turned away.
GuestsAdmitted ==
  [][\A g \in Guests : link[g] = "dialing" /\ link'[g] = "none" => ~share.serving]_vars
=============================================================================
