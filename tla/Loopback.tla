------------------------------ MODULE Loopback ------------------------------
(* transport_loopback.c: two channels wired head to tail, each a queue of     *)
(* frames under a mutex with one condition variable.  Every critical section  *)
(* is one action; the wait gives the mutex up in the middle of one, so a pop  *)
(* that finds nothing is split there.                                         *)
EXTENDS Naturals, Sequences, FiniteSets

CONSTANTS Host, Guest,   \* the threads that use the host's and the guest's end
          Frames,
          MaxFrames      \* bound: frames accepted per channel
ASSUME LoopbackAssumption == /\ Host \cap Guest = {}
                             /\ IsFiniteSet(Host \cup Guest)
                             /\ MaxFrames \in Nat

Threads == Host \cup Guest
Chans == {"g2h", "h2g"}

VARIABLES queue,      \* [Chans -> Seq(Frames)]: head .. tail
          closed,     \* [Chans -> BOOLEAN]
          pc,         \* [Threads -> where the thread is]
          accepted, delivered, ended   \* per channel, what its users have seen
vars == <<queue, closed, pc, accepted, delivered, ended>>

SendCh(t) == IF t \in Host THEN "h2g" ELSE "g2h"
RecvCh(t) == IF t \in Host THEN "g2h" ELSE "h2g"

\* pc: "idle" outside any call; "waiting" inside mb_cond_wait; "woken" back from
\* the wait, about to test the loop condition; "closing" between the two closes.
In(c, where) == {t \in Threads : RecvCh(t) = c /\ pc[t] = where}

Init == /\ queue = [c \in Chans |-> << >>]
        /\ closed = [c \in Chans |-> FALSE]
        /\ pc = [t \in Threads |-> "idle"]
        /\ accepted = [c \in Chans |-> << >>]
        /\ delivered = [c \in Chans |-> << >>]
        /\ ended = [c \in Chans |-> FALSE]

\* mb_cond_signal: one thread waiting on the channel, if any, leaves the wait.
SignalledIfEmpty(c) == \* slip: signal only when the queue was empty
  IF In(c, "waiting") = {} \/ queue[c] # << >> THEN {pc}
  ELSE {[pc EXCEPT ![t] = "woken"] : t \in In(c, "waiting")}
Signalled(c) == IF In(c, "waiting") = {} THEN {pc}
                ELSE {[pc EXCEPT ![t] = "woken"] : t \in In(c, "waiting")}

\* mb_cond_broadcast, with p the pc of the closing thread already advanced.
BroadcastOne(c, p) == \* slip: a signal where the close needs a broadcast
  [t \in Threads |-> IF t \in In(c, "waiting") /\ t = CHOOSE w \in In(c, "waiting") : TRUE THEN "woken" ELSE p[t]]
Broadcast(c, p) == [t \in Threads |-> IF t \in In(c, "waiting") THEN "woken" ELSE p[t]]

Push(t, f) ==
  LET c == SendCh(t) IN
  /\ pc[t] = "idle"
  /\ ~closed[c]                       \* else the frame is freed, MB_ERR_IO
  /\ Len(accepted[c]) < MaxFrames
  /\ queue' = [queue EXCEPT ![c] = Append(@, f)]
  /\ accepted' = [accepted EXCEPT ![c] = Append(@, f)]
  /\ pc' \in Signalled(c)
  /\ UNCHANGED <<closed, delivered, ended>>

Take(t) ==
  LET c == RecvCh(t) IN
  /\ queue[c] # << >>
  /\ queue' = [queue EXCEPT ![c] = Tail(@)]
  /\ delivered' = [delivered EXCEPT ![c] = Append(@, Head(queue[c]))]
  /\ pc' = [pc EXCEPT ![t] = "idle"]
  /\ UNCHANGED <<closed, accepted, ended>>

EofAfterWait(t) == \* slip: if, not while, around the wait
  LET c == RecvCh(t) IN
  /\ queue[c] = << >> /\ (closed[c] \/ pc[t] = "woken")
  /\ ended' = [ended EXCEPT ![c] = TRUE]
  /\ pc' = [pc EXCEPT ![t] = "idle"]
  /\ UNCHANGED <<queue, closed, accepted, delivered>>

Eof(t) ==
  LET c == RecvCh(t) IN
  /\ queue[c] = << >> /\ closed[c]
  /\ ended' = [ended EXCEPT ![c] = TRUE]
  /\ pc' = [pc EXCEPT ![t] = "idle"]
  /\ UNCHANGED <<queue, closed, accepted, delivered>>

Wait(t) ==
  LET c == RecvCh(t) IN
  /\ queue[c] = << >> /\ ~closed[c]
  /\ pc' = [pc EXCEPT ![t] = "waiting"]
  /\ UNCHANGED <<queue, closed, accepted, delivered, ended>>

\* The loop of chan_pop: entered from a call and again after each wake-up.
Test(t) == Take(t) \/ Eof(t) \/ Wait(t)

Pop(t) == pc[t] = "idle" /\ Test(t)
Retest(t) == pc[t] = "woken" /\ Test(t)

\* A condition variable may wake a thread nobody signalled.
Spurious(t) == /\ pc[t] = "waiting"
               /\ pc' = [pc EXCEPT ![t] = "woken"]
               /\ UNCHANGED <<queue, closed, accepted, delivered, ended>>

\* ep_close: the channel the end sends on, then the one it receives from.
CloseSend(t) ==
  LET c == SendCh(t) IN
  /\ pc[t] = "idle"
  /\ closed' = [closed EXCEPT ![c] = TRUE]
  /\ pc' = Broadcast(c, [pc EXCEPT ![t] = "closing"])
  /\ UNCHANGED <<queue, accepted, delivered, ended>>

CloseRecv(t) ==
  LET c == RecvCh(t) IN
  /\ pc[t] = "closing"
  /\ closed' = [closed EXCEPT ![c] = TRUE]
  /\ pc' = Broadcast(c, [pc EXCEPT ![t] = "idle"])
  /\ UNCHANGED <<queue, accepted, delivered, ended>>

Next == \E t \in Threads :
          \/ \E f \in Frames : Push(t, f)
          \/ Pop(t) \/ Retest(t) \/ Spurious(t)
          \/ CloseSend(t) \/ CloseRecv(t)

\* A thread inside a call goes on once it can; nothing makes users start calls,
\* and spurious wake-ups are never owed.
Fairness == \A t \in Threads : WF_vars(Retest(t)) /\ WF_vars(CloseRecv(t))
Spec == Init /\ [][Next]_vars /\ Fairness

-----------------------------------------------------------------------------
\* Every variable stays within its range.
TypeOK == /\ queue \in [Chans -> Seq(Frames)] /\ closed \in [Chans -> BOOLEAN]
          /\ pc \in [Threads -> {"idle", "waiting", "woken", "closing"}]
          /\ accepted \in [Chans -> Seq(Frames)] /\ delivered \in [Chans -> Seq(Frames)]
          /\ ended \in [Chans -> BOOLEAN]

\* chan_push signals once per frame and chan_close wakes everybody, so a thread
\* is left in the wait only when as many threads as there are frames have
\* already been woken for them, and never on a closed channel.
NoLostWakeup == \A c \in Chans : In(c, "waiting") # {} =>
                  /\ Len(queue[c]) <= Cardinality(In(c, "woken"))
                  /\ ~closed[c]

\* The variables are in range and every waiter is accounted for.
WaitersConsistent == TypeOK /\ NoLostWakeup

\* Either end keeps the transport contract, nothing lost at a close: frames are
\* returned whole, once and in order, and the end is reported only on a closed
\* channel all of whose frames have been handed out.
G2H == INSTANCE FrameChannel WITH Drains <- TRUE, accepted <- accepted["g2h"],
         delivered <- delivered["g2h"], closed <- closed["g2h"], ended <- ended["g2h"]
H2G == INSTANCE FrameChannel WITH Drains <- TRUE, accepted <- accepted["h2g"],
         delivered <- delivered["h2g"], closed <- closed["h2g"], ended <- ended["h2g"]
ImplementsFrameChannel == G2H!Spec /\ H2G!Spec

\* A close by any thread of either end releases every thread blocked in a
\* receive of either direction: the serve loop and the guest both get out.
CloseReleases == \A t \in Threads :
  (pc[t] = "closing") ~> \A c \in Chans : In(c, "waiting") \cup In(c, "woken") = {}
=============================================================================
