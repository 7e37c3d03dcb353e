-------------------------- MODULE TransportsProofs --------------------------
(***************************************************************************)
(* What the transport table guarantees over either implementation, for any *)
(* threads, frames and bounds: no waiter of the in-memory pair is          *)
(* forgotten, and the pair and the stream both implement FrameChannel.     *)
(* Each implementation has an inductive invariant of its own.              *)
(***************************************************************************)
EXTENDS Transports, SequenceTheorems, FiniteSetTheorems, TLAPS
-----------------------------------------------------------------------------
(* The in-memory pair *)

\* What a channel has accepted is what it has handed out and what it holds; an
\* end is told of a closed and empty channel only.
AcceptedIsPassedOn == \A c \in Chans :
  /\ accepted[c] = delivered[c] \o queue[c]
  /\ ended[c] => closed[c] /\ queue[c] = << >>
LoopbackInv == TypeOK /\ NoLostWakeup /\ AcceptedIsPassedOn

\* Appending to the second of two sequences.
LEMMA AppendToConcat ==
  ASSUME NEW S, NEW d \in Seq(S), NEW q \in Seq(S), NEW f \in S
  PROVE  d \o Append(q, f) = Append(d \o q, f)
<1>1. <<f>> \in Seq(S)
  OBVIOUS
<1>2. d \o q \in Seq(S)
  BY ConcatProperties
<1>3. Append(d \o q, f) = (d \o q) \o <<f>>
  BY <1>2, AppendIsConcat
<1>4. Append(q, f) = q \o <<f>>
  BY AppendIsConcat
<1>5. (d \o q) \o <<f>> = d \o (q \o <<f>>)
  BY <1>1, ConcatAssociative
<1> QED
  BY <1>3, <1>4, <1>5

\* Concatenation is associative.
LEMMA Regroup ==
  ASSUME NEW S, NEW s \in Seq(S), NEW t \in Seq(S), NEW u \in Seq(S)
  PROVE  s \o (t \o u) = (s \o t) \o u
BY ConcatAssociative

\* The head of what is queued moves to the end of what was taken.
LEMMA MoveHead ==
  ASSUME NEW S, NEW d \in Seq(S), NEW q \in Seq(S), q # << >>
  PROVE  d \o q = Append(d, Head(q)) \o Tail(q)
<1>1. Head(q) \in S /\ Tail(q) \in Seq(S) /\ <<Head(q)>> \in Seq(S)
  BY HeadTailProperties
<1>2. Len(q) \in Nat \ {0}
  BY EmptySeq
<1>3. q = <<Head(q)>> \o Tail(q)
  <2>1. SubSeq(q, 1, Len(q)) = << q[1] >> \o SubSeq(q, 1 + 1, Len(q))
    BY <1>2, SubSeqRecursiveFirst
  <2>2. SubSeq(q, 1, Len(q)) = q /\ SubSeq(q, 2, Len(q)) = Tail(q)
    BY SubSeqFull, TailIsSubSeq
  <2>3. Head(q) = q[1]
    BY <1>2
  <2> QED
    BY <2>1, <2>2, <2>3
<1>4. Append(d, Head(q)) = d \o <<Head(q)>>
  BY <1>1, AppendIsConcat
<1>5. (d \o <<Head(q)>>) \o Tail(q) = d \o (<<Head(q)>> \o Tail(q))
  BY <1>1, ConcatAssociative
<1> QED
  BY <1>3, <1>4, <1>5, Zenon

\* A thread sends on one channel and receives on the other.
LEMMA EndsOfThreads ==
  \A t \in Threads : /\ SendCh(t) \in Chans /\ RecvCh(t) \in Chans
                     /\ SendCh(t) # RecvCh(t)
BY DEF SendCh, RecvCh, Chans

\* Only finitely many threads wait anywhere.
LEMMA InIsFinite ==
  ASSUME NEW c, NEW where
  PROVE  IsFiniteSet(In(c, where)) /\ Cardinality(In(c, where)) \in Nat
<1>1. In(c, where) \subseteq Host \cup Guest
  BY DEF In, Threads
<1> QED
  BY <1>1, LoopbackAssumption, FS_Subset, FS_CardinalityType

\* Both channels start open and empty, with nobody waiting.
LEMMA LoopbackInit ==
  ASSUME Init
  PROVE  LoopbackInv
BY DEF Init, LoopbackInv, TypeOK, NoLostWakeup, AcceptedIsPassedOn, In, Chans

\* A push wakes one waiter if there is any.
LEMMA PushKeeps ==
  ASSUME LoopbackInv, NEW t \in Threads, NEW f \in Frames, Push(t, f)
  PROVE  LoopbackInv'
<1> DEFINE c == SendCh(t)
<1>1. c \in Chans
  BY EndsOfThreads
<1>2. /\ queue' = [queue EXCEPT ![c] = Append(@, f)]
      /\ accepted' = [accepted EXCEPT ![c] = Append(@, f)]
      /\ UNCHANGED <<closed, delivered, ended>>
      /\ pc' \in Signalled(c)
      /\ ~closed[c]
  BY DEF Push
<1> HIDE DEF c
<1>3. TypeOK
  BY DEF LoopbackInv
<1>4. TypeOK'
  <2>1. Append(queue[c], f) \in Seq(Frames) /\ Append(accepted[c], f) \in Seq(Frames)
    BY <1>1, <1>3, AppendProperties DEF TypeOK
  <2>2. pc' \in [Threads -> {"idle", "waiting", "woken", "closing"}]
    BY <1>2, <1>3 DEF TypeOK, Signalled
  <2> QED
    BY <1>1, <1>2, <1>3, <2>1, <2>2 DEF TypeOK
<1>5. NoLostWakeup'
  <2>1. CASE In(c, "waiting") = {}
    <3>1. pc' = pc
      BY <1>2, <2>1 DEF Signalled
    <3>2. \A d \in Chans \ {c} : queue'[d] = queue[d]
      BY <1>2, <1>3 DEF TypeOK
    <3> QED
      BY <1>2, <2>1, <3>1, <3>2 DEF LoopbackInv, NoLostWakeup, In
  <2>2. CASE In(c, "waiting") # {}
    <3>1. PICK w \in In(c, "waiting") : pc' = [pc EXCEPT ![w] = "woken"]
      BY <1>2, <2>2 DEF Signalled
    <3>2. w \in Threads /\ RecvCh(w) = c /\ w \notin In(c, "woken")
      BY <3>1 DEF In
    <3>3. In(c, "woken")' = In(c, "woken") \cup {w}
      BY <1>3, <3>1, <3>2 DEF In, TypeOK
    <3>4. Cardinality(In(c, "woken")') = Cardinality(In(c, "woken")) + 1
      BY <3>2, <3>3, InIsFinite, FS_AddElement
    <3>5. Len(queue[c]) <= Cardinality(In(c, "woken"))
      BY <1>1, <2>2 DEF LoopbackInv, NoLostWakeup
    <3>6. Len(queue'[c]) = Len(queue[c]) + 1 /\ Len(queue[c]) \in Nat
      BY <1>1, <1>2, <1>3 DEF TypeOK
    <3>7. \A d \in Chans \ {c} : /\ queue'[d] = queue[d]
                                 /\ In(d, "waiting")' = In(d, "waiting")
                                 /\ In(d, "woken")' = In(d, "woken")
      BY <1>2, <1>3, <3>1, <3>2 DEF TypeOK, In
    <3> QED
      BY <1>2, <3>4, <3>5, <3>6, <3>7, InIsFinite DEF LoopbackInv, NoLostWakeup
  <2> QED
    BY <2>1, <2>2
<1>6. AcceptedIsPassedOn'
  <2>1. /\ accepted[c] = delivered[c] \o queue[c] /\ ~ended[c]
        /\ delivered[c] \in Seq(Frames) /\ queue[c] \in Seq(Frames)
    BY <1>1, <1>2, <1>3 DEF LoopbackInv, AcceptedIsPassedOn, TypeOK
  <2>2. Append(accepted[c], f) = delivered[c] \o Append(queue[c], f)
    <3> DEFINE d == delivered[c]
               q == queue[c]
    <3>0. d \in Seq(Frames) /\ q \in Seq(Frames) /\ f \in Frames
      BY <2>1
    <3> HIDE DEF d, q
    <3>1. d \o Append(q, f) = Append(d \o q, f)
      BY <3>0, AppendToConcat
    <3> QED
      BY <2>1, <3>1, Zenon DEF d, q
  <2> QED
    BY <1>1, <1>2, <1>3, <2>1, <2>2 DEF TypeOK, LoopbackInv, AcceptedIsPassedOn
<1> QED
  BY <1>4, <1>5, <1>6 DEF LoopbackInv

\* Whoever takes a frame was in no wait, or was woken for it.
LEMMA TakeKeeps ==
  ASSUME LoopbackInv, NEW t \in Threads, pc[t] \in {"idle", "woken"}, Take(t)
  PROVE  LoopbackInv'
<1> DEFINE c == RecvCh(t)
<1>1. c \in Chans
  BY EndsOfThreads
<1>2. /\ queue[c] # << >>
      /\ queue' = [queue EXCEPT ![c] = Tail(@)]
      /\ delivered' = [delivered EXCEPT ![c] = Append(@, Head(queue[c]))]
      /\ pc' = [pc EXCEPT ![t] = "idle"]
      /\ UNCHANGED <<closed, accepted, ended>>
  BY DEF Take
<1>3. TypeOK
  BY DEF LoopbackInv
<1>4. /\ queue[c] \in Seq(Frames) /\ delivered[c] \in Seq(Frames)
      /\ Head(queue[c]) \in Frames /\ Tail(queue[c]) \in Seq(Frames)
      /\ Len(Tail(queue[c])) = Len(queue[c]) - 1 /\ Len(queue[c]) \in Nat
  BY <1>1, <1>2, <1>3, HeadTailProperties DEF TypeOK
<1>5. RecvCh(t) = c
  OBVIOUS
<1> HIDE DEF c
<1>6. TypeOK'
  <2>1. Append(delivered[c], Head(queue[c])) \in Seq(Frames)
    BY <1>4, AppendProperties
  <2> QED
    BY <1>1, <1>2, <1>3, <1>4, <2>1 DEF TypeOK
<1>7. NoLostWakeup'
  <2>1. \A d \in Chans : In(d, "waiting")' = In(d, "waiting")
    BY <1>2, <1>3 DEF TypeOK, In
  <2>2. \A d \in Chans \ {c} : queue'[d] = queue[d] /\ In(d, "woken")' = In(d, "woken")
    BY <1>2, <1>3, <1>5 DEF TypeOK, In
  <2>3. In(c, "woken")' = In(c, "woken") \ {t}
    BY <1>2, <1>3, <1>5 DEF TypeOK, In
  <2>4. Cardinality(In(c, "woken")') >= Cardinality(In(c, "woken")) - 1
    BY <2>3, InIsFinite, FS_RemoveElement
  <2>5. Len(queue'[c]) = Len(queue[c]) - 1
    BY <1>1, <1>2, <1>3, <1>4 DEF TypeOK
  <2>6. Cardinality(In(c, "woken")') \in Nat
    BY <2>3, InIsFinite, FS_RemoveElement, FS_CardinalityType
  <2> QED
    BY <1>1, <1>2, <1>4, <2>1, <2>2, <2>4, <2>5, <2>6, InIsFinite DEF LoopbackInv, NoLostWakeup
<1>8. AcceptedIsPassedOn'
  <2>1. accepted[c] = delivered[c] \o queue[c] /\ ~ended[c]
    BY <1>1, <1>2 DEF LoopbackInv, AcceptedIsPassedOn
  <2>2. delivered[c] \o queue[c] = Append(delivered[c], Head(queue[c])) \o Tail(queue[c])
    BY <1>2, <1>4, MoveHead
  <2> QED
    BY <1>1, <1>2, <1>3, <2>1, <2>2 DEF TypeOK, LoopbackInv, AcceptedIsPassedOn
<1> QED
  BY <1>6, <1>7, <1>8 DEF LoopbackInv

\* A wait begins on an open and empty channel; an end is told of a closed one.
LEMMA EofOrWaitKeeps ==
  ASSUME LoopbackInv, NEW t \in Threads, Eof(t) \/ Wait(t)
  PROVE  LoopbackInv'
<1> DEFINE c == RecvCh(t)
<1>1. c \in Chans
  BY EndsOfThreads
<1>2. /\ queue[c] = << >> /\ UNCHANGED <<queue, closed, accepted, delivered>>
      /\ \/ closed[c] /\ ended' = [ended EXCEPT ![c] = TRUE] /\ pc' = [pc EXCEPT ![t] = "idle"]
         \/ ~closed[c] /\ UNCHANGED ended /\ pc' = [pc EXCEPT ![t] = "waiting"]
  BY DEF Eof, Wait
<1>3. RecvCh(t) = c
  OBVIOUS
<1> HIDE DEF c
<1>4. TypeOK /\ TypeOK'
  BY <1>1, <1>2 DEF LoopbackInv, TypeOK
<1>5. NoLostWakeup'
  <2>1. \A d \in Chans \ {c} : \A where : In(d, where)' = In(d, where)
    BY <1>2, <1>3, <1>4 DEF TypeOK, In
  <2>2. Len(queue[c]) = 0
    BY <1>2
  <2>3. In(c, "waiting")' = {} \/ ~closed[c]
    BY <1>1, <1>2, <1>4 DEF LoopbackInv, NoLostWakeup, TypeOK, In
  <2>4. Cardinality(In(c, "woken")') \in Nat
    <3>1. In(c, "woken")' \subseteq Host \cup Guest
      BY DEF In, Threads
    <3> QED
      BY <3>1, LoopbackAssumption, FS_Subset, FS_CardinalityType
  <2> QED
    BY <1>2, <2>1, <2>2, <2>3, <2>4 DEF LoopbackInv, NoLostWakeup
<1>6. AcceptedIsPassedOn'
  BY <1>1, <1>2, <1>4 DEF LoopbackInv, AcceptedIsPassedOn, TypeOK
<1> QED
  BY <1>4, <1>5, <1>6 DEF LoopbackInv

\* A spurious wake-up only adds to those who have been woken.
LEMMA SpuriousKeeps ==
  ASSUME LoopbackInv, NEW t \in Threads, Spurious(t)
  PROVE  LoopbackInv'
<1> DEFINE c == RecvCh(t)
<1>1. c \in Chans /\ RecvCh(t) = c
  BY EndsOfThreads
<1> HIDE DEF c
<1>2. TypeOK /\ TypeOK'
  BY DEF LoopbackInv, TypeOK, Spurious
<1>3. NoLostWakeup'
  <2>1. \A d \in Chans \ {c} : \A where : In(d, where)' = In(d, where)
    BY <1>1, <1>2 DEF TypeOK, In, Spurious
  <2>2. /\ In(c, "woken")' = In(c, "woken") \cup {t}
        /\ In(c, "waiting")' \subseteq In(c, "waiting")
    BY <1>1, <1>2 DEF TypeOK, In, Spurious
  <2>3. Cardinality(In(c, "woken")') >= Cardinality(In(c, "woken"))
    BY <2>2, InIsFinite, FS_AddElement
  <2>4. Cardinality(In(c, "woken")') \in Nat
    BY <2>2, InIsFinite, FS_AddElement, FS_CardinalityType
  <2>5. Len(queue[c]) \in Nat
    BY <1>1, <1>2 DEF TypeOK
  <2> QED
    BY <1>1, <2>1, <2>2, <2>3, <2>4, <2>5, InIsFinite DEF LoopbackInv, NoLostWakeup, Spurious
<1>4. AcceptedIsPassedOn'
  BY DEF LoopbackInv, AcceptedIsPassedOn, Spurious
<1> QED
  BY <1>2, <1>3, <1>4 DEF LoopbackInv

\* A close leaves nobody waiting on the channel it closes.
LEMMA CloseKeeps ==
  ASSUME LoopbackInv, NEW t \in Threads, CloseSend(t) \/ CloseRecv(t)
  PROVE  LoopbackInv'
<1>1. PICK c \in Chans, to \in {"idle", "closing"} :
        /\ pc[t] \in {"idle", "closing"}
        /\ closed' = [closed EXCEPT ![c] = TRUE]
        /\ pc' = Broadcast(c, [pc EXCEPT ![t] = to])
        /\ UNCHANGED <<queue, accepted, delivered, ended>>
  BY EndsOfThreads DEF CloseSend, CloseRecv
<1>2. TypeOK
  BY DEF LoopbackInv
<1>3. \A u \in Threads : pc'[u] = IF u \in In(c, "waiting") THEN "woken"
                                  ELSE IF u = t THEN to ELSE pc[u]
  BY <1>1, <1>2 DEF TypeOK, Broadcast
<1>4. TypeOK'
  <2>1. pc' \in [Threads -> {"idle", "waiting", "woken", "closing"}]
    BY <1>1, <1>2 DEF TypeOK, Broadcast
  <2> QED
    BY <1>1, <1>2, <2>1 DEF TypeOK
<1>5. NoLostWakeup'
  <2>1. In(c, "waiting")' = {}
    BY <1>1, <1>3 DEF In
  <2>2. \A d \in Chans \ {c} : /\ In(d, "waiting")' = In(d, "waiting")
                               /\ In(d, "woken")' = In(d, "woken")
    BY <1>1, <1>3 DEF In
  <2> QED
    BY <1>1, <1>2, <2>1, <2>2 DEF LoopbackInv, NoLostWakeup, TypeOK
<1>6. AcceptedIsPassedOn'
  BY <1>1, <1>2 DEF LoopbackInv, AcceptedIsPassedOn, TypeOK
<1> QED
  BY <1>4, <1>5, <1>6 DEF LoopbackInv

\* Every step of the pair keeps the invariant.
LEMMA LoopbackStep ==
  ASSUME LoopbackInv, [Next]_vars
  PROVE  LoopbackInv'
<1>1. CASE UNCHANGED vars
  BY <1>1 DEF vars, LoopbackInv, TypeOK, NoLostWakeup, AcceptedIsPassedOn, In
<1>2. ASSUME NEW t \in Threads, Pop(t) \/ Retest(t)
      PROVE  LoopbackInv'
  BY <1>2, TakeKeeps, EofOrWaitKeeps DEF Pop, Retest, Test
<1> QED
  BY <1>1, <1>2, PushKeeps, SpuriousKeeps, CloseKeeps DEF Next

\* What a step may do to a channel, in the words of FrameChannel.
SendsOn(c) == /\ ~closed[c]
              /\ \E f \in Frames : accepted'[c] = Append(accepted[c], f)
              /\ delivered'[c] = delivered[c] /\ closed'[c] = closed[c] /\ ended'[c] = ended[c]
DeliversOn(c) == /\ Len(delivered[c]) < Len(accepted[c])
                 /\ delivered'[c] = Append(delivered[c], accepted[c][Len(delivered[c]) + 1])
                 /\ accepted'[c] = accepted[c] /\ closed'[c] = closed[c] /\ ended'[c] = ended[c]
ClosesOn(c) == /\ closed'[c] = TRUE
               /\ accepted'[c] = accepted[c] /\ delivered'[c] = delivered[c] /\ ended'[c] = ended[c]
EndsOn(c) == /\ closed[c] /\ delivered[c] = accepted[c] /\ ended'[c] = TRUE
             /\ accepted'[c] = accepted[c] /\ delivered'[c] = delivered[c] /\ closed'[c] = closed[c]
IdleOn(c) == /\ accepted'[c] = accepted[c] /\ delivered'[c] = delivered[c]
             /\ closed'[c] = closed[c] /\ ended'[c] = ended[c]
ChannelStep(c) == SendsOn(c) \/ DeliversOn(c) \/ ClosesOn(c) \/ EndsOn(c) \/ IdleOn(c)

\* The frame a receive hands out is the oldest one accepted and not handed out.
LEMMA TakesTheNextFrame ==
  ASSUME LoopbackInv, NEW c \in Chans, queue[c] # << >>
  PROVE  /\ Len(delivered[c]) < Len(accepted[c])
         /\ Head(queue[c]) = accepted[c][Len(delivered[c]) + 1]
<1>1. /\ accepted[c] = delivered[c] \o queue[c]
      /\ delivered[c] \in Seq(Frames) /\ queue[c] \in Seq(Frames)
  BY DEF LoopbackInv, AcceptedIsPassedOn, TypeOK
<1> DEFINE d == delivered[c]
           q == queue[c]
<1>2. /\ Len(d \o q) = Len(d) + Len(q)
      /\ \A i \in 1 .. Len(d) + Len(q) : (d \o q)[i] = IF i <= Len(d) THEN d[i] ELSE q[i - Len(d)]
  BY <1>1, ConcatProperties
<1>3. Len(d) \in Nat /\ Len(q) \in Nat \ {0} /\ Head(q) = q[1]
  BY <1>1, EmptySeq, LenProperties
<1>4. accepted[c] = d \o q
  BY <1>1
<1> HIDE DEF d, q
<1>5. /\ Len(d) < Len(accepted[c])
      /\ accepted[c][Len(d) + 1] = q[Len(d) + 1 - Len(d)]
  BY <1>2, <1>3, <1>4
<1>6. Len(d) + 1 - Len(d) = 1
  BY <1>3
<1> QED
  BY <1>3, <1>5, <1>6 DEF d, q

\* What a step of the pair does to each of its two channels.
LEMMA ChannelSteps ==
  ASSUME LoopbackInv, [Next]_vars, NEW c \in Chans
  PROVE  ChannelStep(c)
<1>1. TypeOK
  BY DEF LoopbackInv
<1>2. CASE UNCHANGED vars
  BY <1>2 DEF vars, ChannelStep, IdleOn
<1>3. ASSUME NEW t \in Threads, NEW f \in Frames, Push(t, f)
      PROVE  ChannelStep(c)
  <2>1. CASE c = SendCh(t)
    <3>1. SendsOn(c)
      BY <1>1, <1>3, <2>1 DEF Push, SendsOn, TypeOK
    <3> QED
      BY <3>1 DEF ChannelStep
  <2>2. CASE c # SendCh(t)
    <3>1. IdleOn(c)
      BY <1>1, <1>3, <2>2 DEF Push, IdleOn, TypeOK
    <3> QED
      BY <3>1 DEF ChannelStep
  <2> QED
    BY <2>1, <2>2
<1>4. ASSUME NEW t \in Threads, Take(t)
      PROVE  ChannelStep(c)
  <2>1. CASE c = RecvCh(t)
    <3>1. /\ queue[c] # << >>
          /\ delivered'[c] = Append(delivered[c], Head(queue[c]))
          /\ accepted'[c] = accepted[c] /\ closed'[c] = closed[c] /\ ended'[c] = ended[c]
      BY <1>1, <1>4, <2>1 DEF Take, TypeOK
    <3>2. DeliversOn(c)
      BY <3>1, TakesTheNextFrame DEF DeliversOn
    <3> QED
      BY <3>2 DEF ChannelStep
  <2>2. CASE c # RecvCh(t)
    <3>1. IdleOn(c)
      BY <1>1, <1>4, <2>2 DEF Take, IdleOn, TypeOK
    <3> QED
      BY <3>1 DEF ChannelStep
  <2> QED
    BY <2>1, <2>2
<1>5. ASSUME NEW t \in Threads, Eof(t)
      PROVE  ChannelStep(c)
  <2>1. CASE c = RecvCh(t)
    <3>1. delivered[c] = accepted[c]
      <4>1. accepted[c] = delivered[c] \o queue[c] /\ queue[c] = << >> /\ delivered[c] \in Seq(Frames)
        BY <1>1, <1>5, <2>1 DEF Eof, LoopbackInv, AcceptedIsPassedOn, TypeOK
      <4>2. delivered[c] \o << >> = delivered[c]
        BY <4>1, ConcatEmptySeq
      <4> QED
        BY <4>1, <4>2, Zenon
    <3>2. EndsOn(c)
      BY <1>1, <1>5, <2>1, <3>1 DEF Eof, EndsOn, TypeOK
    <3> QED
      BY <3>2 DEF ChannelStep
  <2>2. CASE c # RecvCh(t)
    <3>1. IdleOn(c)
      BY <1>1, <1>5, <2>2 DEF Eof, IdleOn, TypeOK
    <3> QED
      BY <3>1 DEF ChannelStep
  <2> QED
    BY <2>1, <2>2
<1>6. ASSUME NEW t \in Threads, Wait(t) \/ Spurious(t)
      PROVE  ChannelStep(c)
  BY <1>6 DEF Wait, Spurious, ChannelStep, IdleOn
<1>7. ASSUME NEW t \in Threads, CloseSend(t) \/ CloseRecv(t)
      PROVE  ChannelStep(c)
  <2>1. PICK d \in Chans : /\ closed' = [closed EXCEPT ![d] = TRUE]
                           /\ UNCHANGED <<accepted, delivered, ended>>
    BY <1>7, EndsOfThreads DEF CloseSend, CloseRecv
  <2>2. ClosesOn(c) \/ IdleOn(c)
    BY <1>1, <2>1 DEF ClosesOn, IdleOn, TypeOK
  <2> QED
    BY <2>2 DEF ChannelStep
<1> QED
  BY <1>2, <1>3, <1>4, <1>5, <1>6, <1>7 DEF Next, Pop, Retest, Test

\* Each direction of the pair takes only steps the transport contract allows.
LEMMA PairRefines ==
  ASSUME LoopbackInv, [Next]_vars
  PROVE  [G2H!Next]_(G2H!vars) /\ [H2G!Next]_(H2G!vars)
<1>1. ChannelStep("g2h") /\ ChannelStep("h2g")
  BY ChannelSteps DEF Chans
<1>2. [G2H!Next]_(G2H!vars)
  <2>1. CASE SendsOn("g2h")
    BY <2>1 DEF SendsOn, G2H!Next, G2H!Accept
  <2>2. CASE DeliversOn("g2h")
    BY <2>2 DEF DeliversOn, G2H!Next, G2H!Deliver
  <2>3. CASE ClosesOn("g2h")
    BY <2>3 DEF ClosesOn, G2H!Next, G2H!Close
  <2>4. CASE EndsOn("g2h")
    BY <2>4 DEF EndsOn, G2H!Next, G2H!End
  <2>5. CASE IdleOn("g2h")
    BY <2>5 DEF IdleOn, G2H!vars
  <2> QED
    BY <1>1, <2>1, <2>2, <2>3, <2>4, <2>5 DEF ChannelStep
<1>3. [H2G!Next]_(H2G!vars)
  <2>1. CASE SendsOn("h2g")
    BY <2>1 DEF SendsOn, H2G!Next, H2G!Accept
  <2>2. CASE DeliversOn("h2g")
    BY <2>2 DEF DeliversOn, H2G!Next, H2G!Deliver
  <2>3. CASE ClosesOn("h2g")
    BY <2>3 DEF ClosesOn, H2G!Next, H2G!Close
  <2>4. CASE EndsOn("h2g")
    BY <2>4 DEF EndsOn, H2G!Next, H2G!End
  <2>5. CASE IdleOn("h2g")
    BY <2>5 DEF IdleOn, H2G!vars
  <2> QED
    BY <1>1, <2>1, <2>2, <2>3, <2>4, <2>5 DEF ChannelStep
<1> QED
  BY <1>2, <1>3

\* Each direction starts as an empty frame channel.
LEMMA PairInit ==
  ASSUME Init
  PROVE  G2H!Init /\ H2G!Init
BY DEF Init, Chans, G2H!Init, H2G!Init

\* Whatever the table holds, the pair keeps its invariant.
THEOREM PairInvariance == TransportSpec => []LoopbackInv
<1>1. TransportInit => LoopbackInv
  BY LoopbackInit DEF TransportInit
<1>2. LoopbackInv /\ [TransportNext]_transportVars => LoopbackInv'
  <2>1. [TransportNext]_transportVars => [Next]_vars
    BY DEF TransportNext, transportVars
  <2> QED
    BY <2>1, LoopbackStep
<1> QED
  BY <1>1, <1>2, PTL DEF TransportSpec

\* A frame or a close always has a thread awake to notice it: no waiter of the
\* in-memory pair is forgotten by chan_push or chan_close, with any number of
\* threads on each end.
THEOREM NoWaiterForgotten == TransportSpec => []WaitersConsistent
<1>1. LoopbackInv => WaitersConsistent
  BY DEF LoopbackInv, WaitersConsistent
<1> QED
  BY <1>1, PairInvariance, PTL

\* Both directions of the pair implement the transport contract, a close losing
\* nothing that was accepted.
THEOREM PairIsAChannel == TransportSpec => ImplementsFrameChannel
<1>1. TransportInit => G2H!Init /\ H2G!Init
  BY PairInit DEF TransportInit
<1>2. LoopbackInv /\ [TransportNext]_transportVars
        => [G2H!Next]_(G2H!vars) /\ [H2G!Next]_(H2G!vars)
  <2>1. [TransportNext]_transportVars => [Next]_vars
    BY DEF TransportNext, transportVars
  <2> QED
    BY <2>1, PairRefines
<1> QED
  BY <1>1, <1>2, PairInvariance, PTL DEF TransportSpec, ImplementsFrameChannel, G2H!Spec, H2G!Spec
-----------------------------------------------------------------------------
(* The stream, for frames within the limit of the receiver *)

\* The bytes the reader has before it: those it has buffered and those it has
\* yet to read.  Reading more moves bytes from one to the other.
Rest == buf \o stream
\* The frame the reader is in, and the first byte it expects of Rest.
Current == Len(returned) + 1
Cursor == IF reader = "header" THEN Byte(Current, 1)
          ELSE IF need = 0 THEN Byte(Current + 1, 1) ELSE Byte(Current, HeaderBytes + 1)

\* A byte of a frame begun, sizes being the bodies' sizes; the last byte of a
\* frame is there only once the whole frame was taken, tk counting those.
LastOf(n, sizes) == HeaderBytes + sizes[n]
SentByte(b, sizes, tk) ==
  /\ b \in [frame : Nat, at : Nat]
  /\ b.frame \in 1 .. Len(sizes) /\ b.at \in 1 .. LastOf(b.frame, sizes)
  /\ b.at = LastOf(b.frame, sizes) => b.frame <= tk
\* A run of bytes in the order they were written, no byte left out.
InOrder(s, sizes, tk) ==
  /\ \A i \in 1 .. Len(s) : SentByte(s[i], sizes, tk)
  /\ \A i, j \in 1 .. Len(s) :
       i <= j /\ s[i].at + (j - i) <= LastOf(s[i].frame, sizes)
         => s[j].frame = s[i].frame /\ s[j].at = s[i].at + (j - i)
  /\ \A i \in 1 .. Len(s) - 1 :
       s[i].at = LastOf(s[i].frame, sizes)
         => s[i + 1].frame = s[i].frame + 1 /\ s[i + 1].at = 1
\* The run s, if there is anything in it, begins with byte c.
StartsWith(s, c) == s # << >> => s[1] = c
\* The sizes so far, with those of frames begun since.
Continues(more, sizes) == /\ Len(sizes) <= Len(more)
                          /\ \A n \in 1 .. Len(sizes) : more[n] = sizes[n]
\* Byte (n, a) is the one that comes after the run s, which began at c.
ComesNext(s, c, sizes, n, a) ==
  LET l == s[Len(s)] IN
  IF s = << >> THEN c = Byte(n, a)
  ELSE IF l.at = LastOf(l.frame, sizes) THEN n = l.frame + 1 /\ a = 1
  ELSE n = l.frame /\ a = l.at + 1

StreamTypeOK ==
  /\ bodies \in Seq(0 .. MaxBody) /\ Len(bodies) <= MaxSent
  /\ sender \in {"ready", "body", "failed"} /\ open \in BOOLEAN
  /\ stream \in Seq([frame : Nat, at : Nat]) /\ buf \in Seq([frame : Nat, at : Nat])
  /\ reader \in {"header", "body", "stopped"} /\ need \in Nat
  /\ taken \in Seq(Bodies) /\ returned \in Seq(Bodies)
TakenWereSent ==
  /\ Len(bodies) = IF sender = "ready" THEN Len(taken) ELSE Len(taken) + 1
  /\ sender = "body" => bodies[Len(bodies)] > 0
  /\ \A n \in 1 .. Len(taken) : taken[n] = Body(n)
ReturnedWereTaken ==
  /\ Len(returned) <= Len(taken)
  /\ \A n \in 1 .. Len(returned) : returned[n] = taken[n]
ReaderInStep ==
  /\ reader = "header" => Len(buf) <= HeaderBytes
  /\ reader = "body" => /\ Current <= Len(bodies) /\ need = bodies[Current]
                        /\ Len(buf) <= need
                        /\ need = 0 => Current <= Len(taken)
  /\ reader = "stopped" => ~open
RestInOrder == reader # "stopped" =>
  /\ InOrder(Rest, bodies, Len(taken))
  /\ Rest # << >> => Rest[1] = Cursor
WriterInStep == open /\ reader # "stopped" =>
  /\ sender = "ready" => ComesNext(Rest, Cursor, bodies, Len(bodies) + 1, 1)
  /\ sender = "body" => ComesNext(Rest, Cursor, bodies, Len(bodies), HeaderBytes + 1)
FramingInv == /\ StreamTypeOK /\ TakenWereSent /\ ReturnedWereTaken
              /\ ReaderInStep /\ RestInOrder /\ WriterInStep

ByteRecords == [frame : Nat, at : Nat]

\* The bytes of one run of a frame.
LEMMA BytesFacts ==
  ASSUME NEW n \in Nat, NEW a \in Nat, NEW to \in Nat, a <= to + 1
  PROVE  /\ Bytes(n, a, to) \in Seq(ByteRecords)
         /\ Len(Bytes(n, a, to)) = to - a + 1
         /\ \A i \in 1 .. to - a + 1 :
              Bytes(n, a, to)[i].frame = n /\ Bytes(n, a, to)[i].at = a + i - 1
<1> DEFINE e(i) == [frame |-> n, at |-> a + i - 1]
           u == Bytes(n, a, to)
           m == to - a + 1
<1>0. m \in Nat
  OBVIOUS
<1>1. u = [i \in 1 .. m |-> e(i)]
  BY DEF Bytes, Byte
<1>2. \A i \in 1 .. m : e(i) \in ByteRecords
  BY DEF ByteRecords
<1>3. [i \in 1 .. m |-> e(i)] \in Seq(ByteRecords)
  <2> HIDE DEF e
  <2> QED
    BY <1>2, IsASeq
<1>4. u \in Seq(ByteRecords)
  BY <1>1, <1>3, Zenon
<1> HIDE DEF u, m
<1> DEFINE k == Len(u)
<1>5. k \in Nat /\ 1 .. k = 1 .. m
  <2>1. DOMAIN u = 1 .. m
    BY <1>1
  <2> QED
    BY <1>4, <2>1, LenProperties
<1> HIDE DEF k
<1>6. k = m
  <2>1. CASE m < k
    <3>1. k \in 1 .. k /\ ~(k \in 1 .. m)
      BY <1>0, <1>5, <2>1
    <3> QED
      BY <1>5, <3>1
  <2>2. CASE m > k
    <3>1. m \in 1 .. m /\ ~(m \in 1 .. k)
      BY <1>0, <1>5, <2>2
    <3> QED
      BY <1>5, <3>1
  <2> QED
    BY <1>0, <1>5, <2>1, <2>2
<1>7. \A i \in 1 .. m : u[i].frame = n /\ u[i].at = a + i - 1
  BY <1>1
<1> QED
  BY <1>4, <1>6, <1>7, Zenon DEF u, k, m

\* How many bytes a run has.
LEMMA BytesLen ==
  ASSUME NEW n \in Nat, NEW a \in Nat, NEW to \in Nat, a <= to + 1
  PROVE  Bytes(n, a, to) \in Seq(ByteRecords) /\ Len(Bytes(n, a, to)) = to - a + 1
BY BytesFacts

\* Which byte of the frame stands at a place of a run.
LEMMA ByteAt ==
  ASSUME NEW n, NEW a \in Nat, NEW to \in Nat, NEW i \in 1 .. to - a + 1
  PROVE  Bytes(n, a, to)[i].frame = n /\ Bytes(n, a, to)[i].at = a + i - 1
<1>1. Bytes(n, a, to)[i] = Byte(n, a + i - 1)
  BY DEF Bytes
<1>2. Byte(n, a + i - 1).frame = n /\ Byte(n, a + i - 1).at = a + i - 1
  BY DEF Byte
<1> QED
  BY <1>1, <1>2, Zenon

\* A frame's last byte has a place.
LEMMA LastIsNat ==
  ASSUME NEW sizes \in Seq(Nat), NEW n \in 1 .. Len(sizes)
  PROVE  LastOf(n, sizes) \in Nat
BY ElementOfSeq, FramingAssumption DEF LastOf

\* A byte is its frame and its place in it.
LEMMA SameByte ==
  ASSUME NEW b \in ByteRecords
  PROVE  b = Byte(b.frame, b.at)
BY DEF ByteRecords, Byte

\* A segment of a run in order is in order.
LEMMA SegmentInOrder ==
  ASSUME NEW s \in Seq(ByteRecords), NEW t \in Seq(ByteRecords), NEW o \in Nat,
         o + Len(t) <= Len(s), \A i \in 1 .. Len(t) : t[i] = s[o + i],
         NEW sizes, NEW tk, InOrder(s, sizes, tk)
  PROVE  InOrder(t, sizes, tk)
<1>1. Len(s) \in Nat /\ Len(t) \in Nat
  BY LenProperties
<1>2. \A i \in 1 .. Len(t) : SentByte(t[i], sizes, tk)
  BY <1>1 DEF InOrder
<1>3. ASSUME NEW i \in 1 .. Len(t), NEW j \in 1 .. Len(t),
             i <= j, t[i].at + (j - i) <= LastOf(t[i].frame, sizes)
      PROVE  t[j].frame = t[i].frame /\ t[j].at = t[i].at + (j - i)
  <2>1. /\ o + i \in 1 .. Len(s) /\ o + j \in 1 .. Len(s)
        /\ o + i <= o + j /\ (o + j) - (o + i) = j - i
    BY <1>1, <1>3
  <2>2. t[i] = s[o + i] /\ t[j] = s[o + j]
    OBVIOUS
  <2> QED
    BY <1>3, <2>1, <2>2 DEF InOrder
<1>4. ASSUME NEW i \in 1 .. Len(t) - 1, t[i].at = LastOf(t[i].frame, sizes)
      PROVE  t[i + 1].frame = t[i].frame + 1 /\ t[i + 1].at = 1
  <2>1. o + i \in 1 .. Len(s) - 1 /\ (o + i) + 1 = o + (i + 1)
    BY <1>1
  <2>2. t[i] = s[o + i] /\ t[i + 1] = s[o + (i + 1)]
    BY <1>1
  <2> QED
    BY <1>4, <2>1, <2>2 DEF InOrder
<1> QED
  BY <1>2, <1>3, <1>4 DEF InOrder

\* Frames begun later, and frames taken since, change nothing.
LEMMA StaysInOrder ==
  ASSUME NEW s, NEW sizes \in Seq(Nat), NEW more \in Seq(Nat), NEW tk \in Nat, NEW tk2 \in Nat,
         InOrder(s, sizes, tk), tk <= tk2, Continues(more, sizes)
  PROVE  InOrder(s, more, tk2)
<1>0. Len(sizes) <= Len(more) /\ \A n \in 1 .. Len(sizes) : more[n] = sizes[n]
  BY DEF Continues
<1>1. Len(sizes) \in Nat /\ Len(more) \in Nat
  BY LenProperties
<1>2. ASSUME NEW i \in 1 .. Len(s)
      PROVE  SentByte(s[i], more, tk2) /\ LastOf(s[i].frame, more) = LastOf(s[i].frame, sizes)
  <2>1. SentByte(s[i], sizes, tk)
    BY DEF InOrder
  <2> QED
    BY <1>0, <1>1, <2>1 DEF SentByte, LastOf
<1> QED
  <2>1. ASSUME NEW i \in 1 .. Len(s), NEW j \in 1 .. Len(s),
               i <= j, s[i].at + (j - i) <= LastOf(s[i].frame, more)
        PROVE  s[j].frame = s[i].frame /\ s[j].at = s[i].at + (j - i)
    BY <1>2, <2>1 DEF InOrder
  <2>2. ASSUME NEW i \in 1 .. Len(s) - 1, s[i].at = LastOf(s[i].frame, more)
        PROVE  s[i + 1].frame = s[i].frame + 1 /\ s[i + 1].at = 1
    <3>1. s[i].at = LastOf(s[i].frame, sizes)
      BY <1>2, <2>2
    <3> QED
      BY <3>1 DEF InOrder
  <2> QED
    BY <1>2, <2>1, <2>2 DEF InOrder

\* What comes next still does when more frames are begun.
LEMMA StaysNext ==
  ASSUME NEW s \in Seq(ByteRecords), NEW c, NEW sizes \in Seq(Nat), NEW more \in Seq(Nat),
         NEW tk, NEW n, NEW a,
         InOrder(s, sizes, tk), Continues(more, sizes), ComesNext(s, c, sizes, n, a)
  PROVE  ComesNext(s, c, more, n, a)
<1>1. CASE s = << >>
  BY <1>1 DEF ComesNext
<1>2. CASE s # << >>
  <2>1. Len(s) \in 1 .. Len(s)
    BY <1>2, EmptySeq
  <2>2. SentByte(s[Len(s)], sizes, tk)
    BY <2>1 DEF InOrder
  <2>3. LastOf(s[Len(s)].frame, more) = LastOf(s[Len(s)].frame, sizes)
    BY <2>2 DEF SentByte, LastOf, Continues
  <2> QED
    BY <1>2, <2>3 DEF ComesNext
<1> QED
  BY <1>1, <1>2

\* Writing the bytes that come next keeps the order.
LEMMA RunInOrder ==
  ASSUME NEW s \in Seq(ByteRecords), NEW c, NEW sizes \in Seq(Nat), NEW tk \in Nat,
         NEW n \in 1 .. Len(sizes), NEW a \in Nat \ {0}, NEW to \in Nat, a <= to + 1,
         InOrder(s, sizes, tk), ComesNext(s, c, sizes, n, a),
         to <= LastOf(n, sizes), to = LastOf(n, sizes) /\ a <= to => n <= tk
  PROVE  InOrder(s \o Bytes(n, a, to), sizes, tk)
<1> DEFINE m == to - a + 1
<1>0. /\ m \in Nat /\ a + m - 1 = to /\ n \in Nat /\ (m > 0 => a <= to)
      /\ Bytes(n, a, to) \in Seq(ByteRecords) /\ Len(Bytes(n, a, to)) = m
      /\ \A i \in 1 .. m : Bytes(n, a, to)[i].frame = n
      /\ \A i \in 1 .. m : Bytes(n, a, to)[i].at = a + i - 1
  <2>1. n \in Nat /\ a \in Nat /\ m \in Nat /\ a + m - 1 = to /\ (m > 0 => a <= to)
    BY LenProperties
  <2>2. Bytes(n, a, to) \in Seq(ByteRecords) /\ Len(Bytes(n, a, to)) = m
    BY <2>1, BytesLen
  <2>3. ASSUME NEW i \in 1 .. m
        PROVE  Bytes(n, a, to)[i].frame = n /\ Bytes(n, a, to)[i].at = a + i - 1
    BY <2>1, ByteAt
  <2> HIDE DEF m
  <2> QED
    BY <2>1, <2>2, <2>3
<1> HIDE DEF m
<1> DEFINE u == Bytes(n, a, to)
           t == s \o u
           L == Len(s)
           K == Len(sizes)
           End(i) == LastOf(i, sizes)
<1>1. /\ L \in Nat /\ K \in Nat /\ n \in 1 .. K /\ \A i \in 1 .. K : End(i) \in Nat
      /\ m \in Nat
  BY <1>0, LenProperties, LastIsNat
<1>2. /\ u \in Seq(ByteRecords) /\ Len(u) = m
      /\ \A i \in 1 .. m : u[i].frame = n /\ u[i].at = a + i - 1
  BY <1>0, Zenon
<1> HIDE DEF u
<1>3. /\ t \in Seq(ByteRecords) /\ Len(t) = L + m
      /\ \A i \in 1 .. L + m : t[i] = IF i <= L THEN s[i] ELSE u[i - L]
  BY <1>2, ConcatProperties
<1>4. \A i \in 1 .. L + m : t[i] \in [frame : Nat, at : Nat]
  BY <1>3, ElementOfSeq DEF ByteRecords
\* What is known of s and its end, and of the bytes that follow.
<1>5. /\ \A i \in 1 .. L : SentByte(s[i], sizes, tk)
      /\ \A i, j \in 1 .. L :
           i <= j /\ s[i].at + (j - i) <= End(s[i].frame)
             => s[j].frame = s[i].frame /\ s[j].at = s[i].at + (j - i)
      /\ \A i \in 1 .. L - 1 :
           s[i].at = End(s[i].frame) => s[i + 1].frame = s[i].frame + 1 /\ s[i + 1].at = 1
  BY DEF InOrder
<1>6. L # 0 => IF s[L].at = End(s[L].frame) THEN n = s[L].frame + 1 /\ a = 1
                                            ELSE n = s[L].frame /\ a = s[L].at + 1
  <2>1. L # 0 => s # << >>
    BY EmptySeq
  <2> QED
    BY <2>1 DEF ComesNext
<1>7. m \in Nat /\ a + m - 1 <= End(n) /\ (a + m - 1 = End(n) /\ m > 0 => n <= tk)
  BY <1>0
<1> HIDE DEF t, L, K, End
<1>8. \A i \in 1 .. L : t[i] = s[i]
  BY <1>1, <1>3
<1>9. \A i \in L + 1 .. L + m : t[i].frame = n /\ t[i].at = a + (i - L) - 1
  <2>1. ASSUME NEW i \in L + 1 .. L + m
        PROVE  t[i].frame = n /\ t[i].at = a + (i - L) - 1
    <3>1. i - L \in 1 .. m /\ i \in 1 .. L + m /\ ~(i <= L)
      BY <1>1
    <3> QED
      BY <1>2, <1>3, <3>1
  <2> QED
    BY <2>1
<1>10. \A i \in 1 .. L : /\ t[i].frame \in 1 .. K /\ t[i].at \in Nat \ {0}
                         /\ t[i].at <= End(t[i].frame) /\ End(t[i].frame) \in Nat
  <2>1. ASSUME NEW i \in 1 .. L
        PROVE  SentByte(t[i], sizes, tk)
    BY <1>5, <1>8
  <2>2. ASSUME NEW i \in 1 .. L
        PROVE  t[i].frame \in 1 .. K /\ t[i].at \in 1 .. End(t[i].frame)
    BY <2>1 DEF SentByte, K, End
  <2>3. ASSUME NEW i \in 1 .. L
        PROVE  /\ t[i].frame \in 1 .. K /\ t[i].at \in Nat \ {0}
               /\ t[i].at <= End(t[i].frame) /\ End(t[i].frame) \in Nat
    <3> DEFINE x == t[i].frame
    <3>1. x \in 1 .. K /\ t[i].at \in 1 .. End(x)
      BY <2>2
    <3> HIDE DEF x
    <3>2. End(x) \in Nat
      BY <1>1, <3>1
    <3>3. t[i].at \in Nat \ {0} /\ t[i].at <= End(x)
      BY <3>1, <3>2
    <3> QED
      BY <3>1, <3>2, <3>3 DEF x
  <2> QED
    BY <2>3
<1>11. ASSUME NEW i \in 1 .. L + m
       PROVE  SentByte(t[i], sizes, tk)
  <2>1. CASE i \in 1 .. L
    BY <1>5, <1>8, <2>1
  <2>2. CASE i \in L + 1 .. L + m
    <3>1. t[i].frame = n /\ t[i].at = a + (i - L) - 1
      BY <1>9, <2>2
    <3>2. t[i].at \in 1 .. End(n) /\ (t[i].at = End(n) => n <= tk)
      BY <1>1, <1>7, <2>2, <3>1
    <3> QED
      BY <1>4, <3>1, <3>2 DEF SentByte, End
  <2> QED
    BY <1>1, <2>1, <2>2
<1>12. ASSUME NEW i \in 1 .. L + m, NEW j \in 1 .. L + m,
              i <= j, t[i].at + (j - i) <= End(t[i].frame)
       PROVE  t[j].frame = t[i].frame /\ t[j].at = t[i].at + (j - i)
  <2>1. CASE j \in 1 .. L
    <3>1. i \in 1 .. L
      BY <1>1, <1>12, <2>1
    <3> QED
      BY <1>5, <1>8, <1>12, <2>1, <3>1
  <2>2. CASE i \in L + 1 .. L + m
    <3>1. j \in L + 1 .. L + m
      BY <1>1, <1>12, <2>2
    <3>2. /\ t[i].frame = n /\ t[i].at = a + (i - L) - 1
          /\ t[j].frame = n /\ t[j].at = a + (j - L) - 1
      BY <1>9, <2>2, <3>1
    <3> QED
      BY <1>1, <2>2, <3>1, <3>2
  <2>3. CASE i \in 1 .. L /\ j \in L + 1 .. L + m
    <3> DEFINE x == t[i].at
               e == End(t[i].frame)
    <3>1. x \in Nat /\ e \in Nat /\ L \in 1 .. L /\ i <= L /\ x + (j - i) <= e
      <4>1. x \in Nat /\ e \in Nat
        BY <1>10, <2>3
      <4>2. L \in 1 .. L /\ i <= L
        BY <1>1, <2>3
      <4> QED
        BY <1>12, <4>1, <4>2
    <3> HIDE DEF x, e
    <3>2. x + (L - i) < e /\ x + (L - i) <= e
      BY <1>1, <2>3, <3>1
    <3>3. t[L].frame = t[i].frame /\ t[L].at = x + (L - i)
      BY <1>5, <1>8, <2>3, <3>1, <3>2 DEF x, e
    <3>4. n = t[i].frame /\ a = x + (L - i) + 1
      <4>1. L # 0 /\ t[L] = s[L] /\ End(t[L].frame) = e
        BY <1>8, <3>1, <3>3 DEF e
      <4>2. s[L].at = x + (L - i) /\ s[L].frame = t[i].frame /\ End(s[L].frame) = e
        BY <3>3, <4>1
      <4>3. s[L].at # e
        BY <1>1, <2>3, <3>1, <3>2, <4>2
      <4> QED
        BY <1>6, <4>1, <4>2, <4>3
    <3>5. t[j].frame = n /\ t[j].at = a + (j - L) - 1
      BY <1>9, <2>3
    <3>6. a + (j - L) - 1 = x + (j - i)
      <4>1. i \in Int /\ j \in Int /\ L \in Int /\ x \in Int /\ a = x + (L - i) + 1
        BY <1>1, <2>3, <3>1, <3>4
      <4> QED
        BY <4>1
    <3> QED
      BY <3>4, <3>5, <3>6 DEF x
  <2> QED
    BY <1>1, <1>12, <2>1, <2>2, <2>3
<1>13. ASSUME NEW i \in 1 .. L + m - 1, t[i].at = End(t[i].frame)
       PROVE  t[i + 1].frame = t[i].frame + 1 /\ t[i + 1].at = 1
  <2>1. CASE i \in 1 .. L - 1
    <3>1. i \in 1 .. L /\ i + 1 \in 1 .. L
      BY <1>1, <2>1
    <3>2. t[i] = s[i] /\ t[i + 1] = s[i + 1]
      BY <1>8, <3>1
    <3> QED
      BY <1>5, <1>13, <2>1, <3>2
  <2>2. CASE i = L
    <3>1. L # 0 /\ L \in 1 .. L /\ L + 1 \in L + 1 .. L + m
      BY <1>1, <2>2
    <3>2. t[i] = s[L] /\ t[L + 1].frame = n /\ t[L + 1].at = a + (L + 1 - L) - 1
      <4>1. t[L] = s[L]
        BY <1>8, <3>1
      <4>2. t[L + 1].frame = n /\ t[L + 1].at = a + (L + 1 - L) - 1
        BY <1>9, <3>1
      <4> QED
        BY <2>2, <4>1, <4>2
    <3>3. a + (L + 1 - L) - 1 = a
      BY <1>1
    <3> QED
      BY <1>6, <1>13, <2>2, <3>1, <3>2, <3>3
  <2>3. CASE i \in L + 1 .. L + m - 1
    <3>1. t[i].frame = n /\ t[i].at = a + (i - L) - 1
      BY <1>1, <1>9, <2>3
    <3>2. a + (i - L) - 1 < a + m - 1
      BY <1>1, <2>3
    <3>3. a + (i - L) - 1 # End(n)
      BY <1>1, <1>7, <2>3, <3>2
    <3> QED
      BY <1>13, <3>1, <3>3
  <2> QED
    BY <1>1, <2>1, <2>2, <2>3
<1>14. Len(t) = L + m
  BY <1>3
<1> QED
  <2>1. InOrder(t, sizes, tk)
    <3>1. \A i \in 1 .. Len(t) : SentByte(t[i], sizes, tk)
      BY <1>11, <1>14
    <3>2. \A i, j \in 1 .. Len(t) :
            i <= j /\ t[i].at + (j - i) <= LastOf(t[i].frame, sizes)
              => t[j].frame = t[i].frame /\ t[j].at = t[i].at + (j - i)
      BY <1>12, <1>14 DEF End
    <3>3. \A i \in 1 .. Len(t) - 1 :
            t[i].at = LastOf(t[i].frame, sizes) => t[i + 1].frame = t[i].frame + 1 /\ t[i + 1].at = 1
      <4>1. Len(t) - 1 = L + m - 1
        BY <1>1, <1>14
      <4> QED
        BY <1>13, <4>1, Zenon DEF End
    <3> QED
      BY <3>1, <3>2, <3>3, Zenon DEF InOrder
  <2> QED
    BY <2>1 DEF t, u

\* A run that continues what is unread leaves its start alone.
LEMMA RunStarts ==
  ASSUME NEW s \in Seq(ByteRecords), NEW c, NEW sizes,
         NEW n \in Nat, NEW a \in Nat \ {0}, NEW to \in Nat, a <= to + 1,
         ComesNext(s, c, sizes, n, a), StartsWith(s, c)
  PROVE  StartsWith(s \o Bytes(n, a, to), c)
<1> SUFFICES ASSUME s \o Bytes(n, a, to) # << >>
             PROVE  (s \o Bytes(n, a, to))[1] = c
  BY Zenon DEF StartsWith
<1> DEFINE m == to - a + 1
           u == Bytes(n, a, to)
           L == Len(s)
<1>0. a \in Nat /\ m \in Nat /\ a <= to + 1 /\ a + m - 1 = to /\ (a <= to => m \in 1 .. m)
  OBVIOUS
<1>1. u \in Seq(ByteRecords) /\ Len(u) = m
  BY <1>0, BytesLen
<1>2. ASSUME NEW i \in 1 .. m
      PROVE  u[i].frame = n /\ u[i].at = a + i - 1
  BY <1>0, ByteAt
<1> HIDE DEF m
<1> HIDE DEF u
<1>4. /\ L \in Nat
      /\ \A i \in 1 .. L + m : (s \o u)[i] = IF i <= L THEN s[i] ELSE u[i - L]
  BY <1>1, ConcatProperties, LenProperties
<1>5. CASE s # << >>
  <2>1. L # 0
    BY <1>5, EmptySeq
  <2> HIDE DEF L
  <2>2. 1 \in 1 .. L + m /\ 1 <= L
    BY <1>0, <1>4, <2>1
  <2>3. (s \o u)[1] = s[1]
    BY <1>4, <2>2
  <2> QED
    BY <1>5, <2>3, Zenon DEF u, StartsWith
<1>6. CASE s = << >>
  <2>1. s \o u = u
    BY <1>1, <1>6, ConcatEmptySeq
  <2>2. u # << >>
    BY <2>1 DEF u
  <2>3. m # 0 /\ 1 \in 1 .. m /\ a + 1 - 1 = a
    BY <1>0, <1>1, <2>2, EmptySeq
  <2>4. u[1] \in ByteRecords /\ u[1].frame = n
    BY <1>1, <1>2, <2>3, ElementOfSeq
  <2>5. u[1].at = a
    BY <1>2, <2>3
  <2>6. u[1] = Byte(n, a)
    BY <2>4, <2>5 DEF ByteRecords, Byte
  <2>7. c = Byte(n, a)
    BY <1>6 DEF ComesNext
  <2> QED
    BY <2>1, <2>6, <2>7, Zenon DEF u
<1> QED
  BY <1>5, <1>6

\* A joined sequence ends as its second part does.
LEMMA LastOfJoin ==
  ASSUME NEW s \in Seq(ByteRecords), NEW u \in Seq(ByteRecords), Len(u) # 0
  PROVE  s \o u # << >> /\ (s \o u)[Len(s \o u)] = u[Len(u)]
<1> DEFINE L == Len(s)
           m == Len(u)
           t == s \o u
<1>1. L \in Nat /\ m \in Nat /\ m # 0
  BY LenProperties
<1>2. /\ t \in Seq(ByteRecords) /\ Len(t) = L + m
      /\ \A i \in 1 .. L + m : t[i] = IF i <= L THEN s[i] ELSE u[i - L]
  BY ConcatProperties
<1> HIDE DEF L, m, t
<1>3. PICK k \in Nat : k = L + m
  BY <1>1
<1>4. k \in 1 .. L + m /\ ~(k <= L) /\ k - L = m /\ Len(t) = k /\ k # 0
  BY <1>1, <1>2, <1>3
<1>5. t[k] = u[m]
  BY <1>2, <1>4
<1>6. t # << >>
  BY <1>2, <1>4, EmptySeq
<1> QED
  BY <1>4, <1>5, <1>6 DEF L, m, t

\* After a run comes the byte that follows its last one.
LEMMA RunEnds ==
  ASSUME NEW s \in Seq(ByteRecords), NEW c, NEW sizes,
         NEW n \in Nat, NEW a \in Nat \ {0}, NEW to \in Nat, a <= to, NEW n2, NEW a2,
         IF to = LastOf(n, sizes) THEN n2 = n + 1 /\ a2 = 1
                                         ELSE n2 = n /\ a2 = to + 1
  PROVE  ComesNext(s \o Bytes(n, a, to), c, sizes, n2, a2)
<1> DEFINE m == to - a + 1
           u == Bytes(n, a, to)
           t == s \o u
<1>0. a \in Nat /\ m \in Nat /\ a <= to + 1 /\ a + m - 1 = to /\ (a <= to => m \in 1 .. m)
  OBVIOUS
<1>1. u \in Seq(ByteRecords) /\ Len(u) = m
  BY <1>0, BytesLen
<1>2. ASSUME NEW i \in 1 .. m
      PROVE  u[i].frame = n /\ u[i].at = a + i - 1
  BY <1>0, ByteAt
<1> HIDE DEF m
<1> HIDE DEF u
<1>4. m # 0
  BY <1>0
<1>5. t # << >> /\ t[Len(t)] = u[m]
  BY <1>1, <1>4, LastOfJoin
<1>6. u[m].frame = n /\ u[m].at = a + m - 1
  <2>1. m \in 1 .. m
    BY <1>0
  <2> QED
    BY <1>2, <2>1
<1> HIDE DEF t
<1>7. ComesNext(t, c, sizes, n2, a2)
  BY <1>0, <1>5, <1>6 DEF ComesNext
<1> QED
  BY <1>7 DEF t, u

\* Past the first o bytes of a run, what is left begins with the byte after the
\* last of them.
LEMMA PastTheFirst ==
  ASSUME NEW s \in Seq(ByteRecords), NEW t \in Seq(ByteRecords), NEW o \in Nat \ {0},
         Len(s) = o + Len(t), \A i \in 1 .. Len(t) : t[i] = s[o + i],
         NEW sizes \in Seq(Nat), NEW tk, InOrder(s, sizes, tk), NEW n2, NEW a2,
         IF s[o].at = LastOf(s[o].frame, sizes) THEN n2 = s[o].frame + 1 /\ a2 = 1
                                                ELSE n2 = s[o].frame /\ a2 = s[o].at + 1
  PROVE  /\ t # << >> => t[1] = Byte(n2, a2)
         /\ \A c, n, a : ComesNext(s, c, sizes, n, a) => ComesNext(t, Byte(n2, a2), sizes, n, a)
<1> DEFINE L == Len(s)
           M == Len(t)
           e == LastOf(s[o].frame, sizes)
<1>1. L \in Nat /\ M \in Nat /\ L = o + M
  BY LenProperties
<1>2. SentByte(s[o], sizes, tk)
  BY <1>1 DEF InOrder
<1>3. s[o].at \in Nat /\ s[o].at \in 1 .. e /\ e \in Nat
  BY <1>2, LastIsNat DEF SentByte
<1>4. ASSUME t # << >>
      PROVE  t[1] = Byte(n2, a2)
  <2>1. M # 0
    BY <1>4, EmptySeq
  <2>2. 1 \in 1 .. M /\ o \in 1 .. L /\ o + 1 \in 1 .. L /\ o \in 1 .. L - 1 /\ o <= o + 1 /\ o + 1 - o = 1
    BY <1>1, <2>1
  <2>3. t[1] = s[o + 1]
    BY <2>2
  <2>4. CASE s[o].at = e
    <3>1. s[o + 1].frame = s[o].frame + 1 /\ s[o + 1].at = 1
      BY <2>2, <2>4 DEF InOrder
    <3>2. s[o + 1].frame = n2 /\ s[o + 1].at = a2
      BY <2>4, <3>1
    <3>3. s[o + 1] \in ByteRecords
      BY <2>2, ElementOfSeq
    <3> QED
      BY <2>3, <3>2, <3>3, SameByte
  <2>5. CASE s[o].at # e
    <3>1. s[o].at + (o + 1 - o) <= e
      <4> HIDE DEF e
      <4> QED
        BY <1>3, <2>2, <2>5
    <3>2. s[o + 1].frame = s[o].frame /\ s[o + 1].at = s[o].at + (o + 1 - o)
      BY <2>2, <3>1 DEF InOrder
    <3>3. s[o + 1].frame = n2 /\ s[o + 1].at = a2
      BY <2>2, <2>5, <3>2
    <3>4. s[o + 1] \in ByteRecords
      BY <2>2, ElementOfSeq
    <3> QED
      BY <2>3, <3>3, <3>4, SameByte
  <2> QED
    BY <2>4, <2>5
<1>5. ASSUME NEW c, NEW n, NEW a, ComesNext(s, c, sizes, n, a)
      PROVE  ComesNext(t, Byte(n2, a2), sizes, n, a)
  <2>1. s # << >> /\ L \in 1 .. L
    BY <1>1, EmptySeq
  <2>2. IF s[L].at = LastOf(s[L].frame, sizes) THEN n = s[L].frame + 1 /\ a = 1
                                              ELSE n = s[L].frame /\ a = s[L].at + 1
    BY <1>5, <2>1 DEF ComesNext
  <2>3. CASE t = << >>
    <3>1. L = o
      BY <1>1, <2>3, EmptySeq
    <3>2. n = n2 /\ a = a2
      BY <2>2, <3>1
    <3> QED
      BY <2>3, <3>2 DEF ComesNext
  <2>4. CASE t # << >>
    <3>1. M # 0
      BY <2>4, EmptySeq
    <3>2. t[M] = s[L]
      BY <1>1, <3>1
    <3> QED
      BY <2>2, <2>4, <3>2 DEF ComesNext
  <2> QED
    BY <2>3, <2>4
<1> QED
  BY <1>4, <1>5

\* What is unread is the reader's buffer followed by the stream.
LEMMA RestFacts ==
  ASSUME StreamTypeOK
  PROVE  /\ Rest \in Seq(ByteRecords) /\ Len(Rest) = Len(buf) + Len(stream)
         /\ buf \in Seq(ByteRecords) /\ stream \in Seq(ByteRecords)
         /\ Len(buf) \in Nat /\ Len(stream) \in Nat
         /\ \A i \in 1 .. Len(buf) : Rest[i] = buf[i]
         /\ \A i \in 1 .. Len(stream) : Rest[Len(buf) + i] = stream[i]
<1>1. buf \in Seq(ByteRecords) /\ stream \in Seq(ByteRecords)
  BY DEF StreamTypeOK, ByteRecords
<1>2. /\ Rest \in Seq(ByteRecords) /\ Len(Rest) = Len(buf) + Len(stream)
      /\ \A i \in 1 .. Len(buf) + Len(stream) :
           Rest[i] = IF i <= Len(buf) THEN buf[i] ELSE stream[i - Len(buf)]
  BY <1>1, ConcatProperties DEF Rest
<1>3. Len(buf) \in Nat /\ Len(stream) \in Nat
  BY <1>1, LenProperties
<1> DEFINE B == Len(buf)
           T == Len(stream)
<1> HIDE DEF B, T
<1>4. /\ B \in Nat /\ T \in Nat
      /\ \A i \in 1 .. B + T : Rest[i] = IF i <= B THEN buf[i] ELSE stream[i - B]
  BY <1>2, <1>3 DEF B, T
<1>5. \A i \in 1 .. B : Rest[i] = buf[i]
  BY <1>4
<1>6. ASSUME NEW i \in 1 .. T
      PROVE  Rest[B + i] = stream[i]
  <2>1. B + i \in 1 .. B + T /\ ~(B + i <= B) /\ B + i - B = i
    BY <1>4
  <2> QED
    BY <1>4, <2>1
<1> QED
  BY <1>1, <1>2, <1>3, <1>5, <1>6, Zenon DEF B, T

\* What the reader has buffered are the bytes it expected: of the current header,
\* or of the current body.
LEMMA BufferInStep ==
  ASSUME FramingInv, reader \in {"header", "body"}, NEW i \in 1 .. Len(buf)
  PROVE  /\ Current \in 1 .. Len(bodies)
         /\ buf[i].frame = Current
         /\ buf[i].at = (IF reader = "header" THEN 0 ELSE HeaderBytes) + i
<1>1. StreamTypeOK /\ ReaderInStep /\ RestInOrder
  BY DEF FramingInv
<1>2. /\ Rest \in Seq(ByteRecords) /\ Len(buf) \in Nat /\ Len(stream) \in Nat
      /\ Len(Rest) = Len(buf) + Len(stream) /\ Rest[i] = buf[i] /\ Rest[1] = buf[1]
  BY <1>1, RestFacts
<1>3. InOrder(Rest, bodies, Len(taken)) /\ (Rest # << >> => Rest[1] = Cursor)
  BY <1>1 DEF RestInOrder
<1>4. 1 \in 1 .. Len(Rest) /\ i \in 1 .. Len(Rest) /\ 1 <= i
  BY <1>2
<1>5. Rest # << >>
  BY <1>4, <1>2, EmptySeq
<1> DEFINE b == (IF reader = "header" THEN 0 ELSE HeaderBytes)
<1>6. Rest[1].frame = Current /\ Rest[1].at = b + 1
  BY <1>1, <1>2, <1>3, <1>5, FramingAssumption DEF Cursor, ReaderInStep, Byte
<1>7. Current \in 1 .. Len(bodies)
  BY <1>3, <1>4, <1>6 DEF InOrder, SentByte
<1>8. bodies[Current] \in Nat
  <2>1. bodies \in Seq(0 .. MaxBody) /\ MaxBody \in Nat
    BY <1>1, FramingAssumption DEF StreamTypeOK
  <2>2. bodies[Current] \in 0 .. MaxBody
    BY <1>7, <2>1, ElementOfSeq
  <2> QED
    BY <2>1, <2>2
<1>9. Rest[1].at + (i - 1) <= LastOf(Rest[1].frame, bodies)
  BY <1>1, <1>2, <1>6, <1>8, FramingAssumption DEF ReaderInStep, LastOf
<1>10. Rest[i].frame = Rest[1].frame /\ Rest[i].at = Rest[1].at + (i - 1)
  BY <1>3, <1>4, <1>9 DEF InOrder
<1>11. b + 1 + (i - 1) = b + i
  BY <1>2, FramingAssumption
<1> QED
  BY <1>2, <1>6, <1>7, <1>10, <1>11

\* The sizes of the frames begun.
LEMMA BodySizes ==
  ASSUME StreamTypeOK
  PROVE  /\ bodies \in Seq(Nat) /\ Len(bodies) \in Nat /\ Len(taken) \in Nat /\ Len(returned) \in Nat
         /\ \A n \in 1 .. Len(bodies) : bodies[n] \in 0 .. MaxBody /\ bodies[n] \in Nat
<1>1. bodies \in Seq(0 .. MaxBody) /\ MaxBody \in Nat
  BY FramingAssumption DEF StreamTypeOK
<1>2. bodies \in Seq(Nat)
  BY <1>1, SeqMonotonic
<1>3. Len(bodies) \in Nat /\ Len(taken) \in Nat /\ Len(returned) \in Nat
  BY LenProperties DEF StreamTypeOK
<1>4. \A n \in 1 .. Len(bodies) : bodies[n] \in 0 .. MaxBody
  BY <1>1, ElementOfSeq
<1> QED
  BY <1>1, <1>2, <1>3, <1>4

\* An open stream with nothing written is in step.
LEMMA FramingInit ==
  ASSUME StreamInit
  PROVE  FramingInv
<1>1. Rest = << >> /\ Current = 1 /\ Cursor = Byte(1, 1)
  BY DEF StreamInit, Rest, Current, Cursor
<1>2. StreamTypeOK
  BY FramingAssumption DEF StreamInit, StreamTypeOK
<1>3. TakenWereSent /\ ReturnedWereTaken /\ ReaderInStep
  BY FramingAssumption DEF StreamInit, TakenWereSent, ReturnedWereTaken, ReaderInStep
<1>4. RestInOrder
  BY <1>1 DEF RestInOrder, InOrder
<1>5. WriterInStep
  BY <1>1 DEF StreamInit, WriterInStep, ComesNext
<1> QED
  BY <1>2, <1>3, <1>4, <1>5 DEF FramingInv

\* A read moves bytes into the buffer, and never more than the frame still needs.
LEMMA ReadSomeKeeps ==
  ASSUME FramingInv, NEW n \in 1 .. Wanted, ReadSome(n)
  PROVE  FramingInv'
<1>1. /\ reader \in {"header", "body"} /\ n <= Len(stream)
      /\ buf' = buf \o SubSeq(stream, 1, n)
      /\ stream' = SubSeq(stream, n + 1, Len(stream))
      /\ UNCHANGED <<reader, need, returned, bodies, sender, taken, open>>
      /\ StreamTypeOK
  BY DEF ReadSome, UnchangedSender, FramingInv, StreamTypeOK
<1>2. /\ buf \in Seq(ByteRecords) /\ stream \in Seq(ByteRecords)
      /\ Len(buf) \in Nat /\ Len(stream) \in Nat /\ need \in Nat
  BY <1>1, RestFacts DEF StreamTypeOK
<1>3. n \in Nat /\ Len(buf) + n <= (IF reader = "header" THEN HeaderBytes ELSE need)
  BY <1>1, <1>2, FramingAssumption DEF Wanted
<1>4. /\ SubSeq(stream, 1, n) \in Seq(ByteRecords) /\ Len(SubSeq(stream, 1, n)) = n
      /\ SubSeq(stream, n + 1, Len(stream)) \in Seq(ByteRecords)
  <2>1. \A i \in 1 .. Len(stream) : stream[i] \in ByteRecords
    BY <1>2, ElementOfSeq
  <2>2. \A i \in 1 .. n : stream[i] \in ByteRecords
    BY <1>1, <1>2, <1>3, <2>1
  <2>3. \A i \in n + 1 .. Len(stream) : stream[i] \in ByteRecords
    BY <1>2, <1>3, <2>1
  <2>4. SubSeq(stream, 1, n) \in Seq(ByteRecords) /\ Len(SubSeq(stream, 1, n)) = n
    BY <1>1, <1>3, <2>2, SubSeqProperties
  <2>5. SubSeq(stream, n + 1, Len(stream)) \in Seq(ByteRecords)
    BY <1>2, <1>3, <2>3, SubSeqProperties
  <2> QED
    BY <2>4, <2>5
<1>5. buf' \in Seq(ByteRecords) /\ Len(buf') = Len(buf) + n
  BY <1>1, <1>2, <1>4, ConcatProperties
<1>6. Rest' = Rest
  <2>1. SubSeq(stream, 1, n) \o SubSeq(stream, n + 1, Len(stream)) = stream
    <3>1. 1 \in 1 .. Len(stream) + 1 /\ n \in 1 - 1 .. Len(stream) /\ Len(stream) \in n .. Len(stream)
      BY <1>1, <1>2, <1>3
    <3>2. SubSeq(stream, 1, n) \o SubSeq(stream, n + 1, Len(stream)) = SubSeq(stream, 1, Len(stream))
      BY <1>2, <3>1, ConcatAdjacentSubSeq
    <3>3. SubSeq(stream, 1, Len(stream)) = stream
      BY <1>2, SubSeqFull
    <3> QED
      BY <3>2, <3>3, Zenon
  <2> DEFINE x == SubSeq(stream, 1, n)
             y == SubSeq(stream, n + 1, Len(stream))
  <2>2. x \in Seq(ByteRecords) /\ y \in Seq(ByteRecords)
    BY <1>4
  <2> HIDE DEF x, y
  <2>3. (buf \o x) \o y = buf \o (x \o y)
    BY <1>2, <2>2, ConcatAssociative
  <2> QED
    BY <1>1, <2>1, <2>3, Zenon DEF Rest, x, y
<1>7. StreamTypeOK'
  <2>1. stream' \in Seq([frame : Nat, at : Nat]) /\ buf' \in Seq([frame : Nat, at : Nat])
    BY <1>1, <1>4, <1>5 DEF ByteRecords
  <2> QED
    BY <1>1, <2>1 DEF StreamTypeOK
<1>8. TakenWereSent' /\ ReturnedWereTaken'
  BY <1>1 DEF FramingInv, TakenWereSent, ReturnedWereTaken, Body
<1>9. ReaderInStep'
  BY <1>1, <1>3, <1>5 DEF FramingInv, ReaderInStep, Current
<1>10. Cursor' = Cursor
  BY <1>1 DEF Cursor, Current
<1>11. RestInOrder' /\ WriterInStep'
  BY <1>1, <1>6, <1>10 DEF FramingInv, RestInOrder, WriterInStep, InOrder, SentByte, LastOf, ComesNext
<1> QED
  BY <1>7, <1>8, <1>9, <1>11 DEF FramingInv

\* What is lost at a close is a suffix, and nothing is written after it.
LEMMA FinishKeeps ==
  ASSUME FramingInv, Finish
  PROVE  FramingInv'
<1>1. PICK k \in 0 .. Len(stream) : stream' = SubSeq(stream, 1, k)
  BY DEF Finish
<1>2. /\ open' = FALSE
      /\ UNCHANGED <<bodies, sender, taken, reader, need, buf, returned>>
      /\ StreamTypeOK
  BY DEF Finish, UnchangedReader, FramingInv
<1>3. /\ Rest \in Seq(ByteRecords) /\ Len(Rest) = Len(buf) + Len(stream)
      /\ buf \in Seq(ByteRecords) /\ stream \in Seq(ByteRecords)
      /\ Len(buf) \in Nat /\ Len(stream) \in Nat
      /\ \A i \in 1 .. Len(buf) : Rest[i] = buf[i]
      /\ \A i \in 1 .. Len(stream) : Rest[Len(buf) + i] = stream[i]
  BY <1>2, RestFacts
<1>4. /\ stream' \in Seq(ByteRecords) /\ Len(stream') = k
      /\ \A i \in 1 .. k : stream'[i] = stream[i]
  <2>1. \A i \in 1 .. k : stream[i] \in ByteRecords
    BY <1>1, <1>3, ElementOfSeq
  <2>2. /\ SubSeq(stream, 1, k) \in Seq(ByteRecords)
        /\ Len(SubSeq(stream, 1, k)) = IF 1 <= k THEN k - 1 + 1 ELSE 0
        /\ \A i \in 1 .. k - 1 + 1 : SubSeq(stream, 1, k)[i] = stream[1 + i - 1]
    BY <1>1, <1>3, <2>1, SubSeqProperties
  <2>3. k - 1 + 1 = k /\ \A i \in 1 .. k : 1 + i - 1 = i
    BY <1>3
  <2> QED
    BY <1>1, <1>3, <2>2, <2>3
<1>5. StreamTypeOK'
  BY <1>2, <1>4 DEF StreamTypeOK, ByteRecords
<1>6. TakenWereSent' /\ ReturnedWereTaken' /\ ReaderInStep' /\ WriterInStep'
  BY <1>2 DEF FramingInv, TakenWereSent, ReturnedWereTaken, ReaderInStep, WriterInStep, Body, Current
<1>7. RestInOrder'
  <2> SUFFICES ASSUME reader # "stopped"
               PROVE  /\ InOrder(Rest', bodies, Len(taken))
                      /\ Rest' # << >> => Rest'[1] = Cursor
    BY <1>2 DEF RestInOrder, Cursor, Current, InOrder, SentByte, LastOf
  <2>1. /\ Rest' \in Seq(ByteRecords) /\ Len(Rest') = Len(buf) + k
        /\ \A i \in 1 .. Len(buf) + k :
             Rest'[i] = IF i <= Len(buf) THEN buf[i] ELSE stream'[i - Len(buf)]
    <3> DEFINE x == stream'
    <3>1. Rest' = buf \o x
      BY <1>2 DEF Rest
    <3>2. x \in Seq(ByteRecords) /\ Len(x) = k
      BY <1>4
    <3> HIDE DEF x
    <3>3. buf \in Seq(ByteRecords)
      BY <1>3
    <3>4. /\ buf \o x \in Seq(ByteRecords) /\ Len(buf \o x) = Len(buf) + Len(x)
          /\ \A i \in 1 .. Len(buf) + Len(x) :
               (buf \o x)[i] = IF i <= Len(buf) THEN buf[i] ELSE x[i - Len(buf)]
      BY <3>2, <3>3, ConcatProperties
    <3> QED
      BY <3>1, <3>2, <3>4, Zenon DEF x
  <2>2. ASSUME NEW i \in 1 .. Len(Rest')
        PROVE  Rest'[i] = Rest[i]
    <3>1. CASE i <= Len(buf)
      BY <1>1, <1>3, <2>1, <3>1
    <3>2. CASE i > Len(buf)
      <4>1. i - Len(buf) \in 1 .. k /\ i - Len(buf) \in 1 .. Len(stream) /\ Len(buf) + (i - Len(buf)) = i
        BY <1>1, <1>3, <2>1, <3>2
      <4>2. Rest'[i] = stream[i - Len(buf)]
        BY <1>1, <1>3, <1>4, <2>1, <3>2, <4>1
      <4> QED
        BY <1>3, <4>1, <4>2
    <3> QED
      BY <1>1, <1>3, <2>1, <3>1, <3>2
  <2>3. InOrder(Rest', bodies, Len(taken))
    <3>1. 0 \in Nat /\ 0 + Len(Rest') <= Len(Rest) /\ \A i \in 1 .. Len(Rest') : Rest'[i] = Rest[0 + i]
      BY <1>1, <1>3, <2>1, <2>2
    <3>2. InOrder(Rest, bodies, Len(taken))
      BY DEF FramingInv, RestInOrder
    <3> QED
      BY <1>3, <2>1, <3>1, <3>2, SegmentInOrder
  <2>4. ASSUME Rest' # << >>
        PROVE  Rest'[1] = Cursor
    <3>1. Len(Rest') # 0
      BY <2>1, <2>4, EmptySeq
    <3>2. 1 \in 1 .. Len(Rest') /\ Len(Rest) # 0
      BY <1>1, <1>3, <2>1, <3>1
    <3>3. Rest # << >>
      BY <1>3, <3>2, EmptySeq
    <3> QED
      BY <2>2, <3>2, <3>3 DEF FramingInv, RestInOrder
  <2> QED
    BY <2>3, <2>4
<1> QED
  BY <1>5, <1>6, <1>7 DEF FramingInv

\* A read that fails changes nothing but the reader's state.
LEMMA ReadFailsKeeps ==
  ASSUME FramingInv, ReadFails
  PROVE  FramingInv'
<1>1. /\ reader' = "stopped" /\ buf' = << >> /\ ~open
      /\ UNCHANGED <<need, stream, returned, bodies, sender, taken, open>>
  BY DEF ReadFails, UnchangedSender
<1>2. StreamTypeOK'
  BY <1>1 DEF FramingInv, StreamTypeOK
<1>3. TakenWereSent' /\ ReturnedWereTaken' /\ ReaderInStep' /\ RestInOrder' /\ WriterInStep'
  BY <1>1 DEF FramingInv, TakenWereSent, ReturnedWereTaken, ReaderInStep, RestInOrder, WriterInStep, Body
<1> QED
  BY <1>2, <1>3 DEF FramingInv

\* A header that is complete is the current frame's own.
LEMMA HeaderIsTheFrames ==
  ASSUME FramingInv, reader = "header", Len(buf) = HeaderBytes
  PROVE  Current \in 1 .. Len(bodies) /\ Lengths(buf) = {bodies[Current]}
<1>1. HeaderBytes \in Nat \ {0} /\ StreamTypeOK
  BY FramingAssumption DEF FramingInv
<1>2. /\ Current \in 1 .. Len(bodies)
      /\ \A i \in 1 .. HeaderBytes : buf[i].frame = Current /\ buf[i].at = i
  <2>1. ASSUME NEW i \in 1 .. HeaderBytes
        PROVE  Current \in 1 .. Len(bodies) /\ buf[i].frame = Current /\ buf[i].at = 0 + i
    BY <2>1, BufferInStep
  <2>2. 1 \in 1 .. HeaderBytes
    BY <1>1
  <2> QED
    BY <1>1, <2>1, <2>2
<1>3. ASSUME NEW n \in 1 .. Len(bodies)
      PROVE  /\ HeaderOf(n) \in Seq(ByteRecords) /\ Len(HeaderOf(n)) = HeaderBytes
             /\ \A i \in 1 .. HeaderBytes : HeaderOf(n)[i].frame = n /\ HeaderOf(n)[i].at = i
  <2> DEFINE h == Bytes(n, 1, HeaderBytes)
  <2>1. /\ n \in Nat /\ 1 \in Nat /\ HeaderBytes \in Nat /\ 1 <= HeaderBytes + 1
        /\ HeaderBytes - 1 + 1 = HeaderBytes /\ \A i \in 1 .. HeaderBytes : 1 + i - 1 = i
    BY <1>1, BodySizes
  <2>2. h \in Seq(ByteRecords) /\ Len(h) = HeaderBytes - 1 + 1
    BY <2>1, BytesFacts
  <2>3. \A i \in 1 .. HeaderBytes - 1 + 1 : h[i].frame = n
    BY <2>1, BytesFacts
  <2>4. \A i \in 1 .. HeaderBytes : h[i].at = i
    <3>1. ASSUME NEW i \in 1 .. HeaderBytes
          PROVE  Bytes(n, 1, HeaderBytes)[i].at = i
      <4>1. Bytes(n, 1, HeaderBytes)[i] = Byte(n, 1 + i - 1)
        BY <2>1 DEF Bytes
      <4>2. Byte(n, 1 + i - 1).at = 1 + i - 1
        BY DEF Byte
      <4> QED
        BY <2>1, <4>1, <4>2
    <3> QED
      BY <3>1
  <2> HIDE DEF h
  <2>5. Len(h) = HeaderBytes /\ \A i \in 1 .. HeaderBytes : h[i].frame = n /\ h[i].at = i
    BY <2>1, <2>2, <2>3, <2>4
  <2> QED
    BY <2>2, <2>5, Zenon DEF HeaderOf, h
<1>4. buf = HeaderOf(Current)
  <2> DEFINE h == HeaderOf(Current)
  <2>1. /\ h \in Seq(ByteRecords) /\ Len(h) = HeaderBytes
        /\ \A i \in 1 .. HeaderBytes : h[i].frame = Current /\ h[i].at = i
    BY <1>2, <1>3
  <2> HIDE DEF h
  <2>2. buf \in Seq(ByteRecords)
    BY <1>1, RestFacts
  <2>3. ASSUME NEW i \in 1 .. Len(buf)
        PROVE  buf[i] = h[i]
    <3>1. buf[i] \in ByteRecords /\ h[i] \in ByteRecords
      BY <2>1, <2>2, ElementOfSeq
    <3>2. buf[i] = Byte(buf[i].frame, buf[i].at) /\ h[i] = Byte(h[i].frame, h[i].at)
      BY <3>1, SameByte
    <3>3. buf[i].frame = h[i].frame /\ buf[i].at = h[i].at
      BY <1>2, <2>1
    <3> QED
      BY <3>2, <3>3
  <2>4. buf = h
    BY <2>1, <2>2, <2>3, SeqEqual
  <2> QED
    BY <2>4 DEF h
<1>5. ASSUME NEW m \in 1 .. Len(bodies), buf = HeaderOf(m)
      PROVE  m = Current
  <2>1. 1 \in 1 .. HeaderBytes
    BY <1>1
  <2>2. HeaderOf(m)[1].frame = m
    BY <1>3, <2>1
  <2> QED
    BY <1>2, <1>5, <2>1, <2>2
<1>6. DOMAIN bodies = 1 .. Len(bodies)
  BY <1>1 DEF StreamTypeOK
<1> QED
  BY <1>2, <1>4, <1>5, <1>6 DEF Lengths

\* Once the reader has passed what it had buffered, the rest is the stream.
LEMMA BufferPassed ==
  ASSUME FramingInv, reader \in {"header", "body"}, buf # << >>,
         UNCHANGED <<stream, bodies, taken>>, buf' = << >>,
         NEW n2, NEW a2,
         IF buf[Len(buf)].at = LastOf(buf[Len(buf)].frame, bodies)
           THEN n2 = buf[Len(buf)].frame + 1 /\ a2 = 1
           ELSE n2 = buf[Len(buf)].frame /\ a2 = buf[Len(buf)].at + 1
  PROVE  /\ InOrder(Rest', bodies, Len(taken))
         /\ Rest' # << >> => Rest'[1] = Byte(n2, a2)
         /\ \A n, a : ComesNext(Rest, Cursor, bodies, n, a)
                        => ComesNext(Rest', Byte(n2, a2), bodies, n, a)
<1>1. StreamTypeOK /\ InOrder(Rest, bodies, Len(taken))
  BY DEF FramingInv, RestInOrder
<1> DEFINE o == Len(buf)
           R == Rest'
<1>2. /\ Rest \in Seq(ByteRecords) /\ Len(Rest) = o + Len(stream)
      /\ stream \in Seq(ByteRecords)
      /\ o \in Nat /\ Len(stream) \in Nat
      /\ \A i \in 1 .. o : Rest[i] = buf[i]
      /\ \A i \in 1 .. Len(stream) : Rest[o + i] = stream[i]
  BY <1>1, RestFacts
<1>3. o \in Nat \ {0}
  BY <1>1, RestFacts, EmptySeq
<1>4. R = stream
  <2>1. << >> \o stream = stream
    BY <1>2, ConcatEmptySeq
  <2> QED
    BY <2>1, Zenon DEF Rest
<1>5. bodies \in Seq(Nat)
  BY <1>1, BodySizes
<1> HIDE DEF R
<1>6. Rest[o] = buf[o]
  BY <1>2, <1>3
<1> HIDE DEF o
<1>7. IF Rest[o].at = LastOf(Rest[o].frame, bodies) THEN n2 = Rest[o].frame + 1 /\ a2 = 1
                                                    ELSE n2 = Rest[o].frame /\ a2 = Rest[o].at + 1
  BY <1>6 DEF o
<1>8. InOrder(stream, bodies, Len(taken))
  BY <1>1, <1>2, SegmentInOrder
<1>9. /\ stream # << >> => stream[1] = Byte(n2, a2)
      /\ \A c, n, a : ComesNext(Rest, c, bodies, n, a)
                        => ComesNext(stream, Byte(n2, a2), bodies, n, a)
  BY <1>1, <1>2, <1>3, <1>5, <1>7, PastTheFirst
<1> QED
  BY <1>4, <1>8, <1>9 DEF R

\* The four bytes of a length are those of the frame the reader expects.
LEMMA ReadLengthKeeps ==
  ASSUME MaxBody <= MaxFrame, FramingInv, ReadLength
  PROVE  FramingInv'
<1>1. StreamTypeOK /\ HeaderBytes \in Nat \ {0} /\ MaxFrame \in Nat /\ MaxBody \in Nat
  BY FramingAssumption DEF FramingInv
<1>2. /\ reader = "header" /\ Len(buf) = HeaderBytes /\ buf' = << >>
      /\ UNCHANGED <<stream, returned, bodies, sender, taken, open>>
  BY DEF ReadLength, UnchangedSender
<1>3. Current \in 1 .. Len(bodies) /\ Lengths(buf) = {bodies[Current]}
  BY <1>2, HeaderIsTheFrames
<1>4. bodies[Current] \in 0 .. MaxBody /\ bodies[Current] \in Nat
  BY <1>1, <1>3, BodySizes
<1>5. need' = bodies[Current] /\ reader' = "body"
  BY <1>1, <1>3, <1>4 DEF ReadLength
<1>6. Current' = Current
  BY <1>2 DEF Current
<1> DEFINE c2 == IF need' = 0 THEN Current + 1 ELSE Current
           a2 == IF need' = 0 THEN 1 ELSE HeaderBytes + 1
           k == Len(buf)
\* The last byte of the header, and what comes after it.
<1>7. /\ buf # << >> /\ buf[k].frame = Current /\ buf[k].at = HeaderBytes
      /\ Rest[k] = buf[k] /\ k \in 1 .. Len(Rest)
  <2>1. k \in 1 .. Len(buf)
    BY <1>1, <1>2
  <2>2. buf[k].frame = Current /\ buf[k].at = 0 + k
    BY <1>2, <2>1, BufferInStep
  <2>3. buf # << >>
    BY <1>1, <1>2, EmptySeq
  <2>4. Rest[k] = buf[k] /\ k \in 1 .. Len(Rest)
    BY <1>1, <2>1, RestFacts
  <2> QED
    BY <1>1, <1>2, <2>2, <2>3, <2>4
<1>8. /\ InOrder(Rest', bodies, Len(taken))
      /\ Rest' # << >> => Rest'[1] = Byte(c2, a2)
      /\ \A n, a : ComesNext(Rest, Cursor, bodies, n, a)
                     => ComesNext(Rest', Byte(c2, a2), bodies, n, a)
  <2>1. IF buf[k].at = LastOf(buf[k].frame, bodies)
          THEN c2 = buf[k].frame + 1 /\ a2 = 1
          ELSE c2 = buf[k].frame /\ a2 = buf[k].at + 1
    BY <1>1, <1>4, <1>5, <1>7 DEF LastOf
  <2> HIDE DEF c2, a2
  <2> QED
    BY <1>2, <1>7, <2>1, BufferPassed
<1>9. Cursor' = Byte(c2, a2)
  BY <1>5, <1>6 DEF Cursor
<1>10. need' = 0 => Current <= Len(taken)
  <2>1. SentByte(Rest[k], bodies, Len(taken))
    BY <1>2, <1>7 DEF FramingInv, RestInOrder, InOrder
  <2>2. ASSUME need' = 0
        PROVE  buf[k].at = LastOf(buf[k].frame, bodies)
    BY <1>1, <1>5, <1>7, <2>2 DEF LastOf
  <2> QED
    BY <1>7, <2>1, <2>2 DEF SentByte
<1>11. StreamTypeOK'
  BY <1>1, <1>2, <1>4, <1>5 DEF StreamTypeOK
<1>12. TakenWereSent' /\ ReturnedWereTaken'
  BY <1>2 DEF FramingInv, TakenWereSent, ReturnedWereTaken, Body
<1>13. ReaderInStep'
  BY <1>2, <1>3, <1>4, <1>5, <1>6, <1>10 DEF ReaderInStep
<1>14. RestInOrder'
  BY <1>2, <1>8, <1>9 DEF RestInOrder, InOrder, SentByte, LastOf
<1>15. WriterInStep'
  <2> SUFFICES ASSUME open
               PROVE  /\ sender = "ready" => ComesNext(Rest', Cursor', bodies, Len(bodies) + 1, 1)
                      /\ sender = "body" => ComesNext(Rest', Cursor', bodies, Len(bodies), HeaderBytes + 1)
    BY <1>2 DEF WriterInStep, ComesNext, LastOf
  <2> QED
    BY <1>2, <1>8, <1>9, Zenon DEF FramingInv, WriterInStep
<1> QED
  BY <1>11, <1>12, <1>13, <1>14, <1>15 DEF FramingInv

\* A body that is complete is one the sender has taken.
LEMMA ReturnsTheNextFrame ==
  ASSUME FramingInv, Return
  PROVE  /\ Current <= Len(taken) /\ buf = taken[Current]
         /\ buf # << >> => /\ buf[Len(buf)].frame = Current
                           /\ buf[Len(buf)].at = LastOf(Current, bodies)
<1>1. StreamTypeOK /\ HeaderBytes \in Nat \ {0}
  BY FramingAssumption DEF FramingInv
<1>2. /\ reader = "body" /\ Len(buf) = need /\ Current <= Len(bodies) /\ need = bodies[Current]
      /\ need = 0 => Current <= Len(taken)
  BY DEF Return, FramingInv, ReaderInStep
<1>3. /\ Len(taken) \in Nat /\ Len(bodies) \in Nat /\ Len(returned) \in Nat /\ Current \in 1 .. Len(bodies)
      /\ need \in Nat /\ buf \in Seq(ByteRecords)
  BY <1>1, <1>2, BodySizes, RestFacts DEF Current, StreamTypeOK
<1>4. \A i \in 1 .. need : buf[i].frame = Current /\ buf[i].at = HeaderBytes + i
  BY <1>2, BufferInStep
<1>5. buf # << >> => need \in 1 .. need
  BY <1>2, <1>3, EmptySeq
<1>6. buf # << >> => buf[need].frame = Current /\ buf[need].at = LastOf(Current, bodies)
  BY <1>2, <1>4, <1>5 DEF LastOf
<1>7. Current <= Len(taken)
  <2>1. CASE buf = << >>
    BY <1>2, <2>1, EmptySeq
  <2>2. CASE buf # << >>
    <3>1. Rest[need] = buf[need] /\ need \in 1 .. Len(Rest)
      <4>1. /\ \A i \in 1 .. Len(buf) : Rest[i] = buf[i]
            /\ Len(Rest) = Len(buf) + Len(stream) /\ Len(stream) \in Nat
        BY <1>1, RestFacts
      <4>2. need \in 1 .. Len(buf)
        BY <1>2, <1>5, <2>2
      <4>3. Rest[need] = buf[need]
        BY <4>1, <4>2
      <4> QED
        BY <1>2, <1>3, <4>1, <4>2, <4>3
    <3>2. SentByte(Rest[need], bodies, Len(taken))
      BY <1>2, <3>1 DEF FramingInv, RestInOrder, InOrder
    <3> QED
      BY <1>6, <2>2, <3>1, <3>2 DEF SentByte
  <2> QED
    BY <2>1, <2>2
<1>8. buf = Body(Current)
  <2> DEFINE h == Body(Current)
  <2>1. /\ h \in Seq(ByteRecords) /\ Len(h) = need
        /\ \A i \in 1 .. need : h[i].frame = Current /\ h[i].at = HeaderBytes + i
    <3> DEFINE p == HeaderBytes + 1
               q == HeaderBytes + need
    <3>1. /\ Current \in Nat /\ p \in Nat /\ q \in Nat /\ p <= q + 1 /\ need = q - p + 1
          /\ \A i \in 1 .. need : p + i - 1 = HeaderBytes + i
      BY <1>1, <1>3
    <3>2. h = Bytes(Current, p, q)
      BY <1>2 DEF Body, BodyOf
    <3> HIDE DEF h, p, q
    <3>3. h \in Seq(ByteRecords) /\ Len(h) = need
      BY <3>1, <3>2, BytesLen
    <3>4. ASSUME NEW i \in 1 .. need
          PROVE  h[i].frame = Current /\ h[i].at = p + i - 1
      BY <3>1, <3>2, ByteAt
    <3> QED
      BY <3>1, <3>3, <3>4
  <2> HIDE DEF h
  <2>2. ASSUME NEW i \in 1 .. Len(buf)
        PROVE  buf[i] = h[i]
    <3>1. buf[i] \in ByteRecords /\ h[i] \in ByteRecords
      BY <1>2, <1>3, <2>1, ElementOfSeq
    <3>2. buf[i] = Byte(buf[i].frame, buf[i].at) /\ h[i] = Byte(h[i].frame, h[i].at)
      BY <3>1, SameByte
    <3>3. buf[i].frame = h[i].frame /\ buf[i].at = h[i].at
      BY <1>2, <1>4, <2>1
    <3> QED
      BY <3>2, <3>3
  <2>3. buf = h
    BY <1>2, <1>3, <2>1, <2>2, SeqEqual
  <2> QED
    BY <2>3 DEF h
<1>9. taken[Current] = Body(Current)
  BY <1>3, <1>7 DEF FramingInv, TakenWereSent
<1> QED
  BY <1>2, <1>6, <1>7, <1>8, <1>9

\* A complete frame is returned whole, and the reader goes on to the next.
LEMMA ReturnKeeps ==
  ASSUME FramingInv, Return
  PROVE  FramingInv'
<1>1. StreamTypeOK /\ HeaderBytes \in Nat \ {0}
  BY FramingAssumption DEF FramingInv
<1>2. /\ reader = "body" /\ Len(buf) = need
      /\ returned' = Append(returned, buf)
      /\ reader' = "header" /\ buf' = << >> /\ need' = 0
      /\ UNCHANGED <<stream, bodies, sender, taken, open>>
  BY DEF Return, UnchangedSender
<1>3. /\ Current <= Len(taken) /\ buf = taken[Current]
      /\ buf # << >> => /\ buf[Len(buf)].frame = Current
                        /\ buf[Len(buf)].at = LastOf(Current, bodies)
  BY ReturnsTheNextFrame
<1>4. /\ returned \in Seq(Bodies) /\ Len(returned) \in Nat /\ Len(taken) \in Nat
      /\ buf \in Bodies
  <2>1. /\ returned \in Seq(Bodies) /\ taken \in Seq(Bodies)
        /\ Len(returned) \in Nat /\ Len(taken) \in Nat
    BY <1>1, BodySizes DEF StreamTypeOK
  <2>2. Current \in 1 .. Len(taken)
    BY <1>3, <2>1 DEF Current
  <2>3. taken[Current] \in Bodies
    BY <2>1, <2>2, ElementOfSeq
  <2> QED
    BY <1>3, <2>1, <2>3
<1>5. /\ returned' \in Seq(Bodies) /\ Len(returned') = Len(returned) + 1
      /\ \A n \in 1 .. Len(returned) : returned'[n] = returned[n]
      /\ returned'[Len(returned) + 1] = buf
  <2> HIDE DEF Bodies
  <2> QED
    BY <1>2, <1>4, AppendProperties
<1>6. Current' = Current + 1 /\ Cursor' = Byte(Current + 1, 1)
  BY <1>2, <1>5 DEF Current, Cursor
<1>7. StreamTypeOK'
  BY <1>1, <1>2, <1>5 DEF StreamTypeOK
<1>8. TakenWereSent'
  BY <1>2 DEF FramingInv, TakenWereSent, Body
<1>9. ReturnedWereTaken'
  <2>1. ASSUME NEW n \in 1 .. Len(returned')
        PROVE  returned'[n] = taken[n]
    <3>1. CASE n \in 1 .. Len(returned)
      BY <1>5, <3>1 DEF FramingInv, ReturnedWereTaken
    <3>2. CASE n = Len(returned) + 1
      BY <1>3, <1>5, <3>2 DEF Current
    <3> QED
      BY <1>4, <1>5, <3>1, <3>2
  <2> QED
    BY <1>2, <1>3, <1>5, <2>1 DEF ReturnedWereTaken, Current
<1>10. ReaderInStep'
  BY <1>1, <1>2 DEF ReaderInStep
<1>11. /\ InOrder(Rest', bodies, Len(taken))
       /\ Rest' # << >> => Rest'[1] = Byte(Current + 1, 1)
       /\ \A n, a : ComesNext(Rest, Cursor, bodies, n, a)
                      => ComesNext(Rest', Byte(Current + 1, 1), bodies, n, a)
  <2>1. CASE buf = << >>
    <3>1. Rest' = Rest
      BY <1>2, <2>1 DEF Rest
    <3>2. Cursor = Byte(Current + 1, 1)
      BY <1>2, <2>1 DEF Cursor
    <3> QED
      BY <1>2, <3>1, <3>2 DEF FramingInv, RestInOrder
  <2>2. CASE buf # << >>
    <3>1. IF buf[Len(buf)].at = LastOf(buf[Len(buf)].frame, bodies)
            THEN Current + 1 = buf[Len(buf)].frame + 1 /\ 1 = 1
            ELSE Current + 1 = buf[Len(buf)].frame /\ 1 = buf[Len(buf)].at + 1
      BY <1>3, <2>2
    <3> DEFINE n2 == Current + 1
               a2 == 1
    <3>2. IF buf[Len(buf)].at = LastOf(buf[Len(buf)].frame, bodies)
            THEN n2 = buf[Len(buf)].frame + 1 /\ a2 = 1
            ELSE n2 = buf[Len(buf)].frame /\ a2 = buf[Len(buf)].at + 1
      BY <3>1
    <3> HIDE DEF n2, a2
    <3>3. /\ InOrder(Rest', bodies, Len(taken))
          /\ Rest' # << >> => Rest'[1] = Byte(n2, a2)
          /\ \A n, a : ComesNext(Rest, Cursor, bodies, n, a)
                         => ComesNext(Rest', Byte(n2, a2), bodies, n, a)
      BY <1>2, <2>2, <3>2, BufferPassed
    <3> QED
      BY <3>3 DEF n2, a2
  <2> QED
    BY <2>1, <2>2
<1>12. RestInOrder'
  BY <1>2, <1>6, <1>11 DEF RestInOrder, InOrder, SentByte, LastOf
<1>13. WriterInStep'
  <2> SUFFICES ASSUME open
               PROVE  /\ sender = "ready" => ComesNext(Rest', Cursor', bodies, Len(bodies) + 1, 1)
                      /\ sender = "body" => ComesNext(Rest', Cursor', bodies, Len(bodies), HeaderBytes + 1)
    BY <1>2 DEF WriterInStep, ComesNext, LastOf
  <2> QED
    BY <1>2, <1>6, <1>11 DEF FramingInv, WriterInStep
<1> QED
  BY <1>7, <1>8, <1>9, <1>10, <1>12, <1>13 DEF FramingInv

\* Bytes written after what is in order are in order.
LEMMA WritesOn ==
  ASSUME NEW s \in Seq(ByteRecords), NEW c, NEW sizes \in Seq(Nat), NEW more \in Seq(Nat),
         NEW tk \in Nat, NEW tk2 \in Nat, tk <= tk2, Continues(more, sizes),
         NEW n \in 1 .. Len(more), NEW a \in Nat \ {0}, NEW to \in Nat, a <= to + 1,
         InOrder(s, sizes, tk), ComesNext(s, c, sizes, n, a), StartsWith(s, c),
         to <= LastOf(n, more), to = LastOf(n, more) /\ a <= to => n <= tk2
  PROVE  InOrder(s \o Bytes(n, a, to), more, tk2) /\ StartsWith(s \o Bytes(n, a, to), c)
<1>1. InOrder(s, more, tk2)
  BY StaysInOrder
<1>2. ComesNext(s, c, more, n, a)
  BY StaysNext
<1>3. n \in Nat
  BY LenProperties
<1>4. InOrder(s \o Bytes(n, a, to), more, tk2)
  BY <1>1, <1>2, RunInOrder
<1>5. StartsWith(s \o Bytes(n, a, to), c)
  BY <1>2, <1>3, RunStarts
<1> QED
  BY <1>4, <1>5

\* Bytes written to the stream come after all that is unread.
LEMMA RestGrows ==
  ASSUME StreamTypeOK, NEW u \in Seq(ByteRecords)
  PROVE  stream \o u \in Seq(ByteRecords) /\ buf \o (stream \o u) = Rest \o u
<1>1. buf \in Seq(ByteRecords) /\ stream \in Seq(ByteRecords)
  BY RestFacts
<1>2. stream \o u \in Seq(ByteRecords)
  BY <1>1, ConcatProperties
<1>3. buf \o (stream \o u) = (buf \o stream) \o u
  BY <1>1, Regroup
<1> QED
  BY <1>2, <1>3, Zenon DEF Rest

\* The bytes that come next, written whole or in part.
Follows(n, at, sizes, n2, a2) ==
  IF at = LastOf(n, sizes) THEN n2 = n + 1 /\ a2 = 1 ELSE n2 = n /\ a2 = at + 1
Written(n, a, to) == stream' = stream \o Bytes(n, a, to)
\* A write keeps what is unread in order.
LEMMA WriteKeeps ==
  ASSUME FramingInv, open, UnchangedReader, UNCHANGED open,
         NEW n \in 1 .. Len(bodies'), NEW a \in Nat \ {0}, NEW to \in Nat, a <= to + 1,
         ComesNext(Rest, Cursor, bodies, n, a),
         Written(n, a, to),
         bodies' \in Seq(Nat), Continues(bodies', bodies),
         Len(taken') \in Nat, Len(taken) <= Len(taken'),
         to <= LastOf(n, bodies'),
         to = LastOf(n, bodies') /\ a <= to => n <= Len(taken')
  PROVE  /\ stream' \in Seq(ByteRecords) /\ RestInOrder'
         /\ \A n2, a2 : a <= to /\ Follows(n, to, bodies', n2, a2)
                          => ComesNext(Rest', Cursor', bodies', n2, a2)
<1> DEFINE u == Bytes(n, a, to)
<1>1. StreamTypeOK /\ reader # "stopped"
  BY DEF FramingInv, ReaderInStep
<1>2. /\ Rest \in Seq(ByteRecords) /\ buf \in Seq(ByteRecords) /\ stream \in Seq(ByteRecords)
      /\ bodies \in Seq(Nat) /\ Len(taken) \in Nat
  BY <1>1, RestFacts, BodySizes
<1>3. InOrder(Rest, bodies, Len(taken)) /\ StartsWith(Rest, Cursor)
  BY <1>1 DEF FramingInv, RestInOrder, StartsWith
<1>4. n \in Nat
  BY LenProperties
<1>5. u \in Seq(ByteRecords)
  BY <1>4, BytesLen
<1>6. buf' = buf /\ Cursor' = Cursor /\ reader' = reader
  BY DEF UnchangedReader, Cursor, Current
<1>7. stream' \in Seq(ByteRecords) /\ Rest' = Rest \o u
  <2> HIDE DEF u
  <2>1. stream \o u \in Seq(ByteRecords) /\ buf \o (stream \o u) = Rest \o u
    BY <1>1, <1>5, RestGrows
  <2>2. stream' = stream \o u
    BY DEF u, Written
  <2> QED
    BY <1>6, <2>1, <2>2, Zenon DEF Rest
<1> DEFINE B == bodies'
           K == Len(taken')
<1>8. B \in Seq(Nat) /\ K \in Nat /\ Len(taken) <= K /\ Continues(B, bodies) /\ n \in 1 .. Len(B)
  OBVIOUS
<1>10. to <= LastOf(n, B) /\ (to = LastOf(n, B) /\ a <= to => n <= K)
  OBVIOUS
<1> HIDE DEF B, K
<1>13. InOrder(Rest \o Bytes(n, a, to), B, K) /\ StartsWith(Rest \o Bytes(n, a, to), Cursor)
  BY <1>2, <1>3, <1>8, <1>10, WritesOn
<1>15. RestInOrder'
  <2>1. InOrder(Rest', bodies', Len(taken')) /\ (Rest' # << >> => Rest'[1] = Cursor')
    BY <1>6, <1>7, <1>13, Zenon DEF B, K, StartsWith
  <2> QED
    BY <2>1 DEF RestInOrder, InOrder, SentByte, LastOf
<1>16. ASSUME NEW n2, NEW a2, a <= to, Follows(n, to, bodies', n2, a2)
       PROVE  ComesNext(Rest', Cursor', bodies', n2, a2)
  <2>2. IF to = LastOf(n, B) THEN n2 = n + 1 /\ a2 = 1 ELSE n2 = n /\ a2 = to + 1
    BY <1>16, Zenon DEF B, Follows
  <2>3. ComesNext(Rest \o Bytes(n, a, to), Cursor, B, n2, a2)
    BY <1>2, <1>4, <1>16, <2>2, RunEnds, Zenon
  <2> QED
    BY <1>6, <1>7, <2>3, Zenon DEF B
<1> QED
  BY <1>7, <1>15, <1>16, Zenon


\* A header is written for the frame after the last one begun.
LEMMA WriteHeaderKeeps ==
  ASSUME FramingInv, NEW size \in 0 .. MaxBody, WriteHeader(size)
  PROVE  FramingInv'
<1> DEFINE B == bodies'
           n == Len(bodies) + 1
<1>1. /\ StreamTypeOK /\ HeaderBytes \in Nat \ {0} /\ MaxBody \in Nat /\ size \in Nat
      /\ MaxSent \in Nat
  BY FramingAssumption DEF FramingInv
<1>2. /\ open /\ sender = "ready" /\ Len(bodies) < MaxSent
      /\ UnchangedReader /\ UNCHANGED open /\ B = Append(bodies, size)
  BY DEF WriteHeader
<1>3. /\ bodies \in Seq(Nat) /\ Len(bodies) \in Nat /\ Len(taken) \in Nat
      /\ Len(returned) \in Nat /\ Len(taken) = Len(bodies)
  BY <1>1, <1>2, BodySizes DEF FramingInv, TakenWereSent
<1>4. /\ B \in Seq(Nat) /\ B \in Seq(0 .. MaxBody) /\ Len(B) = n /\ B[n] = size
      /\ \A i \in 1 .. Len(bodies) : B[i] = bodies[i]
  <2>1. bodies \in Seq(0 .. MaxBody)
    BY <1>1 DEF StreamTypeOK
  <2> QED
    BY <1>1, <1>2, <1>3, <2>1, AppendProperties
<1>5. Continues(B, bodies)
  BY <1>3, <1>4 DEF Continues
<1>6. n \in 1 .. Len(B) /\ n \in Nat /\ LastOf(n, B) = HeaderBytes + size
  BY <1>3, <1>4 DEF LastOf
<1>7. ComesNext(Rest, Cursor, bodies, n, 1)
  BY <1>2 DEF FramingInv, WriterInStep, ReaderInStep
<1>8. PICK to \in 0 .. HeaderBytes :
        /\ Written(n, 1, to)
        /\ to # HeaderBytes => sender' = "failed" /\ UNCHANGED taken
        /\ to = HeaderBytes => /\ sender' = IF size = 0 THEN "ready" ELSE "body"
                               /\ taken' = IF size = 0 THEN Append(taken, << >>) ELSE taken
  <2>1. CASE /\ stream' = stream \o HeaderOf(n)
             /\ sender' = IF size = 0 THEN "ready" ELSE "body"
             /\ taken' = IF size = 0 THEN Append(taken, << >>) ELSE taken
    <3>1. HeaderBytes \in 0 .. HeaderBytes
      BY <1>1
    <3>2. Written(n, 1, HeaderBytes)
      BY <2>1, Zenon DEF Written, HeaderOf
    <3> QED
      BY <2>1, <3>1, <3>2
  <2>2. CASE /\ \E k \in 0 .. HeaderBytes - 1 : stream' = stream \o Bytes(n, 1, k)
             /\ sender' = "failed"
             /\ UNCHANGED taken
    <3>1. PICK k \in 0 .. HeaderBytes - 1 : stream' = stream \o Bytes(n, 1, k)
      BY <2>2
    <3>2. k \in 0 .. HeaderBytes /\ k # HeaderBytes
      BY <1>1
    <3>3. Written(n, 1, k)
      BY <3>1, Zenon DEF Written
    <3> QED
      BY <2>2, <3>2, <3>3
  <2> QED
    BY <2>1, <2>2 DEF WriteHeader
<1> HIDE DEF B, n
<1>9. taken' = IF to = HeaderBytes /\ size = 0 THEN Append(taken, << >>) ELSE taken
  BY <1>8
<1>10. << >> \in Bodies /\ << >> = BodyOf(n, 0)
  <2>1. BodyOf(n, 0) = << >>
    BY <1>1 DEF BodyOf, Bytes
  <2>2. n \in 1 .. MaxSent /\ 0 \in 0 .. MaxBody
    BY <1>1, <1>2, <1>3 DEF n
  <2> QED
    BY <2>1, <2>2 DEF Bodies
<1>11. /\ taken' \in Seq(Bodies) /\ Len(taken') \in Nat /\ Len(taken) <= Len(taken')
       /\ Len(taken') = IF to = HeaderBytes /\ size = 0 THEN n ELSE Len(taken)
       /\ \A i \in 1 .. Len(taken) : taken'[i] = taken[i]
       /\ to = HeaderBytes /\ size = 0 => taken'[n] = << >>
  <2>1. taken \in Seq(Bodies)
    BY <1>1 DEF StreamTypeOK
  <2>2. << >> \in Bodies
    BY <1>10
  <2> HIDE DEF Bodies
  <2>3. /\ Append(taken, << >>) \in Seq(Bodies)
        /\ Len(Append(taken, << >>)) = Len(taken) + 1
        /\ \A i \in 1 .. Len(taken) : Append(taken, << >>)[i] = taken[i]
        /\ Append(taken, << >>)[Len(taken) + 1] = << >>
    BY <2>1, <2>2, AppendProperties
  <2>4. n = Len(taken) + 1
    BY <1>3 DEF n
  <2> QED
    BY <1>3, <1>9, <2>1, <2>3, <2>4
<1>12. /\ 1 \in Nat \ {0} /\ to \in Nat /\ 1 <= to + 1 /\ to <= LastOf(n, B)
       /\ to = LastOf(n, B) /\ 1 <= to => n <= Len(taken')
  BY <1>1, <1>6, <1>8, <1>11
<1>13. /\ stream' \in Seq(ByteRecords) /\ RestInOrder'
       /\ \A n2, a2 : 1 <= to /\ Follows(n, to, B, n2, a2)
                        => ComesNext(Rest', Cursor', B, n2, a2)
  <2> DEFINE one == 1
  <2>1. /\ one \in Nat \ {0} /\ to \in Nat /\ one <= to + 1 /\ to <= LastOf(n, B)
        /\ to = LastOf(n, B) /\ one <= to => n <= Len(taken')
        /\ ComesNext(Rest, Cursor, bodies, n, one) /\ Written(n, one, to)
    BY <1>7, <1>8, <1>12 DEF n
  <2> HIDE DEF one
  <2>2. /\ stream' \in Seq(ByteRecords) /\ RestInOrder'
        /\ \A n2, a2 : one <= to /\ Follows(n, to, B, n2, a2)
                         => ComesNext(Rest', Cursor', B, n2, a2)
    BY <1>2, <1>3, <1>4, <1>5, <1>6, <1>11, <2>1, WriteKeeps DEF B
  <2> QED
    BY <2>2 DEF one
<1>14. StreamTypeOK'
  BY <1>1, <1>2, <1>3, <1>4, <1>8, <1>11, <1>13 DEF StreamTypeOK, UnchangedReader, B, n, ByteRecords
<1>15. TakenWereSent'
  <2>1. Len(B) = IF sender' = "ready" THEN Len(taken') ELSE Len(taken') + 1
    BY <1>3, <1>4, <1>8, <1>11 DEF n
  <2>2. sender' = "body" => B[Len(B)] > 0
    BY <1>1, <1>4, <1>8
  <2>3. ASSUME NEW i \in 1 .. Len(taken')
        PROVE  taken'[i] = BodyOf(i, B[i])
    <3>1. CASE i \in 1 .. Len(taken)
      <4>1. taken[i] = BodyOf(i, bodies[i])
        BY <3>1 DEF FramingInv, TakenWereSent, Body
      <4> QED
        BY <1>3, <1>4, <1>11, <3>1, <4>1
    <3>2. CASE ~(i \in 1 .. Len(taken))
      <4>1. to = HeaderBytes /\ size = 0 /\ i = n
        BY <1>3, <1>11, <3>2 DEF n
      <4> QED
        BY <1>4, <1>10, <1>11, <4>1
    <3> QED
      BY <3>1, <3>2
  <2> QED
    BY <2>1, <2>2, <2>3 DEF TakenWereSent, Body, B
<1>16. ReturnedWereTaken'
  BY <1>2, <1>3, <1>11 DEF FramingInv, ReturnedWereTaken, UnchangedReader
<1>17. ReaderInStep'
  BY <1>2, <1>3, <1>4, <1>11 DEF FramingInv, ReaderInStep, UnchangedReader, Current, B, n
<1>18. WriterInStep'
  <2> SUFFICES ASSUME sender' # "failed"
               PROVE  /\ sender' = "ready" => ComesNext(Rest', Cursor', B, Len(B) + 1, 1)
                      /\ sender' = "body" => ComesNext(Rest', Cursor', B, Len(B), HeaderBytes + 1)
    BY <1>8 DEF WriterInStep, ComesNext, LastOf, B
  <2>1. to = HeaderBytes /\ 1 <= to
    BY <1>1, <1>8
  <2>2. CASE size = 0
    <3>1. Follows(n, to, B, Len(B) + 1, 1)
      BY <1>1, <1>4, <1>6, <2>1, <2>2 DEF Follows
    <3> QED
      BY <1>8, <1>13, <2>1, <2>2, <3>1
  <2>3. CASE size # 0
    <3>1. Follows(n, to, B, Len(B), HeaderBytes + 1)
      BY <1>1, <1>4, <1>6, <2>1, <2>3 DEF Follows
    <3> QED
      BY <1>8, <1>13, <2>1, <2>3, <3>1
  <2> QED
    BY <2>2, <2>3
<1> QED
  BY <1>13, <1>14, <1>15, <1>16, <1>17, <1>18 DEF FramingInv

\* A body is written after its header.
LEMMA WriteBodyKeeps ==
  ASSUME FramingInv, WriteBody
  PROVE  FramingInv'
<1> DEFINE B == bodies'
           n == Len(bodies)
           a == HeaderBytes + 1
           last == LastOf(n, bodies)
<1>1. /\ StreamTypeOK /\ HeaderBytes \in Nat \ {0} /\ MaxSent \in Nat
  BY FramingAssumption DEF FramingInv
<1>2. /\ open /\ sender = "body" /\ UnchangedReader /\ UNCHANGED <<bodies, open>>
  BY DEF WriteBody
<1>3. /\ bodies \in Seq(Nat) /\ n \in Nat /\ Len(taken) \in Nat
      /\ Len(returned) \in Nat /\ n = Len(taken) + 1 /\ n \in 1 .. n
      /\ bodies[n] \in 1 .. MaxBody /\ bodies[n] \in Nat /\ bodies[n] > 0
  BY <1>1, <1>2, BodySizes DEF FramingInv, TakenWereSent
<1>4. last = HeaderBytes + bodies[n] /\ last \in Nat /\ a \in Nat \ {0} /\ a <= last
  BY <1>1, <1>3 DEF LastOf
<1>5. Continues(B, bodies)
  BY <1>2, <1>3 DEF Continues
<1>7. ComesNext(Rest, Cursor, bodies, n, a)
  BY <1>2 DEF FramingInv, WriterInStep, ReaderInStep
<1>8. PICK to \in HeaderBytes .. last :
        /\ Written(n, a, to)
        /\ to # last => sender' = "failed" /\ UNCHANGED taken
        /\ to = last => sender' = "ready" /\ taken' = Append(taken, Body(n))
  <2>1. CASE /\ stream' = stream \o Body(n)
             /\ sender' = "ready"
             /\ taken' = Append(taken, Body(n))
    <3>1. Written(n, a, last) /\ last \in HeaderBytes .. last
      <4>1. Body(n) = Bytes(n, a, last)
        BY DEF Body, BodyOf, LastOf
      <4>2. last \in HeaderBytes .. last
        BY <1>1, <1>4
      <4> QED
        BY <2>1, <4>1, <4>2, Zenon DEF Written
    <3> QED
      BY <2>1, <3>1
  <2>2. CASE /\ \E k \in 0 .. bodies[n] - 1 :
                  stream' = stream \o Bytes(n, HeaderBytes + 1, HeaderBytes + k)
             /\ sender' = "failed"
             /\ UNCHANGED taken
    <3>1. PICK k \in 0 .. bodies[n] - 1 :
                  stream' = stream \o Bytes(n, HeaderBytes + 1, HeaderBytes + k)
      BY <2>2
    <3>2. HeaderBytes + k \in HeaderBytes .. last /\ HeaderBytes + k # last
      BY <1>1, <1>3, <1>4
    <3>3. Written(n, a, HeaderBytes + k)
      BY <3>1, Zenon DEF Written
    <3> QED
      BY <2>2, <3>2, <3>3
  <2> QED
    BY <2>1, <2>2 DEF WriteBody
<1>10. Body(n) \in Bodies /\ Body(n) = BodyOf(n, bodies[n])
  <2>1. n \in 1 .. MaxSent /\ bodies[n] \in 0 .. MaxBody
    BY <1>1, <1>3, FramingAssumption DEF StreamTypeOK
  <2> QED
    BY <2>1 DEF Bodies, Body
<1>11. /\ taken' \in Seq(Bodies) /\ Len(taken') \in Nat /\ Len(taken) <= Len(taken')
       /\ Len(taken') = IF to = last THEN n ELSE Len(taken)
       /\ \A i \in 1 .. Len(taken) : taken'[i] = taken[i]
       /\ to = last => taken'[n] = Body(n)
  <2> DEFINE x == Body(n)
  <2>1. taken \in Seq(Bodies)
    BY <1>1 DEF StreamTypeOK
  <2>2. x \in Bodies
    BY <1>10
  <2>5. taken' = IF to = last THEN Append(taken, x) ELSE taken
    BY <1>8
  <2>6. n = Len(taken) + 1 /\ Len(taken) \in Nat
    BY <1>3
  <2> HIDE DEF Bodies, x, n, last
  <2>3. /\ Append(taken, x) \in Seq(Bodies)
        /\ Len(Append(taken, x)) = Len(taken) + 1
        /\ \A i \in 1 .. Len(taken) : Append(taken, x)[i] = taken[i]
        /\ Append(taken, x)[Len(taken) + 1] = x
    BY <2>1, <2>2, AppendProperties
  <2>7. /\ taken' \in Seq(Bodies) /\ Len(taken') \in Nat /\ Len(taken) <= Len(taken')
        /\ Len(taken') = IF to = last THEN n ELSE Len(taken)
        /\ \A i \in 1 .. Len(taken) : taken'[i] = taken[i]
        /\ to = last => taken'[n] = x
    BY <2>1, <2>3, <2>5, <2>6
  <2> QED
    BY <2>7 DEF x
<1>12. /\ to \in Nat /\ a <= to + 1 /\ to <= last
       /\ to = last /\ a <= to => n <= Len(taken')
  BY <1>1, <1>3, <1>4, <1>8, <1>11
<1>13. /\ stream' \in Seq(ByteRecords) /\ RestInOrder'
       /\ \A n2, a2 : a <= to /\ Follows(n, to, B, n2, a2)
                        => ComesNext(Rest', Cursor', B, n2, a2)
  <2>1. /\ a \in Nat \ {0} /\ to \in Nat /\ a <= to + 1 /\ to <= LastOf(n, B)
        /\ to = LastOf(n, B) /\ a <= to => n <= Len(taken')
        /\ ComesNext(Rest, Cursor, bodies, n, a) /\ Written(n, a, to)
        /\ n \in 1 .. Len(B) /\ B \in Seq(Nat) /\ UNCHANGED open
    BY <1>2, <1>3, <1>4, <1>7, <1>8, <1>12
  <2> HIDE DEF a, n, last
  <2> QED
    BY <1>2, <1>5, <1>11, <2>1, WriteKeeps DEF B
<1> HIDE DEF a, n, last
<1>14. StreamTypeOK'
  BY <1>1, <1>2, <1>3, <1>8, <1>11, <1>13 DEF StreamTypeOK, UnchangedReader, ByteRecords
<1>15. TakenWereSent'
  <2>1. Len(bodies') = IF sender' = "ready" THEN Len(taken') ELSE Len(taken') + 1
    BY <1>2, <1>3, <1>8, <1>11 DEF n
  <2>2. sender' # "body"
    BY <1>8
  <2>3. ASSUME NEW i \in 1 .. Len(taken')
        PROVE  taken'[i] = BodyOf(i, bodies[i])
    <3>1. CASE i \in 1 .. Len(taken)
      <4>1. taken[i] = BodyOf(i, bodies[i])
        BY <3>1 DEF FramingInv, TakenWereSent, Body
      <4> QED
        BY <1>11, <3>1, <4>1
    <3>2. CASE ~(i \in 1 .. Len(taken))
      <4>1. to = last /\ i = n
        BY <1>3, <1>11, <3>2 DEF n
      <4> QED
        BY <1>10, <1>11, <4>1
    <3> QED
      BY <3>1, <3>2
  <2> QED
    BY <1>2, <2>1, <2>2, <2>3 DEF TakenWereSent, Body
<1>16. ReturnedWereTaken'
  BY <1>2, <1>3, <1>11 DEF FramingInv, ReturnedWereTaken, UnchangedReader
<1>17. ReaderInStep'
  BY <1>2, <1>3, <1>11 DEF FramingInv, ReaderInStep, UnchangedReader, Current
<1>18. WriterInStep'
  <2> SUFFICES ASSUME sender' # "failed"
               PROVE  ComesNext(Rest', Cursor', B, n + 1, 1)
    BY <1>2, <1>8 DEF WriterInStep, ComesNext, LastOf, B, n
  <2>1. to = last /\ a <= to
    BY <1>4, <1>8
  <2>2. Follows(n, to, B, n + 1, 1)
    BY <1>2, <2>1 DEF Follows, last
  <2> QED
    BY <1>13, <2>1, <2>2
<1> QED
  BY <1>13, <1>14, <1>15, <1>16, <1>17, <1>18 DEF FramingInv

\* Every step of writer and reader keeps the invariant.
LEMMA StreamStep ==
  ASSUME MaxBody <= MaxFrame, FramingInv, [StreamNext]_streamVars
  PROVE  FramingInv'
<1>1. ASSUME NEW size \in 0 .. MaxBody, WriteHeader(size)
      PROVE  FramingInv'
  BY <1>1, WriteHeaderKeeps
<1>2. CASE WriteBody
  BY <1>2, WriteBodyKeeps
<1>3. CASE Finish
  BY <1>3, FinishKeeps
<1>4. ASSUME NEW n \in 1 .. Wanted, ReadSome(n)
      PROVE  FramingInv'
  BY <1>4, ReadSomeKeeps
<1>5. CASE ReadLength
  BY <1>5, ReadLengthKeeps
<1>6. CASE Return
  BY <1>6, ReturnKeeps
<1>7. CASE ReadFails
  BY <1>7, ReadFailsKeeps
<1>8. CASE UNCHANGED streamVars
  BY <1>8 DEF streamVars, FramingInv, StreamTypeOK, TakenWereSent, ReturnedWereTaken,
              ReaderInStep, RestInOrder, WriterInStep, Body, Rest, Current, Cursor,
              InOrder, SentByte, LastOf, ComesNext
<1> QED
  BY <1>1, <1>2, <1>3, <1>4, <1>5, <1>6, <1>7, <1>8 DEF StreamNext, Read

\* What each step of the stream is to the transport contract.
LEMMA StreamRefines ==
  ASSUME MaxBody <= MaxFrame, FramingInv, [StreamNext]_streamVars
  PROVE  [Channel!Next]_(Channel!vars)
<1>1. StreamTypeOK /\ ReturnedWereTaken
  BY DEF FramingInv
<1>2. ASSUME NEW size \in 0 .. MaxBody, WriteHeader(size)
      PROVE  [Channel!Next]_(Channel!vars)
  <2>1. open /\ Len(bodies) < MaxSent /\ UNCHANGED <<open, returned, reader>>
    BY <1>2 DEF WriteHeader, UnchangedReader
  <2>2. CASE taken' = taken
    BY <2>1, <2>2 DEF Channel!vars
  <2>3. CASE taken' = Append(taken, << >>)
    <3>1. << >> \in Bodies
      <4>1. BodyOf(Len(bodies) + 1, 0) = << >>
        BY FramingAssumption DEF BodyOf, Bytes
      <4>2. Len(bodies) + 1 \in 1 .. MaxSent /\ 0 \in 0 .. MaxBody
        BY <1>1, <2>1, BodySizes, FramingAssumption
      <4> QED
        BY <4>1, <4>2 DEF Bodies
    <3> QED
      BY <2>1, <2>3, <3>1 DEF Channel!Next, Channel!Accept
  <2> QED
    BY <1>2, <2>2, <2>3 DEF WriteHeader
<1>3. CASE WriteBody
  <2>1. open /\ sender = "body" /\ UNCHANGED <<open, returned, reader>>
    BY <1>3 DEF WriteBody, UnchangedReader
  <2>2. CASE taken' = taken
    BY <2>1, <2>2 DEF Channel!vars
  <2>3. CASE taken' = Append(taken, Body(Len(bodies)))
    <3>1. Len(bodies) \in 1 .. MaxSent /\ bodies[Len(bodies)] \in 0 .. MaxBody
      <4>1. Len(bodies) = Len(taken) + 1 /\ Len(bodies) <= MaxSent
        BY <1>1, <2>1 DEF FramingInv, TakenWereSent, StreamTypeOK
      <4>2. Len(bodies) \in 1 .. Len(bodies)
        BY <1>1, <4>1, BodySizes
      <4> QED
        BY <1>1, <4>1, <4>2, BodySizes, FramingAssumption
    <3>2. Body(Len(bodies)) \in Bodies
      BY <3>1 DEF Body, Bodies
    <3> QED
      BY <2>1, <2>3, <3>2 DEF Channel!Next, Channel!Accept
  <2> QED
    BY <1>3, <2>2, <2>3 DEF WriteBody
<1>4. CASE Finish
  BY <1>4 DEF Finish, UnchangedReader, Channel!Next, Channel!Close
<1>5. ASSUME NEW n \in 1 .. Wanted, ReadSome(n)
      PROVE  [Channel!Next]_(Channel!vars)
  BY <1>5 DEF ReadSome, UnchangedSender, Channel!vars
<1>6. CASE ReadLength
  <2>1. Lengths(buf) = {bodies[Current]} /\ Current \in 1 .. Len(bodies)
    BY <1>6, HeaderIsTheFrames DEF ReadLength
  <2>2. bodies[Current] <= MaxFrame
    <3>1. bodies[Current] \in 0 .. MaxBody
      BY <1>1, <2>1, BodySizes
    <3>2. MaxBody \in Nat /\ MaxFrame \in Nat
      BY FramingAssumption
    <3> QED
      BY <3>1, <3>2
  <2>3. PICK size \in Lengths(buf) : reader' = IF size > MaxFrame THEN "stopped" ELSE "body"
    BY <1>6 DEF ReadLength
  <2>4. size = bodies[Current] /\ size \in Nat /\ MaxFrame \in Nat
    BY <1>1, <2>1, <2>3, BodySizes, FramingAssumption
  <2>5. reader = "header" /\ UNCHANGED <<taken, returned, open>>
    BY <1>6 DEF ReadLength, UnchangedSender
  <2>6. reader' = "body"
    BY <2>2, <2>3, <2>4
  <2> QED
    BY <2>5, <2>6 DEF Channel!vars
<1>7. CASE Return
  <2>1. Current <= Len(taken) /\ buf = taken[Current]
    BY <1>7, ReturnsTheNextFrame
  <2>2. /\ returned' = Append(returned, taken[Len(returned) + 1])
        /\ Len(returned) < Len(taken)
    BY <1>1, <1>7, <2>1, BodySizes DEF Return, Current
  <2>3. UNCHANGED <<taken, open>> /\ (reader = "stopped" <=> reader' = "stopped")
    BY <1>7 DEF Return, UnchangedSender
  <2> QED
    BY <2>2, <2>3 DEF Channel!Next, Channel!Deliver
<1>8. CASE ReadFails
  BY <1>8 DEF ReadFails, UnchangedSender, Channel!Next, Channel!End
<1>9. CASE UNCHANGED streamVars
  BY <1>9 DEF streamVars, Channel!vars
<1> QED
  BY <1>2, <1>3, <1>4, <1>5, <1>6, <1>7, <1>8, <1>9 DEF StreamNext, Read

\* A stream starts as an empty frame channel.
LEMMA StreamStarts ==
  ASSUME StreamInit
  PROVE  Channel!Init
BY DEF StreamInit, Channel!Init

\* However the stream is cut into reads and wherever it is cut off, the reader
\* is in step with the writer: the bytes before it are the ones that follow what
\* it has, and the frames it returned are the first ones taken.
THEOREM ReaderStaysInStep ==
  ASSUME MaxBody <= MaxFrame
  PROVE  TransportSpec => []FramingInv
<1>1. TransportInit => FramingInv
  BY FramingInit DEF TransportInit
<1>2. FramingInv /\ [TransportNext]_transportVars => FramingInv'
  <2>1. [TransportNext]_transportVars => [StreamNext]_streamVars
    BY DEF TransportNext, transportVars
  <2> QED
    BY <2>1, StreamStep
<1> QED
  BY <1>1, <1>2, PTL DEF TransportSpec

\* The receiver of io_recv never gives up on a connection that is still open,
\* when no sender is handed a body above the receiver's limit.
THEOREM StoppedOnlyAtTheEnd ==
  ASSUME MaxBody <= MaxFrame
  PROVE  TransportSpec => []EndsOnlyWhenClosed
<1>1. FramingInv => EndsOnlyWhenClosed
  BY DEF FramingInv, ReaderInStep, EndsOnlyWhenClosed
<1> QED
  BY <1>1, ReaderStaysInStep, PTL

\* io_send and io_recv implement the transport contract over any stream that
\* keeps its bytes in order: no frame is torn, shifted, doubled or invented.
THEOREM StreamIsAChannel ==
  ASSUME MaxBody <= MaxFrame
  PROVE  TransportSpec => StreamImplementsFrameChannel
<1>1. TransportInit => Channel!Init
  BY StreamStarts DEF TransportInit
<1>2. FramingInv /\ [TransportNext]_transportVars => [Channel!Next]_(Channel!vars)
  <2>1. [TransportNext]_transportVars => [StreamNext]_streamVars
    BY DEF TransportNext, transportVars
  <2> QED
    BY <2>1, StreamRefines
<1> QED
  BY <1>1, <1>2, ReaderStaysInStep, PTL
     DEF TransportSpec, StreamImplementsFrameChannel, Channel!Spec

\* Whichever functions the table holds, a caller of send and recv sees the
\* channel transport.h promises.
THEOREM EitherIsAChannel ==
  ASSUME MaxBody <= MaxFrame
  PROVE  TransportSpec => EitherImplementsFrameChannel
BY PairIsAChannel, StreamIsAChannel DEF EitherImplementsFrameChannel
=============================================================================
