--------------------------- MODULE McpGateProofs ----------------------------
(* What holds of the MCP server for any set of tools, any number of messages  *)
(* and any number of policy changes.                                          *)
EXTENDS McpGate, SequenceTheorems, TLAPS

Kinds == {"junk", "no method", "ping", "tools/list", "blocked", "approval", "result", "error"}
Replies == [to : Nat, what : Kinds, tools : SUBSET Tools]

Shape == TypeOK /\ out \in Seq(Replies) /\ ran \in Seq(Nat)
\* Only a call that has been handled ran, and a call about to run was confirmed.
RunsWereHandled ==
  \A i \in DOMAIN ran : ran[i] \in Handled /\ sent[ran[i]].kind = "tools/call"
CallIsApproved ==
  at = "dispatch" => (Message.tool \in Writes => Message.confirm)
RecordInv == /\ Shape /\ RepliesMatchRequests /\ RunsWereHandled
             /\ RepliesTellTheTruth /\ CallIsApproved

\* A tool is barred for messages sent, as long as it stays on BLOCK; a call that
\* has passed the policy is not.
BarredAreBlocked ==
  \A b \in barred : /\ b \in (1 .. Len(sent)) \X Tools
                    /\ Current(b[2]) = "BLOCK"
CallIsNotBarred == at = "dispatch" => <<taken, Message.tool>> \notin barred
BarredInv == /\ RecordInv /\ BarredAreBlocked /\ CallIsNotBarred /\ BlockedStaysOut

\* The types of the record, in the form the other lemmas use.
LEMMA RecordFacts ==
  ASSUME Shape
  PROVE  /\ sent \in Seq(Messages) /\ Len(sent) \in Nat /\ taken \in Nat /\ taken <= Len(sent)
         /\ DOMAIN sent = 1 .. Len(sent)
         /\ Len(out) \in Nat /\ DOMAIN out = 1 .. Len(out)
         /\ Len(ran) \in Nat /\ DOMAIN ran = 1 .. Len(ran)
         /\ \A i \in 1 .. Len(out) : out[i] \in Replies /\ out[i].to \in 1 .. taken
         /\ \A i \in 1 .. Len(ran) : ran[i] \in 1 .. taken
         /\ \A k \in 1 .. Len(sent) : sent[k] \in Messages
<1>1. sent \in Seq(Messages) /\ taken \in 0 .. Len(sent)
  BY DEF Shape, TypeOK
<1>2. Len(sent) \in Nat /\ DOMAIN sent = 1 .. Len(sent)
  BY <1>1, LenProperties
<1>3. \A k \in 1 .. Len(sent) : sent[k] \in Messages
  BY <1>1, ElementOfSeq
<1>4. /\ Len(out) \in Nat /\ DOMAIN out = 1 .. Len(out)
      /\ Len(ran) \in Nat /\ DOMAIN ran = 1 .. Len(ran)
  BY LenProperties DEF Shape
<1>5. \A i \in 1 .. Len(out) : out[i] \in Replies
  <2> HIDE DEF Replies
  <2> QED
    BY ElementOfSeq DEF Shape
<1>6. /\ \A i \in DOMAIN out : out[i].to \in 1 .. taken
      /\ \A i \in DOMAIN ran : ran[i] \in 1 .. taken
  BY DEF Shape, TypeOK
<1>7. taken \in Nat /\ taken <= Len(sent)
  BY <1>1, <1>2
<1> HIDE DEF Messages, Replies
<1> QED
  BY <1>1, <1>2, <1>3, <1>4, <1>5, <1>6, <1>7

\* What Reply does to the replies.
LEMMA ReplyGrows ==
  ASSUME out \in Seq(Replies), NEW k \in Nat, NEW what \in Kinds, NEW tools \in SUBSET Tools,
         Reply(k, what, tools)
  PROVE  /\ out' \in Seq(Replies) /\ Len(out) \in Nat /\ DOMAIN out = 1 .. Len(out)
         /\ DOMAIN out' = 1 .. Len(out')
         /\ \A i \in 1 .. Len(out) : out'[i] = out[i]
         /\ ~Answered(sent[k]) => Len(out') = Len(out)
         /\ Answered(sent[k]) => /\ Len(out') = Len(out) + 1
                                 /\ out'[Len(out')].to = k
                                 /\ out'[Len(out')].what = what
                                 /\ out'[Len(out')].tools = tools
<1> DEFINE r == [to |-> k, what |-> what, tools |-> tools]
<1>1. r \in Replies /\ r.to = k /\ r.what = what /\ r.tools = tools
  BY DEF Replies
<1>2. out' = IF Answered(sent[k]) THEN Append(out, r) ELSE out
  BY DEF Reply
<1> HIDE DEF r, Replies
<1>3. /\ Append(out, r) \in Seq(Replies) /\ Len(Append(out, r)) = Len(out) + 1
      /\ \A i \in 1 .. Len(out) : Append(out, r)[i] = out[i]
      /\ Append(out, r)[Len(out) + 1] = r
  BY <1>1, AppendProperties
<1>4. Len(out) \in Nat /\ DOMAIN out = 1 .. Len(out)
  BY LenProperties
<1>5. out' \in Seq(Replies)
  BY <1>2, <1>3
<1>6. DOMAIN out' = 1 .. Len(out')
  BY <1>5, LenProperties
<1> QED
  BY <1>1, <1>2, <1>3, <1>4, <1>5, <1>6

\* Answering the message being handled keeps the replies matched.
LEMMA AnswersTheMessage ==
  ASSUME Shape, RepliesMatchRequests,
         NEW k \in 1 .. Len(sent), Handled = 1 .. k - 1, Handled' = 1 .. k,
         UNCHANGED sent, NEW what \in Kinds, NEW tools \in SUBSET Tools, Reply(k, what, tools)
  PROVE  RepliesMatchRequests'
<1> DEFINE L == Len(out)
           L2 == Len(out')
<1>1. /\ L \in Nat /\ DOMAIN out = 1 .. L /\ k \in Nat /\ DOMAIN out' = 1 .. L2
      /\ \A i \in 1 .. L : out'[i] = out[i] /\ out[i].to \in 1 .. k - 1
      /\ ~Answered(sent[k]) => L2 = L
      /\ Answered(sent[k]) => L2 = L + 1 /\ out'[L2].to = k
  <2>1. k \in Nat /\ out \in Seq(Replies)
    BY RecordFacts DEF Shape
  <2>2. \A i \in DOMAIN out : out[i].to \in 1 .. k - 1
    BY DEF RepliesMatchRequests
  <2> HIDE DEF Answered
  <2> QED
    BY <2>1, <2>2, ReplyGrows
<1> HIDE DEF L, L2
<1>2. Answered(sent[k]) <=> Request(sent[k])
  BY DEF Answered, Request
<1>3. ASSUME NEW i \in DOMAIN out', NEW j \in DOMAIN out', i < j
      PROVE  out'[i].to < out'[j].to
  <2>1. i \in 1 .. L
    BY <1>1, <1>3
  <2>2. CASE j \in 1 .. L
    BY <1>1, <1>3, <2>1, <2>2 DEF RepliesMatchRequests
  <2>3. CASE ~(j \in 1 .. L)
    <3>1. L2 = L + 1
      BY <1>1, <1>3, <2>3
    <3>2. j = L2 /\ out'[j].to = k
      BY <1>1, <1>3, <2>3, <3>1
    <3> QED
      BY <1>1, <2>1, <3>2
  <2> QED
    BY <2>2, <2>3
<1>4. {out'[i].to : i \in DOMAIN out'} = {m \in Handled' : Request(sent[m])}
  <2>1. {out[i].to : i \in 1 .. L} = {m \in 1 .. k - 1 : Request(sent[m])}
    BY <1>1 DEF RepliesMatchRequests
  <2>2. {out'[i].to : i \in 1 .. L} = {m \in 1 .. k - 1 : Request(sent[m])}
    BY <1>1, <2>1
  <2>3. CASE Answered(sent[k])
    <3>1. DOMAIN out' = (1 .. L) \cup {L2} /\ out'[L2].to = k
      BY <1>1, <2>3
    <3>2. {out'[i].to : i \in DOMAIN out'} = {out'[i].to : i \in 1 .. L} \cup {k}
      BY <3>1
    <3>3. {m \in 1 .. k : Request(sent[m])} = {m \in 1 .. k - 1 : Request(sent[m])} \cup {k}
      BY <1>1, <1>2, <2>3
    <3> QED
      BY <2>2, <3>2, <3>3, Zenon
  <2>4. CASE ~Answered(sent[k])
    BY <1>1, <1>2, <2>2, <2>4
  <2> QED
    BY <2>3, <2>4
<1> QED
  BY <1>3, <1>4 DEF RepliesMatchRequests

\* No message, no answer and no tool run at the start.
LEMMA RecordInit ==
  ASSUME Init
  PROVE  BarredInv
<1>1. Shape
  BY McpAssumption DEF Init, Shape, TypeOK
<1>2. Handled = {}
  BY DEF Init, Handled
<1>3. RepliesMatchRequests /\ RunsWereHandled /\ RepliesTellTheTruth /\ CallIsApproved
  BY <1>2 DEF Init, RepliesMatchRequests, RunsWereHandled, RepliesTellTheTruth, CallIsApproved
<1>4. BarredAreBlocked /\ CallIsNotBarred /\ BlockedStaysOut
  BY DEF Init, BarredAreBlocked, CallIsNotBarred, BlockedStaysOut
<1> QED
  BY <1>1, <1>3, <1>4 DEF RecordInv, BarredInv

\* The message being handled is answered, and the server is idle again.  Only
\* a call that passed the gates is told its result, and only that one runs.
Answer(k, what, tools) ==
  /\ at' = "idle" /\ taken' = k /\ UNCHANGED <<sent, table, changes, barred>>
  /\ Reply(k, what, tools)
  /\ \/ what # "result" /\ UNCHANGED ran
     \/ /\ what = "result" /\ ran' = Append(ran, k)
        /\ sent[k].kind = "tools/call" /\ (sent[k].tool \in Writes => sent[k].confirm)

\* One more tool run at the end of the record.
LEMMA RunsGrow ==
  ASSUME NEW s \in Seq(Nat), NEW k \in Nat
  PROVE  /\ Append(s, k) \in Seq(Nat) /\ Len(Append(s, k)) = Len(s) + 1
         /\ \A i \in 1 .. Len(s) : Append(s, k)[i] = s[i]
         /\ Append(s, k)[Len(s) + 1] = k
BY AppendProperties

\* An answer to the message in hand keeps the invariant.
LEMMA AnswerKeeps ==
  ASSUME RecordInv, NEW k \in 1 .. Len(sent), Handled = 1 .. k - 1,
         NEW what \in Kinds, NEW tools \in SUBSET Tools, Answer(k, what, tools)
  PROVE  RecordInv'
<1> DEFINE L == Len(out)
           L2 == Len(out')
           R == Len(ran)
           R2 == Len(ran')
<1>1. /\ Shape /\ sent' = sent /\ taken' = k /\ at' = "idle" /\ Handled' = 1 .. k /\ k \in Nat
      /\ taken \in Nat /\ taken <= k
  <2>1. Shape
    BY DEF RecordInv
  <2>2. k \in Nat /\ taken \in Nat
    BY <2>1, RecordFacts
  <2>3. taken <= k
    BY <2>2 DEF Handled
  <2> QED
    BY <2>1, <2>2, <2>3 DEF Answer, Handled
<1>2. /\ L \in Nat /\ DOMAIN out = 1 .. L /\ DOMAIN out' = 1 .. L2 /\ out' \in Seq(Replies)
      /\ \A i \in 1 .. L : out'[i] = out[i] /\ out[i].to \in 1 .. k - 1
      /\ ~Answered(sent[k]) => L2 = L
      /\ Answered(sent[k]) => /\ L2 = L + 1 /\ out'[L2].to = k
                              /\ out'[L2].what = what /\ out'[L2].tools = tools
  <2>1. out \in Seq(Replies) /\ Reply(k, what, tools)
    BY <1>1 DEF Shape, Answer
  <2>2. \A i \in DOMAIN out : out[i].to \in 1 .. k - 1
    BY DEF RecordInv, RepliesMatchRequests
  <2> HIDE DEF Answered
  <2> QED
    BY <1>1, <2>1, <2>2, ReplyGrows
<1>3. /\ R \in Nat /\ DOMAIN ran = 1 .. R /\ DOMAIN ran' = 1 .. R2 /\ ran' \in Seq(Nat)
      /\ \A i \in 1 .. R : ran'[i] = ran[i] /\ ran[i] \in 1 .. k - 1
      /\ what # "result" => R2 = R
      /\ what = "result" => R2 = R + 1 /\ ran'[R2] = k
  <2>1. ran \in Seq(Nat) /\ R \in Nat /\ DOMAIN ran = 1 .. R
    BY <1>1, LenProperties DEF Shape
  <2>2. \A i \in DOMAIN ran : ran[i] \in 1 .. k - 1
    BY DEF RecordInv, RunsWereHandled
  <2>3. /\ Append(ran, k) \in Seq(Nat) /\ Len(Append(ran, k)) = R + 1
        /\ \A i \in 1 .. R : Append(ran, k)[i] = ran[i]
        /\ Append(ran, k)[R + 1] = k
    <3>1. k \in Nat
      BY <1>1, Zenon
    <3> QED
      BY <2>1, <3>1, RunsGrow
  <2>4. ran' = IF what = "result" THEN Append(ran, k) ELSE ran
    BY DEF Answer
  <2>5. ran' \in Seq(Nat)
    BY <2>1, <2>3, <2>4
  <2>6. DOMAIN ran' = 1 .. R2
    BY <2>5, LenProperties
  <2> QED
    BY <2>1, <2>2, <2>3, <2>4, <2>5, <2>6
<1>4. what = "result" => sent[k].kind = "tools/call" /\ (sent[k].tool \in Writes => sent[k].confirm)
  BY DEF Answer
<1> HIDE DEF L, L2, R, R2, Kinds
<1>5. Shape'
  <2>1. \A i \in DOMAIN out' : out'[i].to \in 1 .. k /\ out'[i].tools \subseteq Tools
    <3>1. \A i \in 1 .. L : out[i].tools \subseteq Tools
      BY <1>1, <1>2 DEF Shape, TypeOK
    <3>2. ASSUME NEW i \in 1 .. L2, ~(i \in 1 .. L)
          PROVE  i = L2 /\ Answered(sent[k])
      BY <1>2, <3>2
    <3> QED
      BY <1>1, <1>2, <3>1, <3>2
  <2>2. \A i \in DOMAIN ran' : ran'[i] \in 1 .. k
    <3>1. ASSUME NEW i \in 1 .. R2, ~(i \in 1 .. R)
          PROVE  i = R2 /\ what = "result"
      BY <1>3, <3>1
    <3> QED
      BY <1>1, <1>3, <3>1
  <2>3. /\ sent' \in Seq(Messages) /\ taken' \in 0 .. Len(sent') /\ at' = "idle"
        /\ table' \in [Tools -> Policies \cup {None}]
    BY <1>1 DEF Shape, TypeOK, Answer
  <2> QED
    BY <1>1, <1>2, <1>3, <2>1, <2>2, <2>3 DEF Shape, TypeOK
<1>6. RepliesMatchRequests'
  BY <1>1, AnswersTheMessage DEF RecordInv, Answer
<1>7. RunsWereHandled'
  <2>1. ASSUME NEW i \in DOMAIN ran'
        PROVE  ran'[i] \in Handled' /\ sent[ran'[i]].kind = "tools/call"
    <3>1. CASE i \in 1 .. R
      BY <1>1, <1>3, <3>1 DEF RecordInv, RunsWereHandled
    <3>2. CASE ~(i \in 1 .. R)
      <4>1. i = R2 /\ what = "result"
        BY <1>3, <3>2
      <4> QED
        BY <1>1, <1>3, <1>4, <4>1
    <3> QED
      BY <3>1, <3>2
  <2> QED
    BY <1>1, <2>1 DEF RunsWereHandled
<1>8. RepliesTellTheTruth'
  <2>0. \A i \in 1 .. R2 : ~(i \in 1 .. R) => i = R2 /\ what = "result"
    BY <1>3
  <2>1. \A i \in DOMAIN ran' : sent[ran'[i]].tool \in Writes => sent[ran'[i]].confirm
    BY <1>3, <1>4, <2>0 DEF RecordInv, RepliesTellTheTruth
  <2>2. ASSUME NEW i \in DOMAIN ran', NEW j \in DOMAIN ran', ran'[i] = ran'[j]
        PROVE  i = j
    <3>1. CASE i \in 1 .. R /\ j \in 1 .. R
      BY <1>3, <2>2, <3>1 DEF RecordInv, RepliesTellTheTruth
    <3>2. CASE i \in 1 .. R /\ ~(j \in 1 .. R)
      BY <1>1, <1>3, <2>0, <2>2, <3>2
    <3>3. CASE ~(i \in 1 .. R) /\ j \in 1 .. R
      BY <1>1, <1>3, <2>0, <2>2, <3>3
    <3>4. CASE ~(i \in 1 .. R) /\ ~(j \in 1 .. R)
      BY <1>3, <2>0, <3>4
    <3> QED
      BY <3>1, <3>2, <3>3, <3>4
  <2>3. ASSUME NEW i \in DOMAIN out'
        PROVE  out'[i].what = "result" <=> \E j \in DOMAIN ran' : ran'[j] = out'[i].to
    <3>1. CASE i \in 1 .. L
      <4>1. out'[i] = out[i] /\ out[i].to # k /\ out[i].to \in 1 .. k - 1
        BY <1>1, <1>2, <3>1
      <4>2. out[i].what = "result" <=> \E j \in 1 .. R : ran[j] = out[i].to
        BY <1>2, <1>3, <3>1 DEF RecordInv, RepliesTellTheTruth
      <4>3. (\E j \in 1 .. R : ran[j] = out[i].to) <=> \E j \in 1 .. R2 : ran'[j] = out[i].to
        <5>1. 1 .. R \subseteq 1 .. R2
          BY <1>3
        <5> QED
          BY <1>3, <2>0, <4>1, <5>1
      <4> QED
        BY <1>3, <4>1, <4>2, <4>3
    <3>2. CASE ~(i \in 1 .. L)
      <4>1. out'[i].to = k /\ out'[i].what = what
        BY <1>2, <3>2
      <4>2. CASE what = "result"
        <5>1. R2 \in DOMAIN ran' /\ ran'[R2] = k
          BY <1>3, <4>2
        <5> QED
          BY <4>1, <4>2, <5>1
      <4>3. CASE what # "result"
        <5>1. \A j \in DOMAIN ran' : ran'[j] # k
          BY <1>1, <1>3, <4>3
        <5> QED
          BY <4>1, <4>3, <5>1
      <4> QED
        BY <4>2, <4>3
    <3> QED
      BY <3>1, <3>2
  <2> QED
    BY <1>1, <2>1, <2>2, <2>3 DEF RepliesTellTheTruth
<1>9. CallIsApproved'
  BY <1>1 DEF CallIsApproved
<1> QED
  BY <1>5, <1>6, <1>7, <1>8, <1>9 DEF RecordInv

\* The client sends, or another process changes a policy: the server's record
\* is what it was.
LEMMA SendKeeps ==
  ASSUME RecordInv, Send
  PROVE  RecordInv'
<1>1. PICK m \in Messages : sent' = Append(sent, m)
  BY DEF Send
<1>2. UNCHANGED <<taken, at, table, changes, out, ran>> /\ Shape
  BY DEF Send, RecordInv
<1>3. /\ sent' \in Seq(Messages) /\ Len(sent') = Len(sent) + 1 /\ Len(sent) \in Nat
      /\ \A k \in 1 .. Len(sent) : sent'[k] = sent[k]
  <2>1. sent \in Seq(Messages) /\ Len(sent) \in Nat
    BY <1>2, RecordFacts
  <2> HIDE DEF Messages
  <2> QED
    BY <1>1, <2>1, AppendProperties
<1>4. taken \in Nat /\ taken <= Len(sent) /\ DOMAIN ran = 1 .. Len(ran) /\ DOMAIN out = 1 .. Len(out)
  BY <1>2, RecordFacts
<1>5. /\ \A i \in DOMAIN out : out[i].to \in 1 .. taken
      /\ \A i \in DOMAIN ran : ran[i] \in 1 .. taken
  BY <1>2 DEF Shape, TypeOK
<1>6. /\ \A i \in DOMAIN ran : sent'[ran[i]] = sent[ran[i]]
      /\ at # "idle" => Message' = Message
      /\ Handled' = Handled /\ \A k \in Handled : sent'[k] = sent[k]
  <2>1. at # "idle" => taken \in 1 .. Len(sent)
    BY <1>2, <1>4 DEF Shape, TypeOK
  <2>2. Handled \subseteq 1 .. Len(sent)
    BY <1>3, <1>4 DEF Handled
  <2> QED
    BY <1>2, <1>3, <1>4, <1>5, <2>1, <2>2 DEF Message, Handled
<1>7. Shape'
  BY <1>2, <1>3, <1>4, <1>6 DEF Shape, TypeOK
<1>8. RepliesMatchRequests' /\ RunsWereHandled' /\ RepliesTellTheTruth' /\ CallIsApproved'
  BY <1>2, <1>6 DEF RecordInv, RepliesMatchRequests, RunsWereHandled, RepliesTellTheTruth,
                    CallIsApproved, Request
<1> QED
  BY <1>7, <1>8 DEF RecordInv

\* A change of policy by the app keeps the invariant.
LEMMA SetPolicyKeeps ==
  ASSUME RecordInv, SetPolicy
  PROVE  RecordInv'
<1>1. UNCHANGED <<sent, taken, at, out, ran>>
  BY DEF SetPolicy
<1>2. table' \in [Tools -> Policies \cup {None}]
  BY DEF SetPolicy, Settable, RecordInv, Shape, TypeOK
<1> QED
  BY <1>1, <1>2 DEF RecordInv, Shape, TypeOK, RepliesMatchRequests, RunsWereHandled,
     RepliesTellTheTruth, CallIsApproved, Handled, Message

\* A read ends with the answer, but for a call, which goes to the gate.
LEMMA ReadSteps ==
  ASSUME Shape, Read
  PROVE  \/ /\ sent[taken + 1].kind = "tools/call" /\ taken' = taken + 1 /\ at' = "gate"
            /\ UNCHANGED <<sent, table, changes, barred, out, ran>>
         \/ \E what \in {"junk", "no method", "ping"} : Answer(taken + 1, what, {})
         \/ \E chosen \in [Tools -> Policies] :
              /\ \A t \in Tools : chosen[t] \in ReadPolicy(t)
              /\ Answer(taken + 1, "tools/list", Listed(chosen))
<1>1. /\ at = "idle" /\ taken < Len(sent) /\ taken' = taken + 1
      /\ at' = IF sent[taken + 1].kind = "tools/call" THEN "gate" ELSE "idle"
      /\ UNCHANGED <<sent, table, changes, barred, ran>>
  BY DEF Read
<1>2. sent[taken + 1] \in Messages
  BY <1>1, RecordFacts
<1>3. sent[taken + 1].kind \in {"junk", "no method", "ping", "tools/list", "tools/call"}
  BY <1>2 DEF Messages
<1>4. CASE at' = "gate" /\ UNCHANGED out
  BY <1>1, <1>4
<1>5. CASE /\ at' = "idle" /\ sent[taken + 1].kind # "tools/list"
           /\ Reply(taken + 1, sent[taken + 1].kind, {})
  BY <1>1, <1>3, <1>5 DEF Answer
<1>6. CASE /\ sent[taken + 1].kind = "tools/list"
           /\ \E chosen \in [Tools -> Policies] :
                /\ \A t \in Tools : chosen[t] \in ReadPolicy(t)
                /\ Reply(taken + 1, "tools/list", Listed(chosen))
  BY <1>1, <1>6 DEF Answer
<1> QED
  BY <1>4, <1>5, <1>6 DEF Read

\* The gate refuses, asks for confirmation, or lets a call through.
LEMMA GateSteps ==
  ASSUME Shape, Gate
  PROVE  /\ at = "gate" /\ Message.tool \in Tools
         /\ \/ \E what \in {"blocked", "approval"} : Answer(taken, what, {})
            \/ /\ at' = "dispatch" /\ UNCHANGED <<sent, taken, table, changes, barred, out, ran>>
               /\ Message.tool \in Writes => Message.confirm
               /\ \E policy \in ReadPolicy(Message.tool) : policy # "BLOCK"
<1>1. /\ at = "gate" /\ UNCHANGED <<sent, taken, table, changes, barred, ran>>
      /\ Message.kind = "tools/call" /\ Message \in Messages
  BY RecordFacts DEF Gate, Shape, TypeOK, Message
<1>2. PICK policy \in ReadPolicy(Message.tool) :
        \/ policy = "BLOCK" /\ Reply(taken, "blocked", {}) /\ at' = "idle"
        \/ /\ policy # "BLOCK" /\ NeedsApproval(Message, policy)
           /\ Reply(taken, "approval", {}) /\ at' = "idle"
        \/ /\ policy # "BLOCK" /\ ~NeedsApproval(Message, policy)
           /\ at' = "dispatch" /\ UNCHANGED out
  BY DEF Gate
<1>3. Message.tool \in Tools
  BY <1>1 DEF Messages
<1> QED
  BY <1>1, <1>2, <1>3 DEF Answer, NeedsApproval

\* A call that was let through is answered with its tool's result or an error.
LEMMA DispatchSteps ==
  ASSUME RecordInv, Dispatch
  PROVE  /\ at = "dispatch" /\ Message.tool \in Tools
         /\ Answer(taken, "result", {Message.tool}) \/ Answer(taken, "error", {})
<1>1. /\ at = "dispatch" /\ at' = "idle" /\ UNCHANGED <<sent, taken, table, changes, barred>>
      /\ Message.kind = "tools/call" /\ Message \in Messages
      /\ Message.tool \in Writes => Message.confirm
  BY RecordFacts DEF Dispatch, RecordInv, Shape, TypeOK, Message, CallIsApproved
<1>2. Message.tool \in Tools
  BY <1>1 DEF Messages
<1> QED
  BY <1>1, <1>2 DEF Dispatch, Answer, Message

\* Which messages have been handled, while one is and before it is read.
LEMMA HandledSoFar ==
  ASSUME Shape
  PROVE  /\ at = "idle" /\ taken < Len(sent)
              => \E k \in 1 .. Len(sent) : k = taken + 1 /\ Handled = 1 .. k - 1
         /\ at # "idle" => taken \in 1 .. Len(sent) /\ Handled = 1 .. taken - 1
<1>1. taken \in Nat /\ Len(sent) \in Nat /\ taken <= Len(sent) /\ (at # "idle" => taken > 0)
  BY RecordFacts DEF Shape, TypeOK
<1>2. ASSUME at = "idle", taken < Len(sent)
      PROVE  \E k \in 1 .. Len(sent) : k = taken + 1 /\ Handled = 1 .. k - 1
  <2>1. PICK k \in Nat : k = taken + 1
    BY <1>1
  <2>2. k \in 1 .. Len(sent) /\ k - 1 = taken
    BY <1>1, <1>2, <2>1
  <2> QED
    BY <1>2, <2>1, <2>2 DEF Handled
<1> QED
  BY <1>1, <1>2 DEF Handled

\* Every step of the server and its client keeps the invariant.
LEMMA RecordStep ==
  ASSUME RecordInv, [Next]_vars
  PROVE  RecordInv'
<1>1. Shape
  BY DEF RecordInv
<1>2. CASE Send
  BY <1>2, SendKeeps
<1>3. CASE SetPolicy
  BY <1>3, SetPolicyKeeps
<1>4. CASE Read
  <2>1. at = "idle" /\ taken < Len(sent)
    BY <1>4 DEF Read
  <2>2. PICK k \in 1 .. Len(sent) : k = taken + 1 /\ Handled = 1 .. k - 1
    BY <1>1, <2>1, HandledSoFar
  <2>3. CASE /\ sent[k].kind = "tools/call" /\ taken' = k /\ at' = "gate"
             /\ UNCHANGED <<sent, table, changes, barred, out, ran>>
    <3>1. Handled' = Handled /\ taken \in Nat
      BY <1>1, <2>1, <2>2, <2>3, RecordFacts DEF Handled
    <3>2. Shape'
      BY <1>1, <2>2, <2>3, <3>1, RecordFacts DEF Shape, TypeOK, Message
    <3> QED
      BY <2>3, <3>1, <3>2 DEF RecordInv, RepliesMatchRequests, RunsWereHandled,
         RepliesTellTheTruth, CallIsApproved
  <2>4. ASSUME NEW what \in {"junk", "no method", "ping"}, Answer(k, what, {})
        PROVE  RecordInv'
    <3>1. what \in Kinds /\ {} \in SUBSET Tools
      BY DEF Kinds
    <3> QED
      BY <2>2, <2>4, <3>1, AnswerKeeps
  <2>5. ASSUME NEW chosen \in [Tools -> Policies], Answer(k, "tools/list", Listed(chosen))
        PROVE  RecordInv'
    <3>1. Listed(chosen) \in SUBSET Tools /\ "tools/list" \in Kinds
      BY DEF Listed, Kinds
    <3> QED
      BY <2>2, <2>5, <3>1, AnswerKeeps
  <2> QED
    BY <1>1, <1>4, <2>2, <2>3, <2>4, <2>5, ReadSteps
<1>5. CASE Gate
  <2>1. at = "gate"
    BY <1>5 DEF Gate
  <2>2. taken \in 1 .. Len(sent) /\ Handled = 1 .. taken - 1
    BY <1>1, <2>1, HandledSoFar
  <2>3. ASSUME NEW what \in {"blocked", "approval"}, Answer(taken, what, {})
        PROVE  RecordInv'
    <3>1. what \in Kinds /\ {} \in SUBSET Tools
      BY DEF Kinds
    <3> QED
      BY <2>2, <2>3, <3>1, AnswerKeeps
  <2>4. CASE /\ at' = "dispatch" /\ UNCHANGED <<sent, taken, table, changes, barred, out, ran>>
             /\ Message.tool \in Writes => Message.confirm
    <3>1. Handled' = Handled /\ Message' = Message
      BY <2>1, <2>4 DEF Handled, Message
    <3>2. Shape'
      BY <1>1, <2>1, <2>4, <3>1 DEF Shape, TypeOK
    <3> QED
      BY <2>4, <3>1, <3>2 DEF RecordInv, RepliesMatchRequests, RunsWereHandled,
         RepliesTellTheTruth, CallIsApproved
  <2> QED
    BY <1>1, <1>5, <2>3, <2>4, GateSteps
<1>6. CASE Dispatch
  <2>1. taken \in 1 .. Len(sent) /\ Handled = 1 .. taken - 1
    BY <1>1, <1>6, HandledSoFar DEF Dispatch
  <2>2. Message.tool \in Tools /\ {Message.tool} \in SUBSET Tools
    BY <1>6, DispatchSteps
  <2>3. ASSUME Answer(taken, "result", {Message.tool})
        PROVE  RecordInv'
    <3>1. "result" \in Kinds
      BY DEF Kinds
    <3> QED
      BY <2>1, <2>2, <2>3, <3>1, AnswerKeeps
  <2>4. ASSUME Answer(taken, "error", {})
        PROVE  RecordInv'
    <3>1. "error" \in Kinds /\ {} \in SUBSET Tools
      BY DEF Kinds
    <3> QED
      BY <2>1, <2>4, <3>1, AnswerKeeps
  <2> QED
    BY <1>6, <2>3, <2>4, DispatchSteps
<1>7. CASE UNCHANGED vars
  BY <1>7 DEF vars, RecordInv, Shape, TypeOK, RepliesMatchRequests, RunsWereHandled,
     RepliesTellTheTruth, CallIsApproved, Handled, Message
<1> QED
  BY <1>2, <1>3, <1>4, <1>5, <1>6, <1>7 DEF Next, Server

\* The invariant of the server's record.
THEOREM RecordInvariance == Spec => []RecordInv
<1>1. Init => RecordInv
  BY RecordInit DEF BarredInv
<1> QED
  BY <1>1, RecordStep, PTL DEF Spec

\* Every request handled has its one reply, in the order sent, no notification
\* has one, and a reply tells what was done, for any number of messages.
THEOREM RepliesAreTrue == Spec => []RepliesConsistent
<1>1. RecordInv => RepliesConsistent
  BY DEF RecordInv, Shape, RepliesConsistent
<1> QED
  BY <1>1, RecordInvariance, PTL
-----------------------------------------------------------------------------
\* An answer to a message for which no tool it runs or lists is barred.
LEMMA AnswerStaysBarred ==
  ASSUME BarredInv, NEW k \in 1 .. Len(sent), Handled = 1 .. k - 1,
         NEW what \in Kinds, NEW tools \in SUBSET Tools, Answer(k, what, tools),
         \A t \in tools : <<k, t>> \notin barred,
         what = "result" => <<k, sent[k].tool>> \notin barred
  PROVE  BarredAreBlocked' /\ CallIsNotBarred' /\ BlockedStaysOut'
<1>1. /\ at' = "idle" /\ UNCHANGED <<sent, table, barred>>
      /\ out \in Seq(Replies) /\ ran \in Seq(Nat) /\ Reply(k, what, tools)
      /\ ran' = IF what = "result" THEN Append(ran, k) ELSE ran
  BY DEF Answer, BarredInv, RecordInv, Shape
<1>2. k \in Nat
  BY RecordFacts DEF BarredInv, RecordInv
<1>3. BarredAreBlocked' /\ CallIsNotBarred'
  BY <1>1 DEF BarredInv, BarredAreBlocked, CallIsNotBarred, Current, Default
<1>4. ASSUME NEW i \in DOMAIN ran'
      PROVE  <<ran'[i], sent[ran'[i]].tool>> \notin barred
  <2>1. \A j \in 1 .. Len(ran) : <<ran[j], sent[ran[j]].tool>> \notin barred
    BY <1>1, LenProperties DEF BarredInv, BlockedStaysOut
  <2>2. CASE what # "result"
    BY <1>1, <2>1, <2>2, LenProperties
  <2>3. CASE what = "result"
    <3>1. /\ ran' \in Seq(Nat) /\ Len(ran') = Len(ran) + 1
          /\ \A j \in 1 .. Len(ran) : ran'[j] = ran[j]
          /\ ran'[Len(ran) + 1] = k
      BY <1>1, <1>2, <2>3, RunsGrow
    <3>2. Len(ran) \in Nat /\ DOMAIN ran' = 1 .. Len(ran')
      BY <1>1, <3>1, LenProperties
    <3>3. i \in 1 .. Len(ran) \/ i = Len(ran) + 1
      BY <3>1, <3>2
    <3> QED
      BY <2>1, <2>3, <3>1, <3>3
  <2> QED
    BY <2>2, <2>3
<1>5. ASSUME NEW i \in DOMAIN out', NEW t \in out'[i].tools
      PROVE  <<out'[i].to, t>> \notin barred
  <2>1. /\ Len(out) \in Nat /\ DOMAIN out = 1 .. Len(out) /\ DOMAIN out' = 1 .. Len(out')
        /\ \A j \in 1 .. Len(out) : out'[j] = out[j]
        /\ ~Answered(sent[k]) => Len(out') = Len(out)
        /\ Answered(sent[k]) => /\ Len(out') = Len(out) + 1
                                /\ out'[Len(out')].to = k
                                /\ out'[Len(out')].tools = tools
    <3> HIDE DEF Answered
    <3> QED
      BY <1>1, <1>2, ReplyGrows
  <2>2. CASE i \in 1 .. Len(out)
    <3>1. out'[i] = out[i] /\ i \in DOMAIN out /\ t \in out[i].tools
      BY <2>1, <2>2, <1>5
    <3>2. t \in Tools
      BY <3>1 DEF BarredInv, RecordInv, Shape, TypeOK
    <3> QED
      BY <3>1, <3>2 DEF BarredInv, BlockedStaysOut
  <2>3. CASE ~(i \in 1 .. Len(out))
    <3> DEFINE L == Len(out)
               L2 == Len(out')
    <3>1. L \in Nat /\ i \in 1 .. L2 /\ ~(i \in 1 .. L)
      BY <2>1, <2>3
    <3>2. (~Answered(sent[k]) => L2 = L) /\ (Answered(sent[k]) => L2 = L + 1)
      BY <2>1
    <3> HIDE DEF L, L2, Answered
    <3>3. i = L2 /\ Answered(sent[k])
      BY <3>1, <3>2
    <3> QED
      BY <1>5, <2>1, <3>3 DEF L2
  <2> QED
    BY <2>2, <2>3
<1>6. BlockedStaysOut'
  BY <1>1, <1>4, <1>5 DEF BlockedStaysOut
<1> QED
  BY <1>3, <1>6

\* A message that is sent does not unblock a tool.
LEMMA SendStaysBarred ==
  ASSUME BarredInv, Send
  PROVE  BarredAreBlocked' /\ CallIsNotBarred' /\ BlockedStaysOut'
<1>1. /\ sent' \in {Append(sent, m) : m \in Messages}
      /\ barred' = barred \cup {<<Len(sent'), t>> : t \in {u \in Tools : Current(u) = "BLOCK"}}
      /\ UNCHANGED <<taken, at, table, changes, out, ran>> /\ Shape
  BY DEF Send, BarredInv, RecordInv
<1>2. /\ Len(sent') = Len(sent) + 1 /\ Len(sent) \in Nat
      /\ \A k \in 1 .. Len(sent) : sent'[k] = sent[k]
  <2>1. sent \in Seq(Messages) /\ Len(sent) \in Nat
    BY <1>1, RecordFacts
  <2>2. PICK m \in Messages : sent' = Append(sent, m)
    BY <1>1
  <2> HIDE DEF Messages
  <2> QED
    BY <2>1, <2>2, AppendProperties
<1>3. /\ taken \in Nat /\ taken <= Len(sent)
      /\ \A i \in DOMAIN out : out[i].to \in 1 .. taken
      /\ \A i \in DOMAIN ran : ran[i] \in 1 .. taken
      /\ at # "idle" => taken > 0
  BY <1>1, RecordFacts DEF Shape, TypeOK
\* The new pairs are of the new message.
<1>4. /\ \A b \in barred' : b \in barred \/ b[1] = Len(sent) + 1
      /\ barred \subseteq barred'
  BY <1>1, <1>2
<1>5. BarredAreBlocked'
  <2>1. ASSUME NEW b \in barred'
        PROVE  b \in (1 .. Len(sent')) \X Tools /\ Current(b[2]) = "BLOCK"
    <3>1. CASE b \in barred
      <4>1. b \in (1 .. Len(sent)) \X Tools /\ Current(b[2]) = "BLOCK"
        BY <3>1 DEF BarredInv, BarredAreBlocked
      <4>2. 1 .. Len(sent) \subseteq 1 .. Len(sent')
        BY <1>2
      <4> QED
        BY <4>1, <4>2
    <3>2. CASE b \notin barred
      <4>1. PICK t \in Tools : b = <<Len(sent'), t>> /\ Current(t) = "BLOCK"
        BY <1>1, <3>2
      <4>2. Len(sent') \in 1 .. Len(sent')
        BY <1>2
      <4> QED
        BY <4>1, <4>2
    <3> QED
      BY <3>1, <3>2
  <2> QED
    BY <1>1, <2>1 DEF BarredAreBlocked, Current
<1>6. ASSUME NEW k \in 1 .. taken, NEW t
      PROVE  <<k, t>> \in barred' <=> <<k, t>> \in barred
  <2>1. k # Len(sent) + 1
    BY <1>2, <1>3
  <2> QED
    BY <1>4, <2>1
<1>7. CallIsNotBarred'
  <2>1. at = "dispatch" => taken \in 1 .. taken /\ sent'[taken] = sent[taken]
    BY <1>2, <1>3
  <2> QED
    BY <1>1, <1>6, <2>1 DEF BarredInv, CallIsNotBarred, Message
<1>8. BlockedStaysOut'
  <2>1. \A i \in DOMAIN ran : ran[i] \in 1 .. taken /\ sent'[ran[i]] = sent[ran[i]]
    BY <1>2, <1>3
  <2> QED
    BY <1>1, <1>3, <1>6, <2>1 DEF BarredInv, BlockedStaysOut
<1> QED
  BY <1>5, <1>7, <1>8

\* A change of policy bars exactly what it blocks.
LEMMA SetPolicyStaysBarred ==
  ASSUME BarredInv, SetPolicy
  PROVE  BarredAreBlocked' /\ CallIsNotBarred' /\ BlockedStaysOut'
<1>1. PICK t \in Tools, p \in Policies :
        /\ table' = [table EXCEPT ![t] = p]
        /\ barred' = IF p = "BLOCK" THEN barred ELSE {b \in barred : b[2] # t}
  BY DEF SetPolicy, Settable
<1>2. UNCHANGED <<sent, taken, at, out, ran>> /\ barred' \subseteq barred
  BY <1>1 DEF SetPolicy
<1>3. ASSUME NEW b \in barred'
      PROVE  (b \in (1 .. Len(sent)) \X Tools /\ Current(b[2]) = "BLOCK")'
  <2>1. b \in (1 .. Len(sent)) \X Tools /\ Current(b[2]) = "BLOCK"
    BY <1>2 DEF BarredInv, BarredAreBlocked
  <2>2. table \in [Tools -> Policies \cup {None}]
    BY DEF BarredInv, RecordInv, Shape, TypeOK
  <2>3. b[2] \in Tools
    BY <2>1
  <2>4. CASE b[2] = t
    BY <1>1, <1>2, <2>1, <2>2, <2>3, <2>4, McpAssumption DEF Current
  <2>5. CASE b[2] # t
    BY <1>1, <1>2, <2>1, <2>2, <2>3, <2>5 DEF Current, Default
  <2> QED
    BY <2>4, <2>5
<1>4. CallIsNotBarred' /\ BlockedStaysOut'
  BY <1>2 DEF BarredInv, CallIsNotBarred, BlockedStaysOut, Message
<1> QED
  BY <1>3, <1>4 DEF BarredAreBlocked

\* Without read faults, the policy read is the one in force, and a tool in force
\* as PERMIT or ASK is barred for no message.
LEMMA ReadIsCurrent ==
  ASSUME ReadFaults = FALSE, BarredInv, NEW t \in Tools, NEW policy \in ReadPolicy(t),
         policy # "BLOCK", NEW k
  PROVE  <<k, t>> \notin barred
<1>1. policy = Current(t)
  BY DEF ReadPolicy
<1>2. \A b \in barred : Current(b[2]) = "BLOCK"
  BY DEF BarredInv, BarredAreBlocked
<1>3. <<k, t>>[2] = t
  OBVIOUS
<1> QED
  BY <1>1, <1>2, <1>3

\* Every step keeps blocked tools out when policies can be read.
LEMMA BarredStep ==
  ASSUME ReadFaults = FALSE, BarredInv, [Next]_vars
  PROVE  BarredInv'
<1>1. RecordInv /\ Shape /\ RecordInv'
  BY RecordStep DEF BarredInv, RecordInv
<1> SUFFICES BarredAreBlocked' /\ CallIsNotBarred' /\ BlockedStaysOut'
  BY <1>1 DEF BarredInv
<1>2. CASE Send
  BY <1>2, SendStaysBarred
<1>3. CASE SetPolicy
  BY <1>3, SetPolicyStaysBarred
<1>4. CASE Read
  <2>1. at = "idle" /\ taken < Len(sent)
    BY <1>4 DEF Read
  <2>2. PICK k \in 1 .. Len(sent) : k = taken + 1 /\ Handled = 1 .. k - 1
    BY <1>1, <2>1, HandledSoFar
  <2>3. CASE /\ sent[k].kind = "tools/call" /\ taken' = k /\ at' = "gate"
             /\ UNCHANGED <<sent, table, changes, barred, out, ran>>
    BY <2>3 DEF BarredInv, BarredAreBlocked, CallIsNotBarred, BlockedStaysOut, Current, Default
  <2>4. ASSUME NEW what \in {"junk", "no method", "ping"}, Answer(k, what, {})
        PROVE  BarredAreBlocked' /\ CallIsNotBarred' /\ BlockedStaysOut'
    <3>1. what \in Kinds /\ {} \in SUBSET Tools /\ what # "result"
      BY DEF Kinds
    <3> QED
      BY <2>2, <2>4, <3>1, AnswerStaysBarred
  <2>5. ASSUME NEW chosen \in [Tools -> Policies], Answer(k, "tools/list", Listed(chosen)),
               \A t \in Tools : chosen[t] \in ReadPolicy(t)
        PROVE  BarredAreBlocked' /\ CallIsNotBarred' /\ BlockedStaysOut'
    <3>1. Listed(chosen) \in SUBSET Tools /\ "tools/list" \in Kinds
      BY DEF Listed, Kinds
    <3>2. \A t \in Listed(chosen) : <<k, t>> \notin barred
      BY <2>5, ReadIsCurrent DEF Listed
    <3> QED
      BY <2>2, <2>5, <3>1, <3>2, AnswerStaysBarred
  <2> QED
    BY <1>1, <1>4, <2>2, <2>3, <2>4, <2>5, ReadSteps
<1>5. CASE Gate
  <2>1. at = "gate" /\ Message.tool \in Tools
    BY <1>1, <1>5, GateSteps
  <2>2. taken \in 1 .. Len(sent) /\ Handled = 1 .. taken - 1
    BY <1>1, <2>1, HandledSoFar
  <2>3. ASSUME NEW what \in {"blocked", "approval"}, Answer(taken, what, {})
        PROVE  BarredAreBlocked' /\ CallIsNotBarred' /\ BlockedStaysOut'
    <3>1. what \in Kinds /\ {} \in SUBSET Tools /\ what # "result"
      BY DEF Kinds
    <3> QED
      BY <2>2, <2>3, <3>1, AnswerStaysBarred
  <2>4. ASSUME at' = "dispatch", UNCHANGED <<sent, taken, table, changes, barred, out, ran>>,
               NEW policy \in ReadPolicy(Message.tool), policy # "BLOCK"
        PROVE  BarredAreBlocked' /\ CallIsNotBarred' /\ BlockedStaysOut'
    <3>1. <<taken, Message.tool>> \notin barred
      BY <2>1, <2>4, ReadIsCurrent
    <3> QED
      BY <2>4, <3>1 DEF BarredInv, BarredAreBlocked, CallIsNotBarred, BlockedStaysOut,
         Current, Default, Message
  <2> QED
    BY <1>1, <1>5, <2>3, <2>4, GateSteps
<1>6. CASE Dispatch
  <2>1. taken \in 1 .. Len(sent) /\ Handled = 1 .. taken - 1
    BY <1>1, <1>6, HandledSoFar DEF Dispatch
  <2>2. Message.tool \in Tools /\ {Message.tool} \in SUBSET Tools /\ at = "dispatch"
    BY <1>1, <1>6, DispatchSteps
  <2>3. <<taken, sent[taken].tool>> \notin barred
    BY <2>2 DEF BarredInv, CallIsNotBarred, Message
  <2>4. ASSUME Answer(taken, "result", {Message.tool})
        PROVE  BarredAreBlocked' /\ CallIsNotBarred' /\ BlockedStaysOut'
    <3>1. "result" \in Kinds /\ \A t \in {Message.tool} : <<taken, t>> \notin barred
      BY <2>3 DEF Kinds, Message
    <3> QED
      BY <2>1, <2>2, <2>3, <2>4, <3>1, AnswerStaysBarred
  <2>5. ASSUME Answer(taken, "error", {})
        PROVE  BarredAreBlocked' /\ CallIsNotBarred' /\ BlockedStaysOut'
    <3>1. "error" \in Kinds /\ {} \in SUBSET Tools
      BY DEF Kinds
    <3> QED
      BY <2>1, <2>5, <3>1, AnswerStaysBarred
  <2> QED
    BY <1>1, <1>6, <2>4, <2>5, DispatchSteps
<1>7. CASE UNCHANGED vars
  BY <1>7 DEF vars, BarredInv, BarredAreBlocked, CallIsNotBarred, BlockedStaysOut,
     Current, Default, Message
<1> QED
  BY <1>2, <1>3, <1>4, <1>5, <1>6, <1>7 DEF Next, Server

\* A tool put on BLOCK before a message was sent is neither run nor listed for
\* it, whatever changes of policy fall between the server's steps, as long as
\* the book answers the query for a policy.
THEOREM BlockIsKept ==
  ASSUME ReadFaults = FALSE
  PROVE  Spec => []BlockedStaysOut
<1>1. Init => BarredInv
  BY RecordInit
<1>2. BarredInv => BlockedStaysOut
  BY DEF BarredInv
<1> QED
  BY <1>1, <1>2, BarredStep, PTL DEF Spec
=============================================================================
