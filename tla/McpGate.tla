------------------------------ MODULE McpGate -------------------------------
(* The stdio MCP server: mcpd reads one message at a time, mb_mcp_handle       *)
(* answers it.  A tools/call passes two gates, the tool's policy in the book   *)
(* and, for a tool that writes, the caller's confirm=true, before it reaches   *)
(* the engine.  Another process of the same book may change the policy.        *)
EXTENDS Integers, Sequences, FiniteSets

CONSTANTS Tools,
          Writes,        \* the tools that change the book
          None,
          MaxMessages,   \* bound: messages the client sends
          MaxChanges,    \* bound: policy changes
          ReadFaults     \* TRUE: the query for a policy may fail
Policies == {"PERMIT", "ASK", "BLOCK"}
ASSUME McpAssumption ==
  /\ Writes \subseteq Tools
  /\ None \notin Policies
  /\ {MaxMessages, MaxChanges} \subseteq Nat
  /\ ReadFaults \in BOOLEAN

Messages ==
  [kind : {"junk"}, tool : {None}, confirm : {FALSE}, id : {FALSE}] \cup
  [kind : {"no method", "ping", "tools/list"}, tool : {None}, confirm : {FALSE}, id : BOOLEAN] \cup
  [kind : {"tools/call"}, tool : Tools, confirm : BOOLEAN, id : BOOLEAN]

VARIABLES sent,     \* every message of the client, in order
          taken,    \* how many of them the server has read
          at,       \* the server: idle, gate, dispatch
          table,    \* tool_permission: a policy, or None where there is no row
          changes,  \* policy changes so far
          barred,   \* <<k, t>>: t has been on BLOCK ever since message k was sent
          out,      \* the replies, in order
          ran       \* the tool calls the engine carried out, in order
vars == <<sent, taken, at, table, changes, barred, out, ran>>

Init == /\ sent = << >> /\ taken = 0 /\ at = "idle"
        /\ table = [t \in Tools |-> None] /\ changes = 0 /\ barred = {}
        /\ out = << >> /\ ran = << >>

Default(t) == IF t \in Writes THEN "ASK" ELSE "PERMIT"
Current(t) == IF table[t] = None THEN Default(t) ELSE table[t]

\* slip: the defaults, whatever the book says.
ReadPolicyDefault(t) == {Default(t)}
\* tool_policy: the row's value; the default where there is none or no answer.
ReadPolicy(t) == {Current(t)} \cup (IF ReadFaults THEN {Default(t)} ELSE {})
-----------------------------------------------------------------------------
(* The client, and another process of the book *)

Send == /\ Len(sent) < MaxMessages
        /\ sent' \in {Append(sent, m) : m \in Messages}
        /\ barred' = barred \cup {<<Len(sent'), t>> : t \in {u \in Tools : Current(u) = "BLOCK"}}
        /\ UNCHANGED <<taken, at, table, changes, out, ran>>

Settable == Policies

\* mb_mcp_set_policy.
SetPolicy == /\ changes < MaxChanges
             /\ \E t \in Tools, p \in Settable :
                  /\ table' = [table EXCEPT ![t] = p]
                  /\ barred' = IF p = "BLOCK" THEN barred ELSE {b \in barred : b[2] # t}
             /\ changes' = changes + 1
             /\ UNCHANGED <<sent, taken, at, out, ran>>
-----------------------------------------------------------------------------
(* The server *)

Message == sent[taken]

\* slip: only what parses is answered.
AnsweredParsed(m) == m.id
\* Which messages get a reply: all but notifications; junk is told so, to id null.
Answered(m) == m.kind = "junk" \/ m.id

Reply(k, what, tools) ==
  out' = IF Answered(sent[k])
         THEN Append(out, [to |-> k, what |-> what, tools |-> tools]) ELSE out

Listed(chosen) == {t \in Tools : chosen[t] # "BLOCK"}

\* getline, then mb_mcp_handle up to the reply for all but tools/call.  The list
\* reads one policy per tool; read together here, no two of them being related.
Read == /\ at = "idle" /\ taken < Len(sent)
        /\ taken' = taken + 1
        /\ at' = IF sent[taken + 1].kind = "tools/call" THEN "gate" ELSE "idle"
        /\ \/ /\ at' = "gate" /\ UNCHANGED out
           \/ /\ at' = "idle" /\ sent[taken + 1].kind # "tools/list"
              /\ Reply(taken + 1, sent[taken + 1].kind, {})
           \/ /\ sent[taken + 1].kind = "tools/list"
              /\ \E chosen \in [Tools -> Policies] :
                   /\ \A t \in Tools : chosen[t] \in ReadPolicy(t)
                   /\ Reply(taken + 1, "tools/list", Listed(chosen))
        /\ UNCHANGED <<sent, table, changes, barred, ran>>

\* slip: ASK asks, PERMIT does not.
NeedsApprovalAsk(m, policy) == m.tool \in Writes /\ policy = "ASK" /\ ~m.confirm
\* Every write needs confirm=true, whatever its policy.
NeedsApproval(m, policy) == m.tool \in Writes /\ ~m.confirm

\* do_tools_call up to the engine: the policy, then the approval.
Gate == /\ at = "gate"
        /\ \E policy \in ReadPolicy(Message.tool) :
             \/ /\ policy = "BLOCK"
                /\ Reply(taken, "blocked", {}) /\ at' = "idle"
             \/ /\ policy # "BLOCK" /\ NeedsApproval(Message, policy)
                /\ Reply(taken, "approval", {}) /\ at' = "idle"
             \/ /\ policy # "BLOCK" /\ ~NeedsApproval(Message, policy)
                /\ at' = "dispatch" /\ UNCHANGED out
        /\ UNCHANGED <<sent, taken, table, changes, barred, ran>>

\* mb_api_dispatch, and its result or its error as the reply.
Dispatch == /\ at = "dispatch"
            /\ \/ Reply(taken, "result", {Message.tool}) /\ ran' = Append(ran, taken)
               \/ Reply(taken, "error", {}) /\ UNCHANGED ran
            /\ at' = "idle"
            /\ UNCHANGED <<sent, taken, table, changes, barred>>

Server == Read \/ Gate \/ Dispatch
Next == Send \/ SetPolicy \/ Server
Spec == Init /\ [][Next]_vars /\ WF_vars(Server)
-----------------------------------------------------------------------------
\* The server's position and its histories have their shape.
TypeOK ==
  /\ sent \in Seq(Messages) /\ taken \in 0 .. Len(sent)
  /\ at \in {"idle", "gate", "dispatch"}
  /\ at # "idle" => taken > 0 /\ Message.kind = "tools/call"
  /\ table \in [Tools -> Policies \cup {None}]
  /\ \A i \in DOMAIN out : out[i].to \in 1 .. taken /\ out[i].tools \subseteq Tools
  /\ \A i \in DOMAIN ran : ran[i] \in 1 .. taken

Request(m) == m.id \/ m.kind = "junk"    \* what JSON-RPC wants answered
Handled == 1 .. (IF at = "idle" THEN taken ELSE taken - 1)

\* Over the pipe the client sees one reply per request it sent, to that request,
\* in the order sent, and none to a notification.
RepliesMatchRequests ==
  /\ {out[i].to : i \in DOMAIN out} = {k \in Handled : Request(sent[k])}
  /\ \A i, j \in DOMAIN out : i < j => out[i].to < out[j].to

\* A reply tells what was done: a write ran only on a confirmed call, a call told
\* to ask, refused or failed ran nothing, and one told its result ran once.
RepliesTellTheTruth ==
  /\ \A i \in DOMAIN ran : sent[ran[i]].tool \in Writes => sent[ran[i]].confirm
  /\ \A i, j \in DOMAIN ran : ran[i] = ran[j] => i = j
  /\ \A i \in DOMAIN out :
       out[i].what = "result" <=> \E j \in DOMAIN ran : ran[j] = out[i].to

\* The server's record is well formed, its replies match the requests and are true.
RepliesConsistent == TypeOK /\ RepliesMatchRequests /\ RepliesTellTheTruth

\* A tool on BLOCK since before a message was sent is neither run nor listed for
\* that message, whatever other changes of policy fall between its steps.
BlockedStaysOut ==
  /\ \A i \in DOMAIN ran : <<ran[i], sent[ran[i]].tool>> \notin barred
  /\ \A i \in DOMAIN out, t \in Tools : t \in out[i].tools => <<out[i].to, t>> \notin barred

\* A write runs only after an approval request for its tool has been shown.
ApprovalComesFirst == \A i \in DOMAIN ran :
  sent[ran[i]].tool \in Writes =>
    \E j \in DOMAIN out : /\ out[j].what = "approval" /\ out[j].to < ran[i]
                          /\ sent[out[j].to].tool = sent[ran[i]].tool

\* Every request is answered, with or without another message behind it.
EveryRequestAnswered == \A k \in 1 .. MaxMessages :
  k <= Len(sent) /\ Request(sent[k]) ~> \E i \in DOMAIN out : out[i].to = k
=============================================================================
