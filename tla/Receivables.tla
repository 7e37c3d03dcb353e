---------------------------- MODULE Receivables ----------------------------
(***************************************************************************)
(* What settlement promises, one atomic step per operation: an issued      *)
(* document is owed until cash or credit settles it or it is cancelled,    *)
(* cash beyond what is owed becomes credit, and the balance of a pool      *)
(* moves with the documents and the cash, never with credit.  An amount    *)
(* may be negative.  A cancellation is sealed by a step of its own, and    *)
(* until then may lapse: the document is owed again, in full, and its      *)
(* amount stays off the balance.                                           *)
(***************************************************************************)
EXTENDS Integers

CONSTANTS Doc, Pool, PoolOf

VARIABLES
  stage,     \* "new", "owed", "settled", "cancelled" or, for good, "void"
  billed,    \* the amount a document was issued for, 0 before that
  due,       \* what is still owed on it
  credit,    \* cash received from a pool and not yet used
  balance    \* what a pool owes, net of its credit

recVars == <<stage, billed, due, credit, balance>>

RecInit ==
  /\ stage = [d \in Doc |-> "new"]
  /\ billed = [d \in Doc |-> 0]
  /\ due = [d \in Doc |-> 0]
  /\ credit = [q \in Pool |-> 0]
  /\ balance = [q \in Pool |-> 0]

Becomes(d, from, to) == stage[d] = from /\ stage' = [stage EXCEPT ![d] = to]

Charge(d) ==
  /\ Becomes(d, "new", "owed")
  /\ billed' = [billed EXCEPT ![d] = billed'[d]]
  /\ due' = [due EXCEPT ![d] = billed'[d]]
  /\ balance' = [balance EXCEPT ![PoolOf[d]] = @ + billed'[d]]
  /\ UNCHANGED credit

\* An amount used on a document, that leaves it settled when nothing is due.
Settle(d, used) ==
  LET left == due[d] - used
  IN  /\ Becomes(d, "owed", IF left > 0 THEN "owed" ELSE "settled")
      /\ due' = [due EXCEPT ![d] = IF left > 0 THEN left ELSE 0]

\* Cash settles what it can of the document; nothing owed, no cash.
Receive(d) ==
  LET q    == PoolOf[d]
      cash == balance[q] - balance'[q]
      used == IF cash < due[d] THEN cash ELSE IF due[d] > 0 THEN due[d] ELSE 0
  IN  /\ cash > 0
      /\ Settle(d, used)
      /\ credit' = [credit EXCEPT ![q] = @ + cash - used]
      /\ balance' = [balance EXCEPT ![q] = @ - cash]
      /\ UNCHANGED billed

UseCredit(d) ==
  LET q    == PoolOf[d]
      used == due[d] - due'[d]
  IN  /\ used > 0
      /\ used <= due[d]
      /\ used <= credit[q]
      /\ Settle(d, used)
      /\ credit' = [credit EXCEPT ![q] = @ - used]
      /\ UNCHANGED <<billed, balance>>

\* Only a document nothing was ever settled of.
Cancel(d) ==
  /\ Becomes(d, "owed", "cancelled")
  /\ due[d] = billed[d]
  /\ due' = [due EXCEPT ![d] = 0]
  /\ balance' = [balance EXCEPT ![PoolOf[d]] = @ - due[d]]
  /\ UNCHANGED <<billed, credit>>

Seal(d) ==
  /\ Becomes(d, "cancelled", "void")
  /\ UNCHANGED <<billed, due, credit, balance>>

Lapse(d) ==
  /\ Becomes(d, "cancelled", "owed")
  /\ due' = [due EXCEPT ![d] = billed[d]]
  /\ UNCHANGED <<billed, credit, balance>>

RecNext == \E d \in Doc :
  Charge(d) \/ Receive(d) \/ UseCredit(d) \/ Cancel(d) \/ Seal(d) \/ Lapse(d)

RecSpec == RecInit /\ [][RecNext]_recVars
=============================================================================
