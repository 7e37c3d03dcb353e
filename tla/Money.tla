------------------------------- MODULE Money --------------------------------
(* Amounts are signed integers of a fixed width, in hundredths.  money.c      *)
(* computes line totals, parses and prints; the lines of a document are added *)
(* up and negated in plain C to make postings, and post_core adds those up    *)
(* with an overflow check.  The range of the amounts and the base, with the   *)
(* hundredths its square, are parameters: 2^63, 10 and 100 in the code.       *)
(* Plain C sums wrap, which is what the -O2 build does with them.             *)
EXTENDS Integers, Sequences, Functions

CONSTANTS Half,         \* amounts are -Half .. Half - 1
          Base,         \* of the numerals in texts
          MaxDraft,     \* bound: lines of a document
          MaxHand,      \* bound: postings of a manual entry
          MaxDigits,    \* bound: digits before the point in a text
          Refused,      \* an error for an answer
          None
ASSUME MoneyAssumption ==
  /\ {Half, Base, MaxDraft, MaxHand, MaxDigits} \subseteq Nat \ {0, 1}
  /\ (Base * Base) % 2 = 0    \* there is a half
  /\ Refused \notin Int

MaxAmount == Half - 1
MinAmount == -Half
Amount == MinAmount .. MaxAmount
Centi == Base * Base
Wrap(n) == ((n + Half) % (2 * Half)) - Half

VARIABLES draft,   \* line totals of the draft at hand
          asked,   \* the mb_invoice_add_line or mb_bill_add_line under way
          entry,   \* the last entry accepted
          paper    \* the last amount printed or read, with its text
moneyVars == <<draft, asked, entry, paper>>
-----------------------------------------------------------------------------
(* money.c *)

\* mb_money_add and __builtin_mul_overflow: the exact value where it fits.
Fits(n) == IF n \in Amount THEN n ELSE Refused

\* C division: the quotient is cut towards zero.
Quotient(n) == IF n < 0 THEN -((-n) \div Centi) ELSE n \div Centi
Remainder(n) == n - Quotient(n) * Centi

\* slip: the half rounded up whatever the sign.
RoundedUp(n) ==
  CASE Remainder(n) >= Centi \div 2 -> Quotient(n) + 1
    [] Remainder(n) < -(Centi \div 2) -> Quotient(n) - 1
    [] OTHER -> Quotient(n)
Rounded(n) ==
  CASE Remainder(n) >= Centi \div 2 -> Quotient(n) + 1
    [] Remainder(n) <= -(Centi \div 2) -> Quotient(n) - 1
    [] OTHER -> Quotient(n)

\* mb_money_line_total
LineTotal(price, qty) ==
  IF Fits(price * qty) = Refused THEN Refused ELSE Rounded(price * qty)

\* A quantity that is absent or not positive is taken for 1.00.
Quantity(qty) == IF qty > 0 THEN qty ELSE Centi

Digits == 0 .. Base - 1
DigitsUpTo(n) == UNION {[1 .. k -> Digits] : k \in 0 .. n}
Texts == [neg : BOOLEAN, whole : DigitsUpTo(MaxDigits), cents : DigitsUpTo(3)]

\* The value after each digit read.
Running(digits) ==
  LET value[i \in 0 .. Len(digits)] ==
        IF i = 0 THEN 0 ELSE value[i - 1] * Base + digits[i]
  IN value
Numeral(digits) == Running(digits)[Len(digits)]

\* The digits before the point, refused as soon as they do not fit.
Whole(digits) ==
  IF \E i \in 0 .. Len(digits) : Fits(Running(digits)[i]) = Refused
    THEN Refused
    ELSE Numeral(digits)

\* What decimals are worth in hundredths: missing ones count as zeros.
Padding == [n \in 0 .. 2 |-> IF n = 0 THEN Centi ELSE IF n = 1 THEN Base ELSE 1]

\* slip: a missing second decimal is not made up for.
CentsUnpadded(digits) == Numeral(digits)
Cents(digits) == Numeral(digits) * Padding[Len(digits)]

\* mb_money_parse: one digit at least, two decimals at most.
Parse(text) ==
  LET whole == Whole(text.whole)
      total == Fits(whole * Centi + Cents(text.cents))
  IN  IF \/ text.whole = << >> /\ text.cents = << >>
         \/ whole = Refused \/ Len(text.cents) > 2
        THEN Refused
        ELSE IF total # Refused /\ text.neg THEN -total ELSE total

\* printf's numeral of a number that is not negative.
Printed[n \in 0 .. Half] ==
  IF n < Base THEN <<n>> ELSE Append(Printed[n \div Base], n % Base)

\* mb_money_format: sign, numeral of the units, two decimals.
Format(a) ==
  LET magnitude == IF a < 0 THEN -a ELSE a    \* unsigned, so -MinAmount as well
      units == magnitude \div Centi
      cents == magnitude % Centi
  IN [neg   |-> a < 0,
      whole |-> Printed[units],
      cents |-> <<cents \div Base, cents % Base>>]
-----------------------------------------------------------------------------
(* From line totals to entries *)

Added(amounts) == SumFunction(amounts)    \* over the integers
Negated(amounts) == [i \in DOMAIN amounts |-> Wrap(-amounts[i])]

\* mb_invoice_issue: Dr the total, Cr each line; mb_bill_enter the other way.
InvoicePostings == <<Wrap(Added(draft))>> \o Negated(draft)
BillPostings == Negated(<<Wrap(Added(draft))>>) \o draft

\* slip: a plain sum, which may come back to zero.
AcceptedPlain(postings) == Len(postings) >= 2 /\ Wrap(Added(postings)) = 0
\* post_core: the running sum of the postings never overflows and ends on zero.
Accepted(postings) ==
  /\ Len(postings) >= 2
  /\ \A i \in DOMAIN postings : Fits(Added(SubSeq(postings, 1, i))) # Refused
  /\ Added(postings) = 0

-----------------------------------------------------------------------------
MoneyInit == draft = << >> /\ asked = None /\ entry = None /\ paper = None

\* One piece of work at a time: a draft, an entry or a text, put away before the
\* next is begun.
NoWork == entry = None /\ paper = None
PutAway ==
  /\ asked = None
  /\ draft # << >> \/ ~NoWork
  /\ draft' = << >> /\ entry' = None /\ paper' = None
  /\ UNCHANGED asked

\* The caller's price and quantity arrive...
AskLine(price, qty) ==
  /\ NoWork /\ asked = None /\ Len(draft) < MaxDraft
  /\ asked' = [price |-> price, qty |-> qty]
  /\ UNCHANGED <<draft, entry, paper>>

\* ... and the line is stored with its total, or the call refused.
AddLine ==
  /\ asked # None
  /\ LET total == LineTotal(asked.price, Quantity(asked.qty)) IN
     draft' = IF total = Refused THEN draft ELSE Append(draft, total)
  /\ asked' = None
  /\ UNCHANGED <<entry, paper>>

\* An entry is posted if post_core accepts it; it was made from these amounts.
Entered(kind, postings, from) ==
  /\ NoWork /\ asked = None
  /\ Accepted(postings)
  /\ entry' = [kind |-> kind, postings |-> postings, from |-> from]
  /\ draft' = << >>
  /\ UNCHANGED <<asked, paper>>

Issue == draft # << >> /\ Entered("invoice", InvoicePostings, draft)
Enter == draft # << >> /\ Entered("bill", BillPostings, draft)

\* transaction.post with whatever amounts the caller has.
PostManual(amounts) == draft = << >> /\ Entered("manual", amounts, << >>)

\* mb_journal_reverse negates the postings.  It reads them in the order stored,
\* that of their accounts, and that decides whether the running sum overflows on
\* the way; a sum of zero is what every order asks for.
ReverseEntry ==
  /\ entry # None /\ entry.kind # "reversal"
  /\ Added(Negated(entry.postings)) = 0
  /\ entry' = [kind |-> "reversal", postings |-> Negated(entry.postings),
               from |-> entry.postings]
  /\ UNCHANGED <<draft, asked, paper>>

\* An export prints an amount; a text is read.
WriteText(a) == /\ NoWork /\ draft = << >> /\ asked = None
                /\ paper' = [text |-> Format(a), value |-> a]
                /\ UNCHANGED <<draft, asked, entry>>
ReadText(text) == /\ NoWork /\ draft = << >> /\ asked = None
                  /\ paper' = [text |-> text, value |-> Parse(text)]
                  /\ UNCHANGED <<draft, asked, entry>>

MoneyNext == \/ \E price, qty \in Amount : AskLine(price, qty)
             \/ AddLine \/ Issue \/ Enter \/ ReverseEntry \/ PutAway
             \/ \E n \in 2 .. MaxHand : \E amounts \in [1 .. n -> Amount] : PostManual(amounts)
             \/ \E a \in Amount : WriteText(a)
             \/ \E text \in Texts : ReadText(text)
MoneySpec == MoneyInit /\ [][MoneyNext]_moneyVars
-----------------------------------------------------------------------------
MoneyTypeOK ==
  /\ draft \in Seq(Amount) /\ Len(draft) <= MaxDraft
  /\ asked = None \/ asked \in [price : Amount, qty : Amount]
  /\ entry # None => entry.postings \in Seq(Amount) /\ entry.from \in Seq(Amount)
  /\ paper # None => paper.value \in Amount \cup {Refused}

\* A line's total is the nearest amount to price times quantity, a half away
\* from zero, and is refused only when the product itself does not fit.
Nearest(total, product) ==
  LET error == total * Centi - product
      magnitude == IF product < 0 THEN -product ELSE product
  IN  /\ 2 * error \in -Centi .. Centi
      /\ 2 * error \in {-Centi, Centi} => (total * Centi) * (total * Centi) > magnitude * magnitude
LineTotalIsNearest ==
  [][asked # None /\ asked' = None =>
       LET product == asked.price * Quantity(asked.qty) IN
       IF draft' = draft THEN product \notin Amount
                         ELSE Nearest(draft'[Len(draft')], product)]_moneyVars

\* What is printed is the amount, the smallest one included; what is read is what
\* was written, and is refused only when it is no amount or out of range (the
\* smallest one is, since the sign is applied last).
ValueOf(text) ==
  LET n == Numeral(text.whole \o text.cents) * Padding[Len(text.cents)]
  IN IF text.neg THEN -n ELSE n
WellFormed(text) == Len(text.whole \o text.cents) > 0 /\ Len(text.cents) <= 2
TextIsExact == paper # None =>
  IF paper.value = Refused
    THEN ~WellFormed(paper.text) \/ ValueOf(paper.text) \notin -MaxAmount .. MaxAmount
    ELSE WellFormed(paper.text) /\ paper.value = ValueOf(paper.text)

\* Plain sums may wrap, but no entry that post_core accepts shows it: postings
\* add up to zero over the integers, the control leg is the exact sum of the
\* lines or its negative, and a reversal takes back exactly what was posted.
PostingsAreExact ==
  /\ MoneyTypeOK
  /\ entry # None =>
       /\ Added(entry.postings) = 0
       /\ entry.kind = "invoice" => entry.postings[1] = Added(entry.from)
       /\ entry.kind = "bill" => entry.postings[1] = -Added(entry.from)
       /\ entry.kind = "reversal" =>
            \A i \in DOMAIN entry.from : entry.postings[i] = -entry.from[i]

\* Every accepted entry can be reversed.
ReversalsFit == entry # None /\ entry.kind # "reversal" => Added(Negated(entry.postings)) = 0

\* Whether an entry is accepted does not depend on the order of its postings: what
\* one device has posted, another can take over in the order stored.
Rotated(amounts, n) == SubSeq(amounts, n, Len(amounts)) \o SubSeq(amounts, 1, n - 1)
OrderDoesNotMatter == entry # None =>
  \A n \in DOMAIN entry.postings : Accepted(Rotated(entry.postings, n))
=============================================================================
