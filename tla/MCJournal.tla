----------------------------- MODULE MCJournal -----------------------------
(***************************************************************************)
(* Small instances of Journal for TLC.                                     *)
(***************************************************************************)
EXTENDS Journal, TLC

CONSTANTS Cash, Income, d1, d2, d3

MCAccount == {Cash, Income}

Leg(a, m) == [account |-> a, amount |-> m]

\* One balanced submission, one that is off by a cent and one with one leg.
MCSubmitted == { <<Leg(Cash, 1), Leg(Income, -1)>>,
                 <<Leg(Cash, 1), Leg(Income, -2)>>,
                 <<Leg(Cash, 0)>> }

\* How many stamps each device may draw: two writers and a third device that
\* only relays what it received.
WithRelay == (d1 :> 3) @@ (d2 :> 1) @@ (d3 :> 0)
=============================================================================
