----------------------------- MODULE MCReports ------------------------------
(* A small chart: one account of each kind the reports tell apart.            *)
EXTENDS Exports

MCChart == <<"bank", "ar", "ap", "capital", "sales", "travel">>
MCAccounts == Range(MCChart)
MCType == [a \in MCAccounts |->
             CASE a \in {"bank", "ar"} -> "ASSET" [] a = "ap" -> "LIABILITY"
               [] a = "capital" -> "EQUITY" [] a = "sales" -> "INCOME"
               [] a = "travel" -> "EXPENSE"]
MCRole == [a \in MCAccounts |->
             CASE a \in {"sales", "travel"} -> "CATEGORY" [] a \in {"ar", "ap"} -> "SYSTEM"
               [] OTHER -> "ACCOUNT"]
Leg(debit, credit) == [debit |-> debit, credit |-> credit]
Move(dr, cr, n) == [a \in {dr, cr} |-> IF a = dr THEN Leg(n, 0) ELSE Leg(0, n)]
\* An invoice with a discount line, a bill, a drawing, and a sale paid after a fee, with a
\* posting of nothing: different amounts, so that the sums tell the entries apart.
MCInvoice == [a \in {"ar", "sales"} |-> IF a = "ar" THEN Leg(5, 0) ELSE Leg(2, 7)]
MCNetSale == [a \in {"bank", "travel", "sales", "capital"} |->
                CASE a = "bank" -> Leg(3, 0) [] a = "travel" -> Leg(4, 0)
                  [] a = "sales" -> Leg(0, 7) [] a = "capital" -> Leg(0, 0)]
MCDocuments == {MCInvoice, Move("travel", "ap", 2)}
MCKinds == MCDocuments \cup {Move("capital", "bank", 9), MCNetSale}
MCArchivable == {"travel"}
\* All of it, all up to a day, from a day on, and one day.
MCWindows == {<<Null, Null>>, <<Null, 1>>, <<2, Null>>, <<2, 2>>}
=============================================================================
