------------------------- MODULE MCInvoiceLineItems ------------------------
(* Instances of InvoiceLineItems for TLC. *)
EXTENDS InvoiceLineItems, TLC

MCIds == 1..4

\* Item 1 is sold for 2, costs 1 and is there before the call.
MCBefore == [i \in MCIds |-> IF i = 1 THEN [price |-> 2, cost |-> 1] ELSE Absent]
MCOther == [price |-> 2, cost |-> 1]

MCPlans ==
  { <<NewLine(2, 1)>>,
    <<NewLine(1, Omitted), NewLine(2, Omitted)>>,
    <<ChangedLine(1, 3, Omitted), NewLine(2, Omitted)>>,
    <<NewLine(2, Omitted), ChangedLine(1, 3, 2)>>,
    <<ChangedLine(1, 3, 2)>>,
    <<ChangedLine(1, 3, Omitted)>>,
    <<ChangedLine(1, 2, Omitted)>>,
    <<ChangedLine(1, 3, Omitted), ChangedLine(1, 3, Omitted)>>,
    <<ChangedLine(1, Omitted, Omitted)>>,
    <<ChangedLine(1, Omitted, 2), NewLine(2, Omitted)>> }
=============================================================================
