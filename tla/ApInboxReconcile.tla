--------------------------- MODULE ApInboxReconcile ---------------------------
(***************************************************************************)
(* Whether the lines of a bill add up to its header, and how               *)
(* (src/tools/ap_inbox/ap_inbox_reconcile_amount.ts), a pure function.     *)
(*                                                                         *)
(* A line is [quantity, unit_cost, freight]: the quantity in halves, the   *)
(* cost in cents, and whether the description names freight.  Money that   *)
(* is compared is in half-cents, so that half a unit of an odd cost is     *)
(* exact, and cents() rounds it as Math.round does.  Unreadable is -1.     *)
(***************************************************************************)
EXTENDS Integers, Sequences, SequencesExt, FiniteSetsExt

UnreadNumber == -1
TOLERANCE_CENTS == 5

parsed(v) == IF v = UnreadNumber THEN 0 ELSE v
cents(halves) == (halves + 1) \div 2
distance(a, b) == IF a >= b THEN a - b ELSE b - a
within(a, b) == distance(cents(a), cents(b)) < TOLERANCE_CENTS

sum(seq) == FoldSeq(LAMBDA x, acc : x + acc, 0, seq)

unitAmount(line) == parsed(line.unit_cost) * parsed(line.quantity)
extendedAmount(line) == 2 * parsed(line.unit_cost)
amounts(mode, lines) ==
    [i \in DOMAIN lines |->
        IF mode \in {"extended", "extended_freight_in_lines", "extended_tax_inclusive"}
        THEN extendedAmount(lines[i]) ELSE unitAmount(lines[i])]

(* What would be posted for each line, in whole cents. *)
allocations(mode, lines) ==
    [i \in DOMAIN lines |-> cents(amounts(mode, lines)[i])]

(* The six candidates in their order of precedence; a mode that finds the   *)
(* freight or the tax inside the lines leaves it out of the total.          *)
modeOrder == <<"unit", "extended", "unit_freight_in_lines",
               "extended_freight_in_lines", "tax_inclusive", "extended_tax_inclusive">>
freightInLines == {"unit_freight_in_lines", "extended_freight_in_lines"}
taxInLines == {"tax_inclusive", "extended_tax_inclusive"}

applied(mode, bill) ==
    [tax |-> IF mode \in taxInLines THEN 0 ELSE bill.tax,
     shipping |-> IF mode \in freightInLines THEN 0 ELSE bill.shipping]

total(mode, bill) ==
    sum(amounts(mode, bill.lines)) + 2 * (applied(mode, bill).tax + applied(mode, bill).shipping)

eligible(mode, bill) ==
    /\ mode \in freightInLines =>
          bill.shipping > 0 /\ \E i \in DOMAIN bill.lines : bill.lines[i].freight
    /\ mode \in taxInLines => bill.tax > 0

(* What is refused before any candidate is tried: nothing to add up, no     *)
(* header, a field that cannot be read, a quantity that is not positive, a  *)
(* tax as large as the bill.                                                *)
refused(bill) ==
    \/ bill.lines = <<>>
    \/ parsed(bill.header) = 0
    \/ \E i \in DOMAIN bill.lines :
          \/ bill.lines[i].quantity = UnreadNumber \/ bill.lines[i].unit_cost = UnreadNumber
          \/ parsed(bill.lines[i].quantity) <= 0
    \/ bill.tax = UnreadNumber
    \/ bill.shipping = UnreadNumber
    \/ bill.header > 0 /\ bill.tax >= bill.header

(* The candidates that reach the header, by their place in the order.       *)
matches(bill) ==
    {i \in DOMAIN modeOrder :
        /\ eligible(modeOrder[i], bill)
        /\ within(total(modeOrder[i], bill), 2 * bill.header)}

winner(bill) == modeOrder[Min(matches(bill))]

(* Those that would post some line differently.                             *)
rivals(bill) ==
    {i \in matches(bill) :
        allocations(modeOrder[i], bill.lines) # allocations(winner(bill), bill.lines)}

Hold == [reconciles |-> FALSE, mode |-> "none"]

\* Mutant: the first matching mode is posted, whatever the others say.
reconcileUnitFirst(bill) ==
    IF refused(bill) \/ matches(bill) = {} THEN Hold
    ELSE [reconciles |-> TRUE, mode |-> winner(bill)]

(* reconcileAmount: the first matching mode wins, unless another one that   *)
(* matches would post some line differently.                                *)
reconcileAmount(bill) ==
    IF refused(bill) \/ matches(bill) = {} \/ rivals(bill) # {} THEN Hold
    ELSE [reconciles |-> TRUE, mode |-> winner(bill)]

===============================================================================
