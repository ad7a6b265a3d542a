------------------------------ MODULE MCApInbox ------------------------------
(***************************************************************************)
(* A small inbox, a page and a window of two rows, and printed bills of    *)
(* two lines with every layout and one field that may be unreadable.       *)
(***************************************************************************)
EXTENDS ApInbox

Row(zeros, core, id, name, amount) ==
    [number |-> [zeros |-> zeros, core |-> core], vendor_id |-> id,
     vendor_name |-> name, amount |-> amount]

First  == Row(0, "7", 1, "mccall", 500)
Again  == Row(2, "7", 0, "mccall", 500)   \* a re-forwarded copy, padded number
NoName == Row(0, "7", 1, "", 500)         \* an id and no name
Split  == Row(0, "7", 1, "mccall", 300)   \* the same number, another amount
Blank  == Row(0, "", 0, "mccall", 500)    \* no number was read
Dear   == Row(0, "7", 1, "mccall", Unread)
Other  == Row(0, "8", 1, "mccall", 500)
Zeros  == Row(3, "", 1, "mccall", 500)    \* "000"
Theirs == Row(0, "7", 2, "mccall", 500)   \* the same name, another vendor's id
Rival  == Row(0, "7", 0, "acme", 500)     \* another name, no id

MCReadings ==
    {<<First, Again, Other>>, <<Again, Other, First>>, <<Other, Split, First>>,
     <<First, Blank, Other>>, <<NoName, Again, Zeros>>, <<Zeros, Blank, Dear>>,
     <<First, Theirs, Rival>>, <<NoName, Rival, Theirs>>, <<Theirs, Again, NoName>>}

\* Printed bills: quantities in halves, costs in cents.
Lines == {<<[quantity |-> q1, unit_cost |-> c1, freight |-> f], [quantity |-> q2, unit_cost |-> c2, freight |-> FALSE]>> :
             q1 \in {1, 2, 4}, q2 \in {1, 2}, c1 \in {10, 20}, c2 \in {15}, f \in BOOLEAN}

(* The header the vendor prints for a layout.  A layout that carries the    *)
(* freight or the tax in its lines has a line or a tax to carry it.         *)
Printed(layout, lines, tax, shipping) ==
    [lines |-> lines, tax |-> tax, shipping |-> shipping,
     header |-> Bills!cents(Bills!total(layout, [lines |-> lines, tax |-> tax, shipping |-> shipping]))]

Garblings == {"none", "quantity", "cost", "tax", "shipping", "header"}
Garble(bill, what) ==
    CASE what = "quantity" -> [bill EXCEPT !.lines[1].quantity = Unread]
      [] what = "cost"     -> [bill EXCEPT !.lines[2].unit_cost = Unread]
      [] what = "tax"      -> [bill EXCEPT !.tax = Unread]
      [] what = "shipping" -> [bill EXCEPT !.shipping = Unread]
      [] what = "header"   -> [bill EXCEPT !.header = Unread]
      [] OTHER             -> bill

MCPrintedBills ==
    {[layout |-> l, printed |-> Printed(l, lines, tax, shipping),
      read |-> Garble(Printed(l, lines, tax, shipping), g),
      charged |-> Bills!allocations(l, lines)] :
        l \in {Bills!modeOrder[i] : i \in 1..6},
        lines \in Lines, tax \in {0, 10, 30}, shipping \in {0, 10}, g \in Garblings}
MCBills == {b \in MCPrintedBills : Bills!eligible(b.layout, b.printed)}
===============================================================================
