-------------------------- MODULE InvoiceLineItems -------------------------
(***************************************************************************)
(* A confirmed st_add_invoice_line_item call: the baseline read, one PATCH *)
(* per line item, and the verify-read that decides whether the money       *)
(* landed (src/src/tools/invoicing/st_add_invoice_line_item.ts,            *)
(* invoice-verify.ts).  The token is checked by WriteGate; here the call   *)
(* holds a valid one.  An item has a price, which stands for the product   *)
(* with its quantity, and a cost.                                          *)
(*                                                                         *)
(* ServiceTitan (external) may apply a PATCH, drop it or apply it with an  *)
(* amount zeroed, and whatever it did answer 200, an error, or nothing; it *)
(* serves reads from a replica that is behind.  Other writers may append   *)
(* to the invoice meanwhile.                                               *)
(***************************************************************************)
EXTENDS Integers, Sequences, FiniteSetsExt

CONSTANTS
  Plans,      \* the line items a call may ask for: sequences of lines
  Ids,        \* the item ids ServiceTitan can give out: 1..n
  Before,     \* the invoice before the call: [Ids -> amounts or Absent]
  Attempts,   \* verify-reads: one more than the delays of verifyBackoffMs
  CaughtUpBy, \* the attempt by which the replica has caught up
  MaxOthers,  \* bound on other writers' appends
  OtherAmounts,
  Absent,     \* no item under this id
  Omitted     \* an amount a line does not send

NoId == 0  \* the id of an append

Amounts == [price : Int, cost : Int]
Invoices == [Ids -> Amounts \union {Absent}]

\* The lines of a plan.
NewLine(price, cost) == [id |-> NoId, price |-> price, cost |-> cost]
ChangedLine(id, price, cost) == [id |-> id, price |-> price, cost |-> cost]

Present(inv) == {i \in Ids : inv[i] # Absent}

\* An append sends a price; an update is of an item on the invoice (of
\* another one ServiceTitan knows nothing).  The invoice has room.
IsLine(line) ==
  /\ line.id \in Present(Before) \union {NoId}
  /\ {line.price, line.cost} \subseteq Int \union {Omitted}
  /\ line.id = NoId => line.price # Omitted

ASSUME LineItemsAssumption ==
  /\ IsFiniteSet(Ids) /\ NoId \notin Ids
  /\ Absent \notin Amounts /\ Omitted \notin Int
  /\ Before \in Invoices /\ OtherAmounts \in Amounts
  /\ Attempts \in Nat \ {0} /\ CaughtUpBy \in Nat /\ MaxOthers \in Nat
  /\ \A p \in Plans :
       /\ Len(p) \in Nat \ {0}
       /\ \A k \in 1..Len(p) : IsLine(p[k])
       /\ Cardinality(Present(Before)) + Len(p) + MaxOthers <= Cardinality(Ids)

VARIABLES
  plan,     \* the call's lineItems
  pc,       \* "reading", "writing", "verifying", or how the call ended
  next,     \* the line the next PATCH sends
  invoice,  \* ServiceTitan's invoice: [Ids -> amounts or Absent]
  replica,  \* what a read of it returns
  baseline, \* the row the call read before writing
  written,  \* writtenItemIds
  attempt,  \* verify-reads made
  missed,   \* history: a verify-read failed
  observed, \* the row last read, lastObserved
  named,    \* the item ids the call's error lets its reader find
  maker,    \* history: the line that created an item, 0 if none
  others    \* history: appends by other writers

vars == <<plan, pc, next, invoice, replica, baseline, written,
          attempt, missed, observed, named, maker, others>>

callVars == <<plan, baseline, next, written, maker>>
readVars == <<attempt, missed, observed, named>>

Nothing == [i \in Ids |-> Absent]

Init ==
  /\ plan \in Plans
  /\ pc = "reading"
  /\ next = 1
  /\ invoice = Before
  /\ replica = Before
  /\ baseline = Nothing
  /\ written = {}
  /\ attempt = 0
  /\ missed = FALSE
  /\ observed = Nothing
  /\ named = {}
  /\ maker = [i \in Ids |-> 0]
  /\ others = 0

\* The read at the head of the handler.
ReadBaseline ==
  /\ pc = "reading"
  /\ pc' = "writing"
  /\ baseline' = replica
  /\ UNCHANGED <<plan, next, invoice, replica, written, readVars, maker, others>>

-----------------------------------------------------------------------------
(* ServiceTitan.                                                           *)

FreeId == CHOOSE i \in Ids : invoice[i] = Absent

Line == plan[next]

\* Each amount as it was sent, or zero; one that an update omits is left
\* alone, or zeroed too.
Kept(sent, old) == {IF sent = Omitted THEN old ELSE sent, 0}

AmountsKept ==
  LET old == IF Line.id = NoId THEN [price |-> 0, cost |-> 0] ELSE invoice[Line.id]
  IN  [price : Kept(Line.price, old.price), cost : Kept(Line.cost, old.cost)]

Created(amounts) ==
  /\ Line.id = NoId
  /\ invoice' = [invoice EXCEPT ![FreeId] = amounts]
  /\ maker' = [maker EXCEPT ![FreeId] = next]

Changed(amounts) ==
  /\ Line.id # NoId
  /\ invoice' = [invoice EXCEPT ![Line.id] = amounts]
  /\ UNCHANGED maker

Dropped == UNCHANGED <<invoice, maker>>

MaybeApplied == Dropped \/ \E amounts \in AmountsKept : Created(amounts) \/ Changed(amounts)

CatchUp ==
  /\ replica # invoice
  /\ replica' = invoice
  /\ UNCHANGED <<callVars, pc, invoice, readVars, others>>

OtherAppends ==
  /\ others < MaxOthers
  /\ pc \in {"reading", "writing", "verifying"}
  /\ invoice' = [invoice EXCEPT ![FreeId] = OtherAmounts]
  /\ others' = others + 1
  /\ UNCHANGED <<callVars, pc, replica, readVars>>

-----------------------------------------------------------------------------
(* The PATCH loop.                                                         *)

\* Ids an error lists, or that its reader finds because it lists the
\* baseline's.
Listed(ids) == ids
ComparedWithBaseline == Ids \ Present(baseline)

\* 200: the body may carry the id of the item.
PatchOk ==
  /\ pc = "writing"
  /\ MaybeApplied
  /\ written' \in {written, written \cup {i \in Ids : maker'[i] = next}}
  /\ next' = next + 1
  /\ pc' = IF next = Len(plan) THEN "verifying" ELSE "writing"
  /\ UNCHANGED <<plan, replica, baseline, readVars, others>>

\* Mutant: the error carries writtenItemIds only.
PartialReportBare == Listed(written)

\* What the error of a failed PATCH carries: writtenItemIds and
\* baselineItemIds.
PartialReport == Listed(written) \cup ComparedWithBaseline

\* An error status, or a failure in the envelope of a 200.
PatchRefused ==
  /\ pc = "writing"
  /\ MaybeApplied
  /\ pc' = "partial"
  /\ named' = PartialReport
  /\ UNCHANGED <<plan, next, replica, baseline, written, attempt, missed, observed, others>>

\* stWrite throws: the limiter denied the call, or the network failed.  The
\* handler does not catch it, so nothing is added to the error.
PatchThrows ==
  /\ pc = "writing"
  /\ MaybeApplied
  /\ pc' = "thrown"
  /\ UNCHANGED <<plan, next, replica, baseline, written, readVars, others>>

-----------------------------------------------------------------------------
(* The verify-read.                                                        *)

Appends == {k \in 1..Len(plan) : plan[k].id = NoId}
Updates == {k \in 1..Len(plan) : plan[k].id # NoId}
Sent(k) == plan[k].price

\* Mutant: the items that were there before count as new.
NewItemsAll(inv) == Present(inv)

NewItems(inv) == Present(inv) \ Present(baseline)

\* Mutant: every row is accepted.
AcceptAny(inv) == inv # Nothing

\* opts.accept: the appends are visible.
Accept(inv) == Cardinality(NewItems(inv)) >= Cardinality(Appends)

SentTotal == SumFunction([k \in Appends |-> Sent(k)])

AppendedTotalMatches(inv) == SumFunction([i \in NewItems(inv) |-> inv[i].price]) = SentTotal

\* What an update leaves out is as it was.
RestKept(inv, old, line) ==
  /\ line.price = Omitted => inv[line.id].price = old[line.id].price
  /\ line.cost = Omitted => inv[line.id].cost = old[line.id].cost

\* The price is compared with the one sent, what was omitted with the
\* baseline; a cost that was sent is not looked at.
UpdateLanded(inv, line) ==
  /\ inv[line.id] # Absent
  /\ line.price # Omitted => inv[line.id].price = line.price
  /\ RestKept(inv, baseline, line)

\* The verdict on a row and the ids its error carries: the baseline's, the new
\* items', or the one that was updated.
Judge(inv) ==
  \/ /\ Cardinality(NewItems(inv)) # Cardinality(Appends)
     /\ pc' = "silent_noop"
     /\ named' = ComparedWithBaseline
  \/ /\ Cardinality(NewItems(inv)) = Cardinality(Appends)
     /\ ~AppendedTotalMatches(inv)
     /\ pc' = "amount_mismatch"
     /\ named' = Listed(NewItems(inv))
  \/ /\ Cardinality(NewItems(inv)) = Cardinality(Appends)
     /\ AppendedTotalMatches(inv)
     /\ LET wrong == {k \in Updates : ~UpdateLanded(inv, plan[k])}
        IN  \/ wrong = {} /\ pc' = "verified" /\ UNCHANGED named
            \/ wrong # {} /\ pc' = "update_mismatch" /\ named' = Listed({plan[Min(wrong)].id})

IsLast == attempt + 1 = Attempts

\* A read that answers: judged if it is accepted or the last.
VerifyRead ==
  /\ pc = "verifying"
  /\ attempt + 1 >= CaughtUpBy => replica = invoice
  /\ attempt' = attempt + 1
  /\ observed' = replica
  /\ \/ (Accept(replica) \/ IsLast) /\ Judge(replica)
     \/ ~Accept(replica) /\ ~IsLast /\ UNCHANGED <<pc, named>>
  /\ UNCHANGED <<callVars, invoice, replica, missed, others>>

\* A read without the items field is never accepted, and nothing can be
\* concluded from it if it is the last row observed.
VerifyReadBare ==
  /\ pc = "verifying"
  /\ attempt' = attempt + 1
  /\ missed' = TRUE
  /\ observed' = Nothing
  /\ \/ ~IsLast /\ UNCHANGED <<pc, named>>
     \/ IsLast /\ pc' = "verify_unavailable" /\ named' = Listed(written)
  /\ UNCHANGED <<callVars, invoice, replica, others>>

\* A read that fails, or returns another invoice.  After the last one the row
\* last observed is judged; if there was none the outcome is unknown and the
\* message carries writtenItemIds only.
VerifyReadFails ==
  /\ pc = "verifying"
  /\ attempt' = attempt + 1
  /\ missed' = TRUE
  /\ \/ ~IsLast /\ UNCHANGED <<pc, named>>
     \/ IsLast /\ observed # Nothing /\ Judge(observed)
     \/ IsLast /\ observed = Nothing /\ pc' = "verify_unavailable" /\ named' = Listed(written)
  /\ UNCHANGED <<callVars, invoice, replica, observed, others>>

Next ==
  \/ ReadBaseline
  \/ PatchOk
  \/ PatchRefused
  \/ PatchThrows
  \/ VerifyRead
  \/ VerifyReadBare
  \/ VerifyReadFails
  \/ CatchUp
  \/ OtherAppends

Spec == Init /\ [][Next]_vars
-----------------------------------------------------------------------------
(* Properties.                                                             *)

\* The prices the call asked for are on the invoice, and what its updates
\* left out is as it was.
Landed ==
  LET new == Present(invoice) \ Present(Before)
  IN  /\ Cardinality(new) = Cardinality(Appends)
      /\ SumFunction([i \in new |-> invoice[i].price]) = SentTotal
      /\ \A k \in Updates :
           /\ Sent(k) # Omitted => invoice[plan[k].id].price = Sent(k)
           /\ RestKept(invoice, Before, plan[k])

\* Every update sends a price other than the one that was there, to an item of
\* its own: an older row cannot show it.
UpdatesTell ==
  \A k \in Updates :
    /\ Sent(k) \notin {Omitted, Before[plan[k].id].price}
    /\ \A m \in Updates : plan[m].id = plan[k].id => m = k

\* "HTTP 200 is not proof" (st_add_invoice_line_item.ts): when nobody else
\* writes, a call that answers verified has its lines on the invoice at the
\* prices it sent, and its updates changed nothing they left out, whatever
\* ServiceTitan dropped or zeroed behind its 200s and however late the replica
\* is.  An update that an older row could show is only vouched for by a
\* current one; a cost that was sent is not vouched for at all.
VerifiedIsTrue ==
  (/\ pc = "verified"
   /\ others = 0
   /\ UpdatesTell \/ observed = invoice)
  => Landed

\* The backoff of reReadInvoiceForVerify keeps replication lag from "turning
\* into a false silent_noop": lines that landed raise no alarm when nobody
\* else writes, the last of them is an append, every verify-read answers and
\* the replica catches up within the schedule.
LagIsNoAlarm ==
  (/\ Landed
   /\ others = 0
   /\ plan[Len(plan)].id = NoId
   /\ ~missed
   /\ CaughtUpBy <= Attempts)
  => pc \notin {"silent_noop", "amount_mismatch", "update_mismatch"}

CreatedBy(lines) == {i \in Ids : maker[i] \in lines}

\* "The error names their item ids for cleanup": every item the call created,
\* the ones of the PATCH that failed included, can be found from a
\* partial-failure error and from the verdicts on the appends.
FailuresNameWhatLanded ==
  /\ pc \in {"partial", "silent_noop"} => CreatedBy(1..Len(plan)) \subseteq named
  /\ pc = "amount_mismatch" /\ others = 0 /\ observed = invoice
       => CreatedBy(1..Len(plan)) \subseteq named

=============================================================================
