-------------------------- MODULE AdjustmentInvoice -------------------------
(***************************************************************************)
(* src/src/tools/invoicing/st_create_adjustment_invoice.ts, confirmed: the *)
(* SKU names are looked up, the parent is read, the invoice is created,    *)
(* and what was created is read back until it shows every line.            *)
(*                                                                         *)
(* ServiceTitan may drop lines, store other amounts, and answer reads from *)
(* a replica that shows the invoice before its lines.  An invoice cannot   *)
(* be deleted, so one that went wrong has to be named to its caller.       *)
(***************************************************************************)
EXTENDS ConfirmedWrites

CONSTANTS
  Lines,        \* how many lines each caller asks for
  VerifyReads   \* the first verify-read and its retries (verifyBackoffMs)

\* The tool's schema asks for one line at least.
ASSUME LinesAssumption == Lines \in [Callers -> Nat \ {0}]

VARIABLES
  parent,     \* the parent's syncStatus; "unadjustable" also if it is one
  previewed,  \* the status that the dry runs hashed into the tokens
  invoice,    \* what ServiceTitan created: [lines, kept], or NoInvoice
  shown,      \* how much of it the replica shows: "none", "bare" or "full"
  created,    \* what a 200 said of it: "unsent", "unnamed" or "named"
  reads,      \* verify-reads made
  observed    \* the last row they saw, or NoRow

adjustVars == <<parent, previewed, invoice, shown, created, reads, observed>>
invoiceVars == <<invoice, shown, created, reads, observed>>

NoInvoice == [lines |-> -1, kept |-> TRUE]
NoRow == [items |-> -2, kept |-> TRUE]
NoItems == -1   \* a row without an items field

Open == {"Posted", "Exported"}

AdjustInit ==
  /\ parent \in Open
  /\ previewed = parent
  /\ invoice = [c \in Callers |-> NoInvoice]
  /\ shown = [c \in Callers |-> "none"]
  /\ created = [c \in Callers |-> "unsent"]
  /\ reads = [c \in Callers |-> 0]
  /\ observed = [c \in Callers |-> NoRow]

Adjusting(c, step) == InHandler(c, "adjust", step)

\* Of interest until the handlers have read it.
ParentMoves ==
  /\ \E c \in Callers : Adjusting(c, "called") \/ Adjusting(c, "checked")
  /\ parent' \in {"Exported", "unadjustable"} \ {parent}
  /\ UNCHANGED <<callVars, previewed, invoiceVars>>

\* A mirror without an answer is no reason to refuse.
SkusChecked(c) ==
  /\ Adjusting(c, "called")
  /\ Proceeds(c, "checked")
  /\ UNCHANGED <<landed, adjustVars>>

SkuMissing(c) ==
  /\ Adjusting(c, "called")
  /\ Ends(c, "refused")
  /\ UNCHANGED <<landed, adjustVars>>

\* The parent's status is part of what the token signs.
ParentRead(c) ==
  /\ Adjusting(c, "checked")
  /\ IF parent \in Open /\ parent = previewed
       THEN Proceeds(c, "verified")
       ELSE Ends(c, "refused")
  /\ UNCHANGED <<landed, adjustVars>>

\* The read fails or the token is refused; for ServiceTitan's failures the
\* caller hears which.
ParentUnread(c) ==
  /\ Adjusting(c, "checked")
  /\ Ends(c, "refused") \/ Ends(c, "failed")
  /\ UNCHANGED <<landed, adjustVars>>

PostRefused(c) ==
  /\ Adjusting(c, "verified")
  /\ Ends(c, "refused")
  /\ UNCHANGED <<landed, adjustVars>>

\* ServiceTitan creates the invoice, with all that was asked or less.
Creates(c) ==
  \E n \in 0..Lines[c], k \in BOOLEAN :
    /\ invoice' = [invoice EXCEPT ![c] = [lines |-> n, kept |-> k]]
    /\ landed' = [landed EXCEPT ![c] = n = Lines[c] /\ k]

Post(c) ==
  /\ Adjusting(c, "verified")
  /\ Proceeds(c, "posted")
  /\ Creates(c)
  /\ \E id \in {"unnamed", "named"} : created' = [created EXCEPT ![c] = id]
  /\ UNCHANGED <<parent, previewed, shown, reads, observed>>

\* An error status or a lost answer, of an invoice that may exist; or a 200
\* that says it does not.
PostFails(c) ==
  /\ Adjusting(c, "verified")
  /\ Ends(c, "failed")
  /\ Creates(c) \/ UNCHANGED <<landed, invoice>>
  /\ UNCHANGED <<parent, previewed, shown, created, reads, observed>>

\* Mutant: a 200 without an id fails like any other call.
UnnamedFails(c) ==
  /\ Adjusting(c, "posted") /\ created[c] = "unnamed"
  /\ Ends(c, "failed")
  /\ UNCHANGED <<landed, adjustVars>>

\* "AN ADJUSTMENT INVOICE MAY EXIST"
Unnamed(c) ==
  /\ Adjusting(c, "posted") /\ created[c] = "unnamed"
  /\ Ends(c, "maybe")
  /\ UNCHANGED <<landed, adjustVars>>

Verifying(c) == Adjusting(c, "posted") /\ created[c] = "named"

CatchUp(c) ==
  /\ Verifying(c)
  /\ \/ shown[c] = "none" /\ shown' = [shown EXCEPT ![c] = "bare"]
     \/ shown[c] = "bare" /\ shown' = [shown EXCEPT ![c] = "full"]
  /\ UNCHANGED <<callVars, parent, previewed, invoice, created, reads, observed>>

\* The rows the replica may return for the invoice.
RowsShown(c) ==
  CASE shown[c] = "none" -> {}
    [] shown[c] = "bare" -> {[items |-> n, kept |-> TRUE] : n \in {NoItems, 0}}
    [] shown[c] = "full" -> {[items |-> invoice[c].lines, kept |-> invoice[c].kept]}

\* Mutant: the amounts are not added up.
VerdictByCount(c, row) ==
  IF row = NoRow \/ row.items # Lines[c] THEN "named" ELSE "done"

\* No row ever seen, no items, too few, another total: each names the id.
Verdict(c, row) ==
  IF row = NoRow \/ row.items # Lines[c] \/ ~row.kept THEN "named" ELSE "done"

IsLast(c) == reads[c] + 1 = VerifyReads

\* A read that shows every line is accepted; the last one ends the retries
\* with the last row that any of them saw.
JudgesOrRetries(c, row) ==
  /\ reads' = [reads EXCEPT ![c] = @ + 1]
  /\ observed' = [observed EXCEPT ![c] = row]
  /\ IF row.items >= Lines[c] \/ IsLast(c)
       THEN Ends(c, Verdict(c, row))
       ELSE Proceeds(c, "posted")
  /\ UNCHANGED <<landed, parent, previewed, invoice, shown, created>>

VerifyRead(c) == Verifying(c) /\ \E row \in RowsShown(c) : JudgesOrRetries(c, row)

\* Nothing came back, another invoice did, or the read failed.
VerifyMiss(c) == Verifying(c) /\ JudgesOrRetries(c, observed[c])

AdjustHandler(c) ==
  \/ SkusChecked(c) \/ SkuMissing(c) \/ ParentRead(c) \/ ParentUnread(c)
  \/ PostRefused(c) \/ Post(c) \/ PostFails(c)
  \/ Unnamed(c) \/ VerifyRead(c) \/ VerifyMiss(c)

AdjustNext(c) == AdjustHandler(c) \/ CatchUp(c)
=============================================================================
