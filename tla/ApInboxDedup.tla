----------------------------- MODULE ApInboxDedup -----------------------------
(***************************************************************************)
(* The duplicate check over accounts-payable rows                          *)
(* (src/tools/ap_inbox/ap_inbox_dedup_check.ts), a pure function of the    *)
(* rows it is given.                                                       *)
(*                                                                         *)
(* A row is a record: "doc" is the pair (document_id, ocr_result_id), or 0 *)
(* when the caller left an id out; "number" is what was read of the        *)
(* invoice number, "vendor_id" is 0 and "vendor_name" is "" when absent;   *)
(* "amount" is in cents, Unread when it cannot be read.                    *)
(* A printed number is [zeros, core]: how many leading zeros, and what     *)
(* follows them once case, spaces and punctuation are gone.                *)
(***************************************************************************)
EXTENDS Integers, FiniteSets

Unread == -1
NoNumber == [zeros |-> 0, core |-> ""]

(* '000' keeps one zero: it must not look like "no number at all". *)
normalizeInvoiceNumber(number) ==
    IF number.core = "" /\ number.zeros > 0 THEN "0" ELSE number.core

(* Three answers, because a side with only an id cannot be compared with a *)
(* side that has only a name.                                              *)
vendorsMatch(a, b) ==
    IF a.vendor_id > 0 /\ b.vendor_id > 0
    THEN IF a.vendor_id = b.vendor_id THEN "same" ELSE "different"
    ELSE IF a.vendor_name # "" /\ b.vendor_name # ""
    THEN IF a.vendor_name = b.vendor_name THEN "same" ELSE "different"
    ELSE "unknown"

\* Mutant: only the pending copy of the candidate is skipped.
isSameRowInTheSameList(a, b) == a.doc # 0 /\ a.doc = b.doc /\ a.source = b.source
isSameRow(a, b) == a.doc # 0 /\ b.doc # 0 /\ a.doc = b.doc

unreadable(row) == normalizeInvoiceNumber(row.number) = "" \/ row.amount = Unread

(* The rows of one comparison set that the scan meets: the candidate itself *)
(* is skipped, a row that cannot be read only counts as unjudgeable.        *)
others(rows, candidate) == {r \in rows : ~isSameRow(r, candidate)}

sameNumber(rows, candidate) ==
    {r \in others(rows, candidate) :
        /\ ~unreadable(r)
        /\ normalizeInvoiceNumber(r.number) = normalizeInvoiceNumber(candidate.number)}

\* Mutant: a vendor that cannot be compared passes for the same one.
agreesUnlessDifferent(row, candidate) ==
    vendorsMatch(candidate, row) # "different" /\ row.amount = candidate.amount

agrees(row, candidate) ==
    vendorsMatch(candidate, row) = "same" /\ row.amount = candidate.amount

(* dedupCheck: "sets" names the comparison sets the caller supplied, "rows" *)
(* maps each of them to its rows.                                           *)
dedupCheck(candidate, sets, rows) ==
    LET given      == UNION {rows[s] : s \in sets}
        hits       == sameNumber(given, candidate)
        matched    == {r \in hits : agrees(r, candidate)}
        ambiguous  == hits \ matched
        unjudgeable == {r \in others(given, candidate) : unreadable(r)}
        verdict == IF unreadable(candidate) THEN "cannot_judge"
                   ELSE IF matched # {} THEN "duplicate"
                   ELSE IF ambiguous # {} THEN "ambiguous"
                   ELSE IF unjudgeable # {} \/ sets # {"created", "pending"}
                   THEN "cannot_judge"
                   ELSE "clear"
    IN [verdict |-> verdict, matched |-> IF verdict = "cannot_judge" THEN {} ELSE matched]

=============================================================================
