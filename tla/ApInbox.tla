------------------------------- MODULE ApInbox -------------------------------
(***************************************************************************)
(* Filing accounts-payable documents: ap_inbox_list_documents pages and    *)
(* enriches a list that changes under it                                   *)
(* (src/tools/ap_inbox/ap_inbox_list_documents.ts over src/ap-inbox.ts),   *)
(* the caller merges the windows, and the duplicate check and the          *)
(* reconciliation judge what it ended up with.                             *)
(*                                                                         *)
(* A document is a number; a greater number is a newer date, so the list   *)
(* (date, descending) runs from the greatest to the least.                 *)
(***************************************************************************)
EXTENDS ApInboxDedup, SequencesExt

Bills == INSTANCE ApInboxReconcile

CONSTANTS
    Docs,        \* documents, 1..n, by date
    Readings,    \* what OCR may have read: a set of functions from Docs to rows
    PrintedBills,\* bills: their layout, as printed, as read, and what each line costs
    PageSize,    \* page_size
    EnrichLimit, \* enrich_limit
    MAX_PAGES,   \* the stop of the paging loop
    MaxMoves,    \* bound: changes of the inbox in a sitting
    MaxCalls     \* bound: calls of ap_inbox_list_documents in a sitting

(* A bill printed in one of the six layouts: its header is what the lines   *)
(* of that layout add up to.  Any field of it may have been unreadable.     *)
ReadOrNot(read, printed) == read \in {printed, Unread}
IsBill(bill) ==
    /\ \E i \in DOMAIN Bills!modeOrder : bill.layout = Bills!modeOrder[i]
    /\ Bills!eligible(bill.layout, bill.printed)
    /\ bill.printed.header \in Int
    /\ bill.printed.header = Bills!cents(Bills!total(bill.layout, bill.printed))
    /\ bill.charged = Bills!allocations(bill.layout, bill.printed.lines)
    /\ ReadOrNot(bill.read.header, bill.printed.header)
    /\ ReadOrNot(bill.read.tax, bill.printed.tax)
    /\ ReadOrNot(bill.read.shipping, bill.printed.shipping)
    /\ {bill.read.lines, bill.printed.lines} \subseteq
          Seq([quantity : Int, unit_cost : Int, freight : BOOLEAN])
    /\ Len(bill.read.lines) = Len(bill.printed.lines)
    /\ \A i \in DOMAIN bill.printed.lines :
          LET line == bill.printed.lines[i] IN
          /\ bill.read.lines[i].freight = line.freight
          /\ ReadOrNot(bill.read.lines[i].quantity, line.quantity)
          /\ ReadOrNot(bill.read.lines[i].unit_cost, line.unit_cost)

ASSUME ApInboxAssumption ==
    /\ Docs \subseteq Nat \ {0} /\ IsFiniteSet(Docs)
    /\ \A bill \in PrintedBills : IsBill(bill)
    /\ PageSize \in Nat \ {0} /\ EnrichLimit \in Nat \ {0}
    /\ MAX_PAGES \in Nat \ {0} /\ MaxMoves \in Nat /\ MaxCalls \in Nat \ {0}

VARIABLES
    inbox,    \* where each document is: "absent", "pending", "created", "deleted"
    call,     \* the running or last call of ap_inbox_list_documents
    merged,   \* the rows the caller holds
    answer,   \* the last answer of the duplicate check
    posting   \* the last answer of the reconciliation, with its bill

\* What the properties need to know of the past.
VARIABLES
    always,   \* documents that have been in the inbox since the sitting began
    moves,    \* changes of the inbox so far
    stirred   \* changes of the status list being read, since its first page

vars == <<inbox, call, merged, answer, posting, always, moves, stirred>>

NoTotal == -1
NoCandidate == 0
\* Mutant: the filed bills are read first.
StatusesFiledFirst == <<"created", "pending">>
Statuses == <<"pending", "created">>   \* DEFAULT_STATUSES, read in this order

NoCall == [phase |-> "none", at |-> 1, page |-> 1, total |-> NoTotal, rows |-> {},
           listed |-> {}, cursor |-> 0, next |-> 0, number |-> 0, blurred |-> FALSE]
NoAnswer == [candidate |-> NoCandidate, verdict |-> "none"]
NoPosting == [bill |-> [layout |-> "none"]]

Init ==
    /\ inbox \in [Docs -> {"absent", "pending", "created"}]
    /\ call = NoCall /\ merged = {} /\ answer = NoAnswer /\ posting = NoPosting
    /\ always = {d \in Docs : inbox[d] # "absent"}
    /\ moves = 0 /\ stirred = 0

-----------------------------------------------------------------------------
(* The inbox: mail arrives, a colleague files a pending document, or one is *)
(* deleted.  A sitting is over once the caller has its verdict.             *)

Move(d, place) ==
    /\ moves < MaxMoves /\ answer = NoAnswer /\ posting = NoPosting
    /\ \/ inbox[d] = "absent" /\ place = "pending"
       \/ inbox[d] = "pending" /\ place = "created"
       \/ inbox[d] \in {"pending", "created"} /\ place = "deleted"
    /\ inbox' = [inbox EXCEPT ![d] = place]
    /\ moves' = moves + 1
    /\ always' = IF place = "deleted" THEN always \ {d} ELSE always
    /\ stirred' = IF call.phase = "paging" /\ Statuses[call.at] \in {inbox[d], place}
                  THEN stirred + 1 ELSE stirred
    /\ UNCHANGED <<call, merged, answer, posting>>

-----------------------------------------------------------------------------
(* ap_inbox_list_documents.                                                 *)

(* Documents before d in the list of S. *)
ahead(d, S) == Cardinality({e \in S : e > d})
pageOf(S, page) ==
    {d \in S : ahead(d, S) >= (page - 1) * PageSize /\ ahead(d, S) < page * PageSize}

StartCall(cursor) ==
    /\ call.phase # "paging" /\ call.number < MaxCalls
    /\ answer = NoAnswer /\ posting = NoPosting
    /\ cursor \in {0, call.next}
    /\ call' = [NoCall EXCEPT !.phase = "paging", !.cursor = cursor,
                              !.number = call.number + 1, !.blurred = call.blurred]
    /\ stirred' = 0
    /\ UNCHANGED <<inbox, merged, answer, posting, always, moves>>

Throw == call' = [NoCall EXCEPT !.phase = "failed", !.number = call.number, !.blurred = call.blurred]

(* apInboxFetch: the network, an expired session, a challenge page with     *)
(* status 200 and unparseable JSON all end in an exception.                 *)
apInboxFetch(response) == response # "failed"

(* validateRow and the envelope: a 200 without a result, without a total,   *)
(* or with a row that lacks its identity or its flags ends in one too.      *)
validateRow(response) == response # "malformed"

(* A page is refused when the total moved since the first one, when it      *)
(* holds a row of another status, or a row that was seen before.            *)
refusesPage(batch, count) ==
    \/ call.total # NoTotal /\ count # call.total
    \/ \E d \in batch : inbox[d] # Statuses[call.at]
    \/ batch \intersect call.rows # {}

(* Rows in the order of "documents": the statuses one after the other.      *)
position(row, rows) ==
    Cardinality({r \in rows : \/ r.status = "pending" /\ row.status = "created"
                              \/ r.status = row.status /\ r.doc > row.doc})
least(a, b) == IF a < b THEN a ELSE b

(* The rows of the answer: those inside the window carry the invoice number *)
(* and the vendor id that ReadBillDocument returned, unless its answer had  *)
(* no billData, which is taken for a bill without a number.                 *)
window(rows, cursor) ==
    {r \in rows : position(r, rows) >= cursor /\ position(r, rows) < cursor + EnrichLimit}

enrichedRows(rows, read) ==
    {[doc |-> r.doc, status |-> r.status, enriched |-> r \in read] : r \in rows}

(* The caller merges the windows of several calls: one row for each         *)
(* document, an enriched one when there is any.  A first answer is taken as *)
(* it is, with both rows of a document that was filed between the lists.    *)
merges(old, new) ==
    IF old = {} THEN {new} ELSE
    LET all == old \union new
        best(d) == IF \E r \in all : r.doc = d /\ r.enriched
                   THEN {r \in all : r.doc = d /\ r.enriched}
                   ELSE {r \in all : r.doc = d}
    IN {S \in SUBSET UNION {best(r.doc) : r \in all} :
           \A r \in all : Cardinality({s \in S : s.doc = r.doc}) = 1}

(* What a GetBillDocuments request is served: one status, or, when the      *)
(* filter is ignored, both.                                                 *)
served(honoured) ==
    {d \in Docs : IF honoured THEN inbox[d] = Statuses[call.at] ELSE inbox[d] \in Range(Statuses)}
batch(honoured) == pageOf(served(honoured), call.page)
rowsWith(honoured) == call.rows \union batch(honoured)
listedWith(honoured) ==
    call.listed \union {[doc |-> d, status |-> Statuses[call.at]] : d \in rowsWith(honoured)}
complete(honoured) == Cardinality(rowsWith(honoured)) >= Cardinality(served(honoured))

Received(response, honoured) ==
    /\ call.phase = "paging"
    /\ apInboxFetch(response) /\ validateRow(response)
    /\ ~refusesPage(batch(honoured), Cardinality(served(honoured)))

PageThrows(response, honoured) ==
    /\ call.phase = "paging"
    /\ \/ ~Received(response, honoured)
       \/ ~complete(honoured) /\ (batch(honoured) = {} \/ call.page = MAX_PAGES)
    /\ Throw /\ UNCHANGED <<merged, stirred>>

NextPage(response, honoured) ==
    /\ Received(response, honoured)
    /\ ~complete(honoured) /\ batch(honoured) # {} /\ call.page # MAX_PAGES
    /\ call' = [call EXCEPT !.page = @ + 1, !.total = Cardinality(served(honoured)),
                            !.rows = rowsWith(honoured)]
    /\ UNCHANGED <<merged, stirred>>

NextStatus(response, honoured) ==
    /\ Received(response, honoured)
    /\ complete(honoured) /\ call.at < Len(Statuses)
    /\ call' = [call EXCEPT !.at = @ + 1, !.page = 1, !.total = NoTotal, !.rows = {},
                            !.listed = listedWith(honoured), !.blurred = @ \/ stirred > 1]
    /\ stirred' = 0 /\ UNCHANGED merged

(* The last page of the last status goes on to enrich the window.           *)
(* ReadBillDocument reads what is printed, which does not change, so the    *)
(* window is one step; a cursor past the end throws, and any read may.      *)
pastTheEnd(rows) == call.cursor >= Cardinality(rows) /\ rows # {}

EnrichThrows(response, honoured) ==
    /\ Received(response, honoured)
    /\ complete(honoured) /\ call.at = Len(Statuses)
    /\ pastTheEnd(listedWith(honoured)) \/ window(listedWith(honoured), call.cursor) # {}
    /\ Throw /\ UNCHANGED <<merged, stirred>>

Answer(response, honoured) ==
    LET listed == listedWith(honoured)
        end == least(call.cursor + EnrichLimit, Cardinality(listed))
    IN /\ Received(response, honoured)
       /\ complete(honoured) /\ call.at = Len(Statuses)
       /\ ~pastTheEnd(listed)
       /\ call' = [call EXCEPT !.phase = "answered", !.listed = listed, !.rows = {},
                     !.next = IF end < Cardinality(listed) THEN end ELSE 0,
                     !.blurred = @ \/ stirred > 1]
       /\ \E read \in SUBSET window(listed, call.cursor) :
             merged' \in merges(merged, enrichedRows(listed, read))
       /\ UNCHANGED stirred

FetchPage(response, honoured) ==
    /\ \/ PageThrows(response, honoured) \/ NextPage(response, honoured)
       \/ NextStatus(response, honoured) \/ EnrichThrows(response, honoured)
       \/ Answer(response, honoured)
    /\ UNCHANGED <<inbox, answer, posting, always, moves>>

-----------------------------------------------------------------------------
(* The two judgements.                                                      *)

(* slim() and the enrichment: an unenriched row has no number and no vendor *)
(* id, because they were not fetched.                                       *)
asRow(r, reading) ==
    [doc |-> r.doc, source |-> r.status, amount |-> reading[r.doc].amount,
     vendor_name |-> reading[r.doc].vendor_name,
     number    |-> IF r.enriched THEN reading[r.doc].number ELSE NoNumber,
     vendor_id |-> IF r.enriched THEN reading[r.doc].vendor_id ELSE 0]

(* What OCR read is on the paper: it is chosen when it is first looked at.  *)
Dedup(r, sets, reading) ==
    /\ call.phase = "answered" /\ answer = NoAnswer
    /\ r \in merged /\ r.status = "pending"
    /\ LET rows == [s \in {"created", "pending"} |->
                       {asRow(x, reading) : x \in {y \in merged : y.status = s}}]
           result == dedupCheck(asRow(r, reading), sets, rows)
       IN answer' = [candidate |-> r.doc, verdict |-> result.verdict, reading |-> reading,
                     matched |-> {m.doc : m \in result.matched}, blurred |-> call.blurred]
    /\ UNCHANGED <<inbox, call, merged, posting, always, moves, stirred>>

(* The reconciliation looks at nothing but the bill it is given: trying it   *)
(* from an inbox nothing has reached yet loses nothing.                     *)
Reconcile ==
    /\ inbox = [d \in Docs |-> "absent"] /\ call = NoCall /\ posting = NoPosting
    /\ \E bill \in PrintedBills :
          posting' = [bill |-> bill, result |-> Bills!reconcileAmount(bill.read)]
    /\ UNCHANGED <<inbox, call, merged, answer, always, moves, stirred>>

Next ==
    \/ \E d \in Docs, place \in {"pending", "created", "deleted"} : Move(d, place)
    \/ \E cursor \in 0..2 * Cardinality(Docs) : StartCall(cursor)
    \/ \E response \in {"json", "malformed", "failed"}, honoured \in BOOLEAN :
          FetchPage(response, honoured)
    \/ \E r \in merged, sets \in SUBSET {"created", "pending"}, reading \in Readings :
          Dedup(r, sets, reading)
    \/ Reconcile

Spec == Init /\ [][Next]_vars

-----------------------------------------------------------------------------
(* Two documents with the same printed invoice number, once normalized.     *)
SameNumber(d, e) ==
    LET number(x) == normalizeInvoiceNumber(answer.reading[x].number)
    IN number(d) # "" /\ number(d) = number(e)

(* "clear" is the only verdict that means safe to file: whatever arrived,   *)
(* was filed or was deleted while the pages were read, no document that was *)
(* there all along has the invoice number of the candidate.  A list that    *)
(* changed twice between two of its pages is the one exception: a removal   *)
(* and an arrival keep the total and repeat no row (ap_inbox_dedup_check.ts *)
(* dedupCheck, ap_inbox_list_documents.ts paging loop).                     *)
ClearMeansNoTwin ==
    answer.verdict = "clear" /\ ~answer.blurred =>
        \A d \in always \ {answer.candidate} : ~SameNumber(d, answer.candidate)

(* Two bills of one vendor: by the ids when both were read, otherwise by    *)
(* the names.                                                               *)
SameVendor(d, e) ==
    LET bill(x) == answer.reading[x]
        ids == {bill(d).vendor_id, bill(e).vendor_id}
        names == {bill(d).vendor_name, bill(e).vendor_name}
    IN IF \A id \in ids : id > 0 THEN Cardinality(ids) = 1
       ELSE Cardinality(names) = 1 /\ "" \notin names

(* A document is called a duplicate only of another document, that was      *)
(* there, whose number, vendor and amount were read and agree: never of     *)
(* itself, though a document filed between the two lists is in both of them *)
(* (ap_inbox_dedup_check.ts isSameRow, vendorsMatch, dedupCheck).           *)
DuplicateIsAnotherDocument ==
    answer.verdict = "duplicate" =>
        \E d \in answer.matched \ {answer.candidate} :
            /\ inbox[d] # "absent"
            /\ SameNumber(d, answer.candidate) /\ SameVendor(d, answer.candidate)
            /\ answer.reading[d].amount = answer.reading[answer.candidate].amount
            /\ answer.reading[d].amount # Unread

(* A bill that reconciles is posted line by line with what the vendor       *)
(* charged on each line: for every bill printed in one of the six layouts,  *)
(* with any field of it unreadable, the reconciliation holds the bill or    *)
(* allocates the printed amounts (ap_inbox_reconcile_amount.ts              *)
(* reconcileAmount).                                                        *)
LinesPostedAsCharged ==
    posting # NoPosting /\ posting.result.reconciles =>
        Bills!allocations(posting.result.mode, posting.bill.read.lines) = posting.bill.charged
=============================================================================
