----------------------------- MODULE PagedRead -----------------------------
(***************************************************************************)
(* Reading a ServiceTitan list page by page: pagedStRead                   *)
(* (src/src/paged-st-read.ts), used by the composites, and readSTPaged     *)
(* (src/src/st.ts) or a loop of its own under the result cache             *)
(* (src/src/cache.ts), used by list_jobs_today and list_unpaid_invoices.   *)
(*                                                                         *)
(* Pages are numbered, and ServiceTitan (external) cuts them from a list   *)
(* that changes while it is read. It may also throttle, fail, or leave     *)
(* hasMore out of its answers. Waits for the limiter are RateLimitGuard's: *)
(* here a read is let through or denied.                                   *)
(***************************************************************************)
EXTENDS Integers, Sequences, FiniteSets, SequencesExt

CONSTANTS
  Reads,     \* the reads of one composite, or calls of one cached tool
  Rows,      \* rows ServiceTitan may list
  PageSize,  \* pageSize
  MaxPages,  \* maxPages, MAX_SCAN_PAGES
  Retries,   \* retries
  Unpaid,    \* the rows with a balance
  Needed,    \* rows list_unpaid_invoices looks for: page * pageSize
  NoRead,    \* no cached value
  Lists,     \* lists ServiceTitan may hold when the reads begin
  MaxEdits   \* bound on changes of the lists

ASSUME PagedReadAssumption ==
  /\ {PageSize, MaxPages, Needed} \subseteq Nat \ {0}
  /\ {Retries, MaxEdits} \subseteq Nat
  /\ Lists \subseteq Seq(Rows) /\ \A l \in Lists : IsInjective(l)
  /\ Unpaid \subseteq Rows
  /\ NoRead \notin Reads

VARIABLES
  tool,      \* the tool that reads
  tellsMore, \* whether ServiceTitan's answers carry hasMore
  listing,   \* for each query, the rows in ServiceTitan's order
  edits,     \* changes of the lists so far
  pc,        \* where each read is
  page,      \* the page it asks for next
  attempt,   \* attempt
  out,       \* what it has collected
  cached,    \* the read whose value mcp_cache holds
  from,      \* the read whose value each call answers with
  steady,    \* history: rows listed ever since the read began
  disturbed  \* history: changes of the list under the read

vars == <<tool, tellsMore, listing, edits, pc, page, attempt, out, cached,
          from, steady, disturbed>>

Tools == {"composite", "list_jobs_today", "list_unpaid_invoices"}

Nothing == [items |-> <<>>, pageCount |-> 0, truncated |-> FALSE,
            failed |-> FALSE, warnings |-> {}]

\* The windows of a composite are queries of their own; calls of a cached
\* tool with one key ask the same query.
Query(r) == IF tool = "composite" THEN r ELSE CHOOSE q \in Reads : TRUE

UnderWay(r) == pc[r] \in {"ask", "fetch", "sleep", "scan"}

-----------------------------------------------------------------------------
(* ServiceTitan's list.                                                    *)

PageItems(r) ==
  LET rows == listing[Query(r)]
      first == (page[r] - 1) * PageSize + 1
      last == page[r] * PageSize
  IN SubSeq(rows, first, IF last < Len(rows) THEN last ELSE Len(rows))

More(r) == page[r] * PageSize < Len(listing[Query(r)])

Note(q, change) ==
  disturbed' = [r \in Reads |-> IF Query(r) = q /\ UnderWay(r)
                                THEN disturbed[r] \union {change}
                                ELSE disturbed[r]]

RowInserted(q) ==
  /\ edits < MaxEdits
  /\ \E row \in Rows \ ToSet(listing[q]), i \in 1 .. Len(listing[q]) + 1 :
       listing' = [listing EXCEPT ![q] = SubSeq(@, 1, i - 1) \o <<row>> \o SubSeq(@, i, Len(@))]
  /\ edits' = edits + 1
  /\ Note(q, "inserted")
  /\ UNCHANGED <<tool, tellsMore, pc, page, attempt, out, cached, from, steady>>

RowRemoved(q) ==
  /\ edits < MaxEdits
  /\ \E i \in DOMAIN listing[q] :
       /\ listing' = [listing EXCEPT ![q] = SubSeq(@, 1, i - 1) \o SubSeq(@, i + 1, Len(@))]
       /\ steady' = [r \in Reads |-> IF Query(r) = q /\ UnderWay(r)
                                     THEN steady[r] \ {listing[q][i]}
                                     ELSE steady[r]]
  /\ edits' = edits + 1
  /\ Note(q, "removed")
  /\ UNCHANGED <<tool, tellsMore, pc, page, attempt, out, cached, from>>

-----------------------------------------------------------------------------
(* pagedStRead.                                                            *)

Go(r, to) == pc' = [pc EXCEPT ![r] = to]

Began(r) == steady' = [steady EXCEPT ![r] = ToSet(listing[Query(r)])]

Begin(r) ==
  /\ tool = "composite" /\ pc[r] = "start"
  /\ Go(r, "ask")
  /\ Began(r)
  /\ UNCHANGED <<tool, tellsMore, listing, edits, page, attempt, out, cached,
                 from, disturbed>>

CheckRateLimit(r) ==
  /\ pc[r] = "ask"
  /\ Go(r, "fetch")
  /\ UNCHANGED <<tool, tellsMore, listing, edits, page, attempt, out, cached,
                 from, steady, disturbed>>

\* The limiter denies, the fetch throws, the body is no JSON, the status is
\* not one to retry, or the retries are used up.
PageFailure(r) ==
  /\ pc[r] \in {"ask", "fetch"}
  /\ out' = [out EXCEPT ![r].failed = TRUE,
                        ![r].warnings = @ \union {"partial_pagination_failure"}]
  /\ Go(r, "done")
  /\ UNCHANGED <<tool, tellsMore, listing, edits, page, attempt, cached, from,
                 steady, disturbed>>

\* Mutant: attempt is not counted.
RetryForever(r) ==
  /\ pc[r] = "fetch" /\ attempt[r] < Retries
  /\ Go(r, "sleep")
  /\ UNCHANGED <<tool, tellsMore, listing, edits, page, attempt, out, cached,
                 from, steady, disturbed>>

\* 429, 502, 503 or 504.
Retry(r) ==
  /\ pc[r] = "fetch" /\ attempt[r] < Retries
  /\ attempt' = [attempt EXCEPT ![r] = @ + 1]
  /\ Go(r, "sleep")
  /\ UNCHANGED <<tool, tellsMore, listing, edits, page, out, cached, from,
                 steady, disturbed>>

Wake(r) ==
  /\ pc[r] = "sleep"
  /\ Go(r, "ask")
  /\ UNCHANGED <<tool, tellsMore, listing, edits, page, attempt, out, cached,
                 from, steady, disturbed>>

\* Mutant: an answer without hasMore is the last one.
LooksDoneUntold(r) == ~tellsMore \/ ~More(r)

LooksDone(r) == IF tellsMore THEN ~More(r) ELSE Len(PageItems(r)) < PageSize

\* Mutant: the loop's own bound ends the read, before the cap is noted.
TakePageUnflagged(r) ==
  /\ pc[r] = "fetch"
  /\ out' = [out EXCEPT ![r].items = @ \o PageItems(r), ![r].pageCount = @ + 1]
  /\ page' = [page EXCEPT ![r] = @ + 1]
  /\ attempt' = [attempt EXCEPT ![r] = 0]
  /\ Go(r, IF LooksDone(r) \/ page[r] = MaxPages THEN "done" ELSE "ask")
  /\ UNCHANGED <<tool, tellsMore, listing, edits, cached, from, steady,
                 disturbed>>

TakePage(r) ==
  LET full == ~LooksDone(r) /\ page[r] = MaxPages IN
  /\ pc[r] = "fetch"
  /\ out' = [out EXCEPT ![r].items = @ \o PageItems(r),
                        ![r].pageCount = @ + 1,
                        ![r].truncated = full,
                        ![r].warnings =
                          @ \union IF full THEN {"truncated_at_max_pages"} ELSE {}]
  /\ page' = [page EXCEPT ![r] = @ + 1]
  /\ attempt' = [attempt EXCEPT ![r] = 0]
  /\ Go(r, IF LooksDone(r) \/ full THEN "done" ELSE "ask")
  /\ UNCHANGED <<tool, tellsMore, listing, edits, cached, from, steady,
                 disturbed>>

-----------------------------------------------------------------------------
(* The cached tools.                                                       *)

CacheHit(r) ==
  /\ tool # "composite" /\ pc[r] = "start" /\ cached # NoRead
  /\ from' = [from EXCEPT ![r] = cached]
  /\ Go(r, "done")
  /\ UNCHANGED <<tool, tellsMore, listing, edits, page, attempt, out, cached,
                 steady, disturbed>>

\* No row, or D1 could not read it.
CacheMiss(r) ==
  /\ tool # "composite" /\ pc[r] = "start"
  /\ Go(r, "scan")
  /\ Began(r)
  /\ UNCHANGED <<tool, tellsMore, listing, edits, page, attempt, out, cached,
                 from, disturbed>>

\* readST throws: any failed read ends the call.
ReadThrows(r) ==
  /\ pc[r] \in {"scan", "jobs"}
  /\ Go(r, "thrown")
  /\ UNCHANGED <<tool, tellsMore, listing, edits, page, attempt, out, cached,
                 from, steady, disturbed>>

\* What list_unpaid_invoices collects: the rows read that have a balance, by
\* their places among the rows read.
Balanced(items) == {i \in DOMAIN items : items[i] \in Unpaid}

WindowFilled(items) == tool = "list_unpaid_invoices" /\ Cardinality(Balanced(items)) >= Needed

ScanEnds(r, items) == ~More(r) \/ page[r] = MaxPages \/ WindowFilled(items)

\* Mutant: the page budget counts as the end of the list.
CutShortUnseen(r, items) == tool = "list_jobs_today" /\ More(r) /\ page[r] = MaxPages

\* hitCap of readSTPaged, or not _scan_complete of list_unpaid_invoices.
CutShort(r, items) == More(r) /\ page[r] = MaxPages /\ ~WindowFilled(items)

ScanPage(r) ==
  LET items == out[r].items \o PageItems(r) IN
  /\ pc[r] = "scan"
  /\ out' = [out EXCEPT ![r].items = items,
                        ![r].pageCount = @ + 1,
                        ![r].truncated = CutShort(r, items),
                        ![r].warnings =
                          @ \union IF CutShort(r, items) THEN {"capped"} ELSE {}]
  /\ page' = [page EXCEPT ![r] = @ + 1]
  /\ Go(r, IF ~ScanEnds(r, items) THEN "scan"
           ELSE IF tool = "list_jobs_today" /\ items # <<>> THEN "jobs"
           ELSE "store")
  /\ UNCHANGED <<tool, tellsMore, listing, edits, attempt, cached, from,
                 steady, disturbed>>

\* The parent jobs, in batches by id.
FetchJobs(r) ==
  /\ pc[r] = "jobs"
  /\ Go(r, "store")
  /\ UNCHANGED <<tool, tellsMore, listing, edits, page, attempt, out, cached,
                 from, steady, disturbed>>

\* D1 may fail to write.
CacheStore(r) ==
  /\ pc[r] = "store"
  /\ cached' \in {cached, r}
  /\ Go(r, "done")
  /\ UNCHANGED <<tool, tellsMore, listing, edits, page, attempt, out, from,
                 steady, disturbed>>

Expire ==
  /\ cached # NoRead
  /\ cached' = NoRead
  /\ UNCHANGED <<tool, tellsMore, listing, edits, pc, page, attempt, out, from,
                 steady, disturbed>>

-----------------------------------------------------------------------------
\* hasMore is left out only where pagedStRead reads: the other loops take an
\* answer without it for the last one, and rely on ServiceTitan to give it.
Init ==
  /\ tool \in Tools
  /\ tellsMore \in BOOLEAN
  /\ tool # "composite" => tellsMore
  /\ listing \in [Reads -> Lists]
  /\ edits = 0
  /\ pc = [r \in Reads |-> "start"]
  /\ page = [r \in Reads |-> 1]
  /\ attempt = [r \in Reads |-> 0]
  /\ out = [r \in Reads |-> Nothing]
  /\ cached = NoRead
  /\ from = [r \in Reads |-> r]
  /\ steady = [r \in Reads |-> {}]
  /\ disturbed = [r \in Reads |-> {}]

PagedStRead(r) == Begin(r) \/ CheckRateLimit(r) \/ PageFailure(r) \/ Retry(r)
                  \/ Wake(r) \/ TakePage(r)

CachedTool(r) == CacheHit(r) \/ CacheMiss(r) \/ ReadThrows(r) \/ ScanPage(r)
                 \/ FetchJobs(r) \/ CacheStore(r)

Next ==
  \/ \E r \in Reads : PagedStRead(r) \/ CachedTool(r)
  \/ \E r \in Reads : RowInserted(Query(r)) \/ RowRemoved(Query(r))
  \/ Expire

\* The runtime resumes every fetch, timer and D1 call; nothing makes
\* ServiceTitan change a list or D1 expire a row.
Fairness == \A r \in Reads : WF_vars(PagedStRead(r) \/ CachedTool(r))

Spec == Init /\ [][Next]_vars /\ Fairness
=============================================================================
