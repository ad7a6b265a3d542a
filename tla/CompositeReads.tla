--------------------------- MODULE CompositeReads ---------------------------
(***************************************************************************)
(* What the tools answer from the pages PagedRead collects: the composites *)
(* over one read, commercial_plumbing_opportunities over two, and the      *)
(* cached list_jobs_today and list_unpaid_invoices.                        *)
(***************************************************************************)
EXTENDS PagedRead

CONSTANTS
  Historical, Recent, \* the reads of commercial_plumbing_opportunities
  Categorised,        \* services that have a category
  CustomerOf          \* the customer of each job

ASSUME CompositeReadsAssumption ==
  /\ {Historical, Recent} \subseteq Reads
  /\ Categorised \subseteq Rows
  /\ DOMAIN CustomerOf = Rows

Finished(r) == tool = "composite" /\ pc[r] = "done"

\* Nothing could be read: the composites throw upstream_error.
Throws(r) == out[r].pageCount = 0 /\ out[r].failed

Only(warning, cond) == IF cond THEN {warning} ELSE {}

margin_audit(r) ==
  [_warnings |-> out[r].warnings, _truncated |-> out[r].truncated,
   _partial |-> out[r].failed, jobCount |-> Len(out[r].items)]

call_quality_review(r) ==
  [_warnings |-> out[r].warnings, _truncated |-> out[r].truncated,
   _partial |-> out[r].failed, callCount |-> Len(out[r].items)]

\* The joins of technicians and job flags add fields to an appointment, or
\* fail and end the call; none drops an appointment.
dispatch_override_audit(r) ==
  [_warnings |-> out[r].warnings, _truncated |-> out[r].truncated,
   _partial |-> out[r].failed,
   appointmentCount |-> Len(out[r].items), appointments |-> ToSet(out[r].items)]

membership_outreach_list(r) ==
  [_warnings |-> out[r].warnings \union Only("outreach_list_incomplete", out[r].truncated),
   _truncated |-> out[r].truncated, _partial |-> out[r].failed,
   contacts |-> ToSet(out[r].items), count |-> Len(out[r].items)]

\* Memberships sold by each employee (here: the customer of the row).
Sold(rows, seller) == Cardinality({i \in DOMAIN rows : CustomerOf[rows[i]] = seller})

Sellers == {CustomerOf[m] : m \in Rows}

membership_jackpot_leaderboard(r) ==
  [_warnings |-> out[r].warnings \union Only("ranking_unsafe", out[r].truncated),
   _truncated |-> out[r].truncated, _partial |-> out[r].failed,
   counts |-> [s \in Sellers |-> Sold(out[r].items, s)]]

pricebook_health_check_services(r) ==
  LET populationComplete == ~out[r].truncated /\ ~out[r].failed IN
  [_warnings |-> out[r].warnings \union Only("partial_population", ~populationComplete),
   _truncated |-> out[r].truncated, _partial |-> out[r].failed,
   healthy |-> populationComplete /\ ToSet(out[r].items) \subseteq Categorised]

\* Mutant: only the historical read's warnings are passed on.
OpportunitiesUnwarned ==
  LET customers(r) == {CustomerOf[job] : job \in ToSet(out[r].items)} IN
  [opportunities |-> customers(Historical) \ customers(Recent),
   _warnings |-> out[Historical].warnings,
   _partial |-> out[Historical].failed \/ out[Recent].failed]

commercial_plumbing_opportunities ==
  LET customers(r) == {CustomerOf[job] : job \in ToSet(out[r].items)} IN
  [opportunities |-> customers(Historical) \ customers(Recent),
   _warnings |-> out[Historical].warnings \union out[Recent].warnings
                 \union Only("recent_window_truncated", out[Recent].truncated)
                 \union Only("historical_window_truncated", out[Historical].truncated),
   _partial |-> out[Historical].failed \/ out[Recent].failed]

\* Without the filters by status and business unit (part of the cache's key).
\* The warning is kept beside the cached value, in the call that drained.
list_jobs_today(r) ==
  [jobs |-> ToSet(out[from[r]].items), _warnings |-> out[r].warnings]

\* The warning is part of the cached value. "invoices" holds the caller's
\* window and the windows before it: the first Needed rows with a balance.
list_unpaid_invoices(r) ==
  LET items == out[from[r]].items
      unpaid == Balanced(items)
      window == {i \in unpaid : Cardinality({j \in unpaid : j < i}) < Needed}
  IN [invoices |-> {items[i] : i \in window},
      _unpaid_found |-> Cardinality(unpaid),
      _scan_complete |-> ~out[from[r]].truncated,
      _warnings |-> out[from[r]].warnings]

-----------------------------------------------------------------------------
(* Properties.                                                             *)

\* A list a caller acts on is complete or says that it is not: unless a row
\* was removed under the read, an answer without a warning holds every row
\* that was listed throughout, whatever was inserted, throttled or lost, and
\* a pricebook called healthy has no service without a category on a page
\* nobody read.
PartialListsSaySo ==
  \A r \in Reads :
    /\ Finished(r) /\ ~Throws(r) /\ "removed" \notin disturbed[r]
    => /\ membership_outreach_list(r)._warnings = {}
            => /\ steady[r] \subseteq membership_outreach_list(r).contacts
               /\ steady[r] \subseteq dispatch_override_audit(r).appointments
       /\ pricebook_health_check_services(r).healthy => steady[r] \subseteq Categorised

\* Counts are of the whole range, each row once, however often a page was
\* retried: an answer without a warning over a list that did not change.
CountsAreExact ==
  \A r \in Reads :
    /\ Finished(r) /\ ~Throws(r) /\ disturbed[r] = {}
    /\ margin_audit(r)._warnings = {}
    => /\ margin_audit(r).jobCount = Cardinality(steady[r])
       /\ call_quality_review(r).callCount = Cardinality(steady[r])
       /\ \A s \in Sellers :
            membership_jackpot_leaderboard(r).counts[s] =
              Cardinality({m \in steady[r] : CustomerOf[m] = s})

\* A customer listed as lapsed, by an answer without a warning, has no job
\* in the recent window, although the two windows are read at different
\* paces and either may be cut short or lose pages.
LapsedMeansUnserved ==
  /\ Finished(Historical) /\ Finished(Recent)
  /\ ~Throws(Historical) /\ ~Throws(Recent)
  /\ "removed" \notin disturbed[Recent]
  /\ commercial_plumbing_opportunities._warnings = {}
  => commercial_plumbing_opportunities.opportunities
       \intersect {CustomerOf[job] : job \in steady[Recent]} = {}

\* "No unpaid invoices" and "stopped looking" never look alike, in the call
\* that scanned or from the cache: a complete scan that did not fill the
\* window has found every invoice with a balance that was there throughout.
UnpaidScanIsHonest ==
  \A r \in Reads :
    /\ tool = "list_unpaid_invoices" /\ pc[r] = "done"
    /\ "removed" \notin disturbed[from[r]]
    /\ list_unpaid_invoices(r)._scan_complete
    /\ list_unpaid_invoices(r)._unpaid_found < Needed
    => steady[from[r]] \intersect Unpaid
         \subseteq list_unpaid_invoices(r).invoices

\* Every read ends, whatever is throttled and for how long pages follow.
EveryReadEnds == \A r \in Reads : <>(pc[r] \in {"done", "thrown"})

\* What appointment_pages_capped is for (list_jobs_today.ts): an answer that
\* may omit jobs of today says so.
CappedJobsSaySo ==
  \A r \in Reads :
    /\ tool = "list_jobs_today" /\ pc[r] = "done"
    /\ "removed" \notin disturbed[from[r]]
    /\ list_jobs_today(r)._warnings = {}
    => steady[from[r]] \subseteq list_jobs_today(r).jobs
=============================================================================
