# TLA+ models of mcp-servicetitan

mcp-servicetitan is a Cloudflare Worker that offers ServiceTitan to language
models as MCP tools. Requests run concurrently in several isolates; what they
share is a D1 database, a KV namespace, two kinds of Durable Object and
ServiceTitan itself, behind a proxy Worker that lives in another repository.
The code that is hard to test is the code about that sharing: a rate budget,
one-time confirmation tokens, a singleflight lock, writes that are verified by
reading them back, caches and cooldowns. This directory models those parts,
checks them with TLC and proves the most important results with TLAPS.

Paths below are relative to the repository root (`src/` is the program's).

## 1. Inventory

State, operations, and what makes each part correct.

| Part | State | Operations | Hard | Correct when |
|---|---|---|---|---|
| `durable/st-rate-limiter.ts` | aggregate window, window and penalty per family, ledger of report identities; copy in object storage | `check`, `applyBackoff`, `persistState`, constructor | eviction between any two steps, window edges, overlapping penalties, ledger ceiling | bursts bounded, one run per report and minute, penalties honoured, across evictions |
| `rate-limit-guard.ts` | per call: attempt, sleep | `checkRateLimit`, `reportBackoff`, `guardedFamilyFetch` | many callers re-checking, object unreachable | short denials absorbed, each call ends |
| `write-gate.ts`, `write-tool-factory.ts` | `confirmation_tokens` rows | `dryRun`, `verifyToken`, POST | two confirmations at once, equal previews, expiry, a stop after the claim | a token buys at most one write, of what was previewed |
| `durable/customer-snapshot-flight.ts`, `tools/composites/customer_snapshot.ts` | locks in memory, cached row in D1 | acquire, release, poll, fan out, write the row | lost and late releases, stopped holders, eviction | at most one fan-out, recent answers, every call ends |
| `tools/invoicing/st_add_invoice_line_item.ts`, `invoice-verify.ts` | baseline, ids written, last row observed | one PATCH per line, verify-read with backoff | 200s with no effect, replica lag, failure in the middle, other writers | verified means landed; lag is no alarm; errors name what was written |
| `tools/reporting/st_run_report.ts`, `cache.ts` | cooldown per isolate, row in `mcp_cache`, identity ledger | `run`: cooldown, cache, limiter, POST, store | isolates that store in another order, failures of D1 and the limiter | one run per window, cached answers recent and never going back |
| `paged-st-read.ts`, `st.ts` and the tools that list through them | pages collected, attempts, cached lists | paged reads with retries, scans, answers | lists that change under the read, lost pages, caps, hasMore left out | no row lost silently; counts exact; warnings survive the cache |
| `tools/st_patch_service.ts` (`durableWrite`) | instance id, polls | submit, poll | deadline against a late answer, polls that fail | what is reported happened, or is said to be unknown; every call is answered |
| `st_create_adjustment_invoice.ts`, `invoice-verify.ts` | the created id, verify-reads | SKU check, POST, verify | an invoice that cannot be deleted, a replica that lags | an acknowledged invoice is verified or named |
| `assign_technicians.ts` | - | unassign, assign | two calls on one appointment: the second failing, either answered 200 without effect, one landing after its answer was given up | success of calls that took effect leaves the crew asked for |
| `workflows/pricebook-embed.ts`, `supabase.ts`, `scheduled()` | NULL embeddings, last instance in KV | kick, drain, replayed PATCH | overlap, text changing under the drain, no progress | drain ends; a vector belongs to its text |
| `tools/ap_inbox/*`, `ap-inbox.ts` | none; what callers merge | list and enrich, duplicate check, reconciliation | an inbox that changes between pages, windows, unread fields | "clear" and "reconciled" are true |
| `tool-registry.ts`, `index.ts`, `tools/index.ts`, `auth.ts` | the call | admit, register, run, audit | every step of every tool failing | one reply, one audit; readers never write |
| `resources/results.ts`, `obs.ts` | offloaded results, audit rows, KV heartbeat | offload, record | KV or D1 failing | an answer is whole |
| `mirror-freshness.ts`, `gold-watermark.ts`, `d1.ts`, `d1-proxy.ts`, `mirror-pg.ts` | cached build time | probes, retries, verdict | missing, old or future timestamps, failed probes | "silence is never freshness" |
| `composite-helpers.ts`, the other tools under `tools/` | none, or a cache row | reads, fan-outs, gated writes | part of a fan-out failing, swallowed failures, capped scans | holes are named, absence is earned |
| `name-resolver.ts`, `name-cache.ts` | memoised index, KV rows | load, resolve | failed load evicting a newer one | writes never use an ambiguous name |
| `cache.ts` purge | `mcp_cache` rows | purge after a write | a miss that straddles the purge | a purged value is not served again |
| `webhook-ingest.ts`, `oauth.ts`, routes, prompts, catalogs, schemas, scripts | D1 rows, pages | - | - | see `PROJECT.json` |

How they interact: every tool call enters through the registry, which gives a
role its tools, records the call and offloads a large result. Reads go through
the guard, which calls the limiter object and then the proxy, or to the mirrors
in D1 and Postgres, whose age is stamped on the answer. Writes of the factory
pass the gate (D1); four writes report on themselves by polling or reading
back. The snapshot composite adds its own lock object and its own D1 row; the
report tool puts a cache and a cooldown before the guard and hands it an
identity; a cron starts the embedding workflow.

`PROJECT.json` lists every component with its status and every hazard at its
line.

## 2. Modules

| Module | Models | Uses |
|---|---|---|
| `StRateLimiter` | the limiter object | |
| `RateLimitGuard` | callers in several isolates and the object they share | extends `StRateLimiter` |
| `RateLimitProofs` | theorems about both | TLAPS |
| `PreviewedWrite` | what a confirmation token promises (abstract) | |
| `WriteGate` | dry run, verification, consumption, POST | refines `PreviewedWrite` |
| `CustomerSnapshot` | lock object and composite together | |
| `InvoiceLineItems` | one confirmed call, its invoice, the replica, another writer | |
| `InvoiceLineItemsProofs` | theorems about it | TLAPS |
| `ReportRun` | calls in isolates, their cooldowns, the shared cache and ledger | |
| `ReportRunProofs` | theorems about it | TLAPS |
| `PagedRead` | reads page by page of a list that changes, with a cache above | |
| `CompositeReads` | what the tools answer from those pages | extends `PagedRead` |
| `CompositeReadsProofs` | theorems about both | TLAPS |
| `HonestWrite` | what the answer to a confirmed write promises (abstract) | |
| `ConfirmedWrites` | what the write tools share once confirmed | |
| `DurableWrite`, `AdjustmentInvoice`, `TechnicianAssignment` | the three handlers, with the workflow, invoice and crew each acts on | extend `ConfirmedWrites` |
| `ReportedWrites` | concurrent callers of the three | composes them, refines `HonestWrite` |
| `WriteProofs` | theorems about `WriteGate` and `ReportedWrites`, their refinements included | TLAPS |
| `EmbedDrain` | cron, workflow instances, the table, late PATCHes | |
| `SingleflightProofs` | theorems about `CustomerSnapshot` and `EmbedDrain`: one flight for a customer, one drain of the table | TLAPS |
| `ApInboxDedup`, `ApInboxReconcile` | the two judgements, as pure operators | |
| `ApInbox` | the list, its paging and windows, and the calls of both judgements | uses both |
| `ApInboxProofs` | theorems about it | TLAPS |
| `ToolSteps` | the steps handlers are made of | |
| `ToolsMirror`, `ToolsPricebook`, `ToolsLive` | the paths of each tool's handler | extend `ToolSteps` |
| `Disclosure` | the two freshness verdicts, as pure operators | |
| `ToolCatalogue` | the tools, who gets them, what credentials are worth | extends the tool modules |
| `ToolCall` | one call from the door to the envelope | extends both |
| `ToolCallProofs` | theorems about every path of every tool | TLAPS |
| `MC*` | instances for TLC, with the `.cfg` of each run | |

### StRateLimiter and RateLimitGuard

`ledger` is the object's memory, `stored` the value under its storage key. A
request takes three steps, as in the code: the handler computes a verdict and
changes memory (`Check`, `ApplyBackoff`), `PersistState` writes storage,
`Reply` lets the answer out. `Evict` may come between any of them; memory is
then what storage holds and the answer in flight is lost. The platform's input
gates deliver no second request while storage is pending, so one request is in
service at a time. `grants` and `penalties` record what callers were told,
`runs` the report runs storage was ever charged with. A check that names a
report first prunes the ledger (`Kept`): what expired goes, and above the
ceiling the oldest of what did not.

`RateLimitGuard` adds the callers: each makes one `guardedFamilyFetch`. A short
denial puts it to sleep and it checks again (`Pace`, `Wake`), otherwise it
raises; an unreachable object lets it through; a 429 is reported back.

### PreviewedWrite and WriteGate

A preview signs a token from its request and the time (`Sign`) and inserts its
row (`Record`, INSERT OR IGNORE: two equal previews in one millisecond give
one token). A confirmation is matched against the request (`Match`), looked up
(`Lookup`), consumed by the conditional UPDATE (`Consume`), sent (`PostWrite`)
and answered. Every call may stop at any point (`Fail`). Tokens are records that
contain their request: the HMAC is taken to do its work.

### CustomerSnapshot

A call reads the cached row (`Read`), asks the object for the lock (`Acquire`,
`Wait`), polls D1 while somebody else holds it (`Poll`) until its deadline,
fans out (`Settle`), writes the row and releases (`Write`, `Release`,
`LoseRelease`). Locks expire (`Stale`), the object may forget them (`Evict`),
calls may be cancelled (`Stop`).

### InvoiceLineItems

`plan` is the list of lines. The baseline is read, each line is a PATCH that
ends in `PatchOk`, `PatchRefused` or `PatchThrows`, and whatever it ends in,
ServiceTitan may have applied it, dropped it or zeroed its amount. Verify-reads
see `replica`, which is behind `invoice` by any prefix until `CatchUp`; by
verify-read `CaughtUpBy` it has caught up. `Judge` is the verdict on a row.
`named` is the set of items that the error's reader can find from it: ids it
lists, or ids outside a baseline it lists. A price and a cost are kept apart, and
judged as the code judges them: a price against what was sent or, when none
was, against the baseline; a cost against the baseline when it was left out, and
not at all when it was sent (`UpdateLanded`); an append by the sum of the prices. A
plan's lines are as `validateLineItems` lets them through (`IsLine`), and
ServiceTitan has ids enough for what is appended. An update's price is vouched for by
the row that was judged, and a late row can show the amount it asks for
although the present one does not: when it leaves the amount out, repeats the
current one, or shares its item with another update. `UpdatesTell` excludes
these, and `VerifiedIsTrue` claims them only for a current row.

### ReportRun

Calls in two isolates run one report. Each checks its isolate's cooldown
(`HoldOff`, `Begin`), the cached row (`Hit`, `Miss`), the limiter (`Granted`,
`Repeated`, `Denied`, `FailsOpen`), ServiceTitan (`Pull`, `Throttled`,
`Fails`), and stores the row (`Store`). The limiter appears as its callers see
it: a ledger of reports that is pruned by every check, with its ceiling. Which
reports that ceiling has made it forget, and when, is the history variable
`forgotten`; the object itself is `StRateLimiter`.

### PagedRead and CompositeReads

`listing` is ServiceTitan's list for each query, in its order; a row may enter
or leave anywhere between two pages (`RowInserted`, `RowRemoved`). `tool` says
who reads. For a composite each read is a `pagedStRead`: limiter, fetch, retry
with a sleep, and `TakePage`, which decides whether the list is done, full or
to be continued; `PageFailure` keeps what was collected. The two cached tools
read the row of `mcp_cache` (`CacheHit`, `CacheMiss`), drain or scan
(`ScanPage`), fetch jobs by id and store. `cached` names the read whose value
is stored and `from` the read a call answers with. `steady` holds the rows
listed ever since a read began, `disturbed` what happened to its list.
`CompositeReads` has one operator per tool: its answer, a record with its
warnings. A list names no row twice at one time; a read may still see one
twice.

### ReportedWrites

Each caller has confirmed one write. `at` is where its handler is, `told` what
it was answered, `landed` whether its request took effect in full; the answers
of the three tools are classed by what they let a caller conclude: done,
refused, failed, acknowledged (a 200 handed on with its body unread), maybe, named.
`DurableWrite`: the proxy starts a workflow that writes and ends when it
likes, the handler submits and polls. `AdjustmentInvoice`: `created` is what
ServiceTitan acknowledged, `rows` what a replica shows, `Verdict` the judgement
of a verify-read. `TechnicianAssignment`: one appointment, whose `crew` every
caller changes in two calls. Either may be answered 200 and do nothing, which
the handler cannot tell (`UnassignWithoutEffect`, `AssignWithoutEffect`), or fail
and land at any later time (`late`, `LateUnassign`, `LateAssign`), between another
caller's two calls too. `overlap` notes who was not alone, `unheeded` whose 200
was in vain. Each handler's actions are its awaits. A write of one caller may
land after its answer.

### EmbedDrain

`text` and `vector` are the table; a vector remembers the row and the text it
was computed from. An instance selects and embeds (`SelectAndEmbed`), writes
row by row (`sbWriteEmbedding`; `todo` is the set of rows still to write, taken
in any order), judges the batch (`BatchEnds`), and its step
is retried from the start when it throws (`StepFails`). A PATCH whose answer
was given up may arrive at any later time (`PatchArrives`). `Kick`,
`KickBlindly` and `NoteLost` are the cron and what its note in KV may miss.
`raced` and `forgotten` are history: rows that changed while in somebody's
hand, and a cron that lost track of an instance.

### ApInbox

`inbox` maps documents to pending, filed or gone, and moves at any time
(`Move`). `FetchPage` reads a page of one status and validates it: it throws,
goes on to the next page or the next status, or ends with a window of enriched
rows; `merged` is what a caller made of its windows. `Dedup` judges a candidate
against it, `Reconcile` a bill. The two judgements are operators over rows:
numbers are kept as leading zeros and a core, because that is what
normalisation removes; amounts are cents or unread. A bill (`IsBill`) is
printed in one of the six layouts, with any number of lines, and read with any
of its numbers unreadable; the layout a reconciliation picks is its `winner`,
and a bill whose `rivals` post anything else is held.

### ToolCall

A handler is a set of paths, a path a sequence of steps (`ToolSteps`); each of
92 tools is one definition. `ToolCall` runs a path: a step succeeds, fails,
retries or finds sources as old as they happen to be (`world`), and `call`
notes what the answer rests on: the stamp, the tables behind its rows, holes,
swallowed failures. `Respond` and `Throw` are registerTool's two endings.
`Disclosure` computes the verdicts from times as the code does, so that a time
that is missing, ahead or exactly at a threshold is judged as there: one dated
ahead is unprovable for the warehouse and brand new for a mirror.

## 3. Runs

| Run | What it shows |
|---|---|
| `limiter` | bursts and penalties, and the spacing of two reports on a ledger of one, with an eviction possible everywhere |
| `guard` | three callers share a budget: fan-out absorbed, every call ends |
| `write_gate` | two previews and two confirmations of three requests: single use, what was previewed, refinement of `PreviewedWrite` |
| `snapshot` | three calls for one customer: one flight, recent answers, every call ends |
| `line_items` | ten plans: verified is true, lag is no alarm, failures name what landed |
| `report_run` | three calls in two isolates: spacing and order of answers, who arms the cooldown; with a fourth, for another report on a ledger of one, what a forgotten run costs |
| `paged_read` | two reads of one composite, or two calls of one cached tool: incomplete answers say so, complete ones are exact, every read ends |
| `paged_read_capped` | violation: a capped list of today's jobs loses its warning in the cache |
| `reported_writes` | two callers of any of three tools: the answers are honest, an invoice is never lost silently, a success is the crew asked for, every call is answered |
| `embed_drain` | two instances, two rows: vectors of their text, no overlap unless forgotten, every drain ends |
| `ap_inbox` | a moving inbox: clear means no twin, a duplicate is another document, lines are posted as charged |
| `tools` | every path of 92 tools: fresh is earned, absence is earned, holes are named, readers never write, answers are whole |

`paged_read_capped` is a finding in `PROJECT.json`, with the line it
contradicts.

### What modelling met besides

The code differs from what it says of itself in other places. None of these
has a run of its own; the properties above are stated so that they hold with
them.

- The limiter's ledger evicts unexpired reports at its ceiling
  (st-rate-limiter.ts:236), against :139 and :144-145. `SameReportSpacing`,
  `SameReportOncePerWindow` and `AnswersNeverGoBack` say what is left.
- A mirror's newest `synced_at` that lies ahead of the clock is clamped to an age
  of nought and called fresh (mirror-freshness.ts:160, against :54-55, "Every path
  that cannot prove data is current says `unknown`"); the warehouse's stamp calls
  the same date unprovable (gold-watermark.ts:180-187). `FreshIsEarned` takes a
  mirror's date at its word; rows from the cache and tables read only in a join
  are outside it as well.
- A cost that an update sends is never compared with what landed
  (st_add_invoice_line_item.ts:590, against :550, "compare what was sent"), nor is
  its quantity. `VerifiedIsTrue` vouches for prices and for what was left out.
- The unassign call's body is never read: a 200 that removed nobody goes on to
  the second call, which adds the new crew to the old one
  (assign_technicians.ts:57, against :19, "replaces current assignment").
  `AssignsWhatItSays` is about calls that took effect.
- An update-only line-item call accepts the first verify-read, however stale
  (st_add_invoice_line_item.ts:487), so that an omitted amount that was zeroed
  is called verified (:552-553 says it is watched for); and a PATCH that
  throws, rather than being refused, names no items (:418, against :317-318).
  An update that repeats the current amount is called verified too: if the
  PATCH zeroes it, a late row still shows what was asked for. The proof of `VerifiedIsTrue` did
  not go through for such a plan, and TLC showed why.
- The report tool consults its cooldown before its cache
  (st_run_report.ts:212), although its message promises that a cached report
  is served (:217-218).
- The limiter's refusal of the second call of an assignment reads as its refusal
  of the first, and the crew is removed by then (assign_technicians.ts:63).
- The duplicate check skips a filed row it takes for the candidate itself
  (ap_inbox_dedup_check.ts:303, against :167): the caller is not told that the
  candidate is filed already, which no property states.
- `search_pricebook_services` takes a failed lookup for a miss
  (search_pricebook_services.ts:56, against mirror-freshness.ts:101-102).
- Two overlapping assignments of one appointment can both succeed and leave
  the union of their crews (assign_technicians.ts:63, against :19).

### Bounds

Times are small integers that keep the order of the code's constants, not
their size. The limiter runs with windows of two ticks over four instants, enough for
two adjacent windows and a penalty that outlasts one; caps of 3 and 2 make the
halved cap 1 and both caps reachable. The guard's three callers exceed the
family's cap by one, and its clock is free while everybody sleeps: what lag
bounds is the time that passes while a call is under way, so the interleavings
that matter (a denial that outlives its window) stay. The gate needs two
previews for equal tokens and two confirmations for a race; a third adds a
symmetric copy. The snapshot's three calls are a holder, a waiter and one that
slips in after a late release; `StartBy` stops new calls so that the clock's
bound is never what ends one. The line items' plans have at most two lines,
one before and one after the failure, in either order of append and update,
with a cost sent, left out, or sent alone;
the call makes all three verify-reads of the production schedule. The report's
three calls are two pulls and the one that reads what they left; its clock
covers two identity windows and one cache lifetime. With the ceiling at one
report the fourth call, for another, is enough to have the first forgotten; it
comes only where nothing has failed or throttled (`OtherReportInHealth`), because
the two properties it is there for say nothing of what follows. In the limiter's
run two reports on a ledger of one are forgotten, repeated and forgotten again in
its four instants, with a window of three for their identities. That run keeps at
most two penalties, which overlap in every way, and none beside reports
(`FewPenalties`): no code connects the two. The paged reads
have lists of up to three rows, pages of one row and a cap of two pages, so
that lists end before, at and after the cap, one retry per page, and one
change of a list at any position and moment; two changes were run once
(1.9 million states, no error) and are too slow to keep.

Of the confirmed writes two callers suffice for every pair of handlers, equal
ones included; two polls and the production's three verify-reads let a
workflow, a replica and a deadline come in every order; one invoice has a line
and one has two, so that a total can be right with a line missing. The drain
has two rows, a batch of two, a ceiling of two and two attempts, so that a
batch is full, mixed or empty; one row changes once and one PATCH is late. The
inbox has three documents, pages of one, windows of two, three changes and two
calls: a removal with an arrival keeps the total, which is the hard case. The
readings and bills are tables in `MCApInbox`; they have numbers padded, missing and
unread, and vendors that differ by id, by name or by both. A tool call is finite as it is;
times stand on either side of both thresholds, at one of them, at zero, ahead
beyond the tolerance, and missing.

`PartialListsSaySo`, `LapsedMeansUnserved` and `UnpaidScanIsHonest` except lists from which a row was removed under the read.
That is not a bound but a limit of the code: pages are numbered, so a removal
moves the rows behind it forward, one of them onto a page already read, and it
is missed without a warning. An insertion only shows a row twice; counts are
therefore claimed exact for lists that did not change. `hasMore` is left out
only where `pagedStRead` reads: the other loops take its absence for the end,
and rely on the shape `st.ts` documents (st.ts:17-18).

### Fairness

Five specifications have any. `GuardSpec`: the callers' steps, the
object's write and the clock are weakly fair, because isolates and objects
keep running and `setTimeout` fires; no caller has to start, nothing has to
fail. `CustomerSnapshot!Spec`: the steps of accepted calls, releases under way
and the clock; a holder may always stop. `PagedRead!Spec`:
the steps of each read, because the runtime resumes every fetch, timer and D1
call; no change of a list and no expiry is fair. `ReportedWrites!Spec`: each
handler's own steps, because every fetch returns or throws; not the proxy's
workflow, the replica, a call that lands late, or ServiceTitan. `EmbedDrain!DrainSpec`: the work of an
instance, which the platform resumes. Weak fairness is enough: no step
waits for a condition that can be withdrawn for ever. The other components
promise safety only.

## 4. Theorems

All are proved from the assumptions named in the modules, for all values of
the constants; `tlapm` checks them without exception.

**`RateLimitProofs`.** `TypeCorrect` is the typing invariant. `Accounting`
is the inductive invariant behind the burst bounds: memory *and* storage
account for every call a caller was told it may make, each call having a slot
of its own in its windows. Storage must be in it because of evictions: after
one, memory is storage; the answer in service is accounted for in memory from
the verdict on and in storage once saved. `BurstBound` and `FamilyBurstBound`
follow by counting: an interval as long as a window meets at most two windows,
and the pair (which of the two, slot) is an injection of its calls into
`1..2 * cap`. `ReportSpacing` needs another invariant (`ReportInv`): memory and
storage remember every unexpired run, or at least `MaxTracked` other reports
were charged since (`Crowded`), and every entry they hold is a run that was
charged. The second half is what makes the first inductive: an entry is dropped
for `MaxTracked` others that are no older, and each of these is a run
(`DroppedMeansCrowded`). It holds for any number of reports.
`Backoffs` is the invariant behind `BackoffHalves`: memory and storage halve
the family of every penalty its reporter was told is noted, for at least as
long, and no call allowed under it has a slot above the halved cap. A penalty
whose acknowledgement is in flight must be in it, and is younger than every
call.

`GuardUsesLimiter` shows that callers and object together behave as the object
is specified, so that these bounds hold of the system. `FanOutIsAbsorbed` is
about the callers. The object counts slots and does not know whose they are,
and an eviction takes some back: so the invariant (`WaitsAreEarned`) says that
slots *can be* attributed to callers, one each at most, such that memory and
storage count only slots of callers that have started, and each wait of a
caller was for a window of its own, full of other callers' slots. Windows that
ended before a wait did are disjoint from those waited for later; `a` waits
for the aggregate and `b` for the family therefore need `AGGREGATE_CAP * a`
and `HalvedCap * b` other callers, and a refusal needs more denials than the
callers who started can cause. Whose slots they were is not a variable: the
witnesses are chosen anew at each step. It assumes that a wait for the end of a
window is one the guard waits out, as the code's 1200 ms are for windows of
1000 (`rate-limit-guard.ts:118`); and, as the property says, that the
callers run no reports.

**`WriteProofs`**, of the gate. `GateCorrect` proves the invariant `GateInv`, what a
call at each step knows about its token; single use is not inductive without
it, because the UPDATE of one call and the POST of another are related only
through `used`. `SingleUse`, `PreviewedOnly` and `FinalClaims` follow, and
`GateImplementsPromise` maps every step to an `Offer`, `Claim` or `Send` of
`PreviewedWrite`, or to a stutter.

**`WriteProofs`**, of what follows the gate. `WritesCorrect` proves the invariant `WritesInv`:
a call is answered exactly when its handler is over; a workflow exists only
after a submit that went through, and none lands without one; until the POST
there is no invoice, and after it a row that looks whole, in ServiceTitan or
as last observed, means the invoice has landed; between the two calls of an
assignment that met no other and whose first call took effect the appointment
is empty; and a call lands late only for a caller already answered that it
failed. The last row observed
must be in it because a verify-read that misses judges by it. `StraysAreNamed`
is part of it; `WritesAreHonest` maps every step to an `Answer` or a `Land` of
`HonestWrite`, or to a stutter; `AssignsAsSaid` follows from the last conjunct.
They assume that an adjustment has a line at least (`LinesAssumption`), which
the tool's schema asks for (`st_create_adjustment_invoice.ts:236`); the proof
needs it to tell the lines asked for from the markers of an absent row.

**`SingleflightProofs`**, of the snapshot. `SnapshotCorrect` proves `SnapshotInv`: a holder
is never later than its timers and `MaxLag` allow; beyond one holder for each
eviction there is one at most, the one the lock belongs to; a row expires
within its lifetime of when it was read and built. The first part is what the
second needs: a lock can be taken over when it is stale, and a holder that is
punctual has let go before (`FanoutTimeout + MaxLag <= LockTtl`: in the code the
fan-out ends after 15 s and a lock is stale after 30). `FlightsAreBounded` and
`RowsAreRecent` follow.

**`InvoiceLineItemsProofs`.** `LineItemsCorrect` proves `LineInv`: an item the
call created belongs to one of its lines and was on no row before it; a row
that shows it shows it as it is; an item that was there shows its old or its
present amount; a row that has the last line's item is not late; and a verdict
is about the row last read. `VerifiedMeansLanded` then has to get from sums to
lines: the rows of the append's items, as many as were appended, add up to
what was sent. It speaks of prices, and of the costs that were left out; of a
cost that was sent it says nothing, as the code compares none. `LagRaisesNoAlarm` and `FailuresNameItems` follow from the last
two parts and from the first.

**`ReportRunProofs`.** `ReportRunCorrect` proves `ReportRunInv`. While D1 and
the limiter answer and no call outlasts the window, the call under way for a
report is the one granted last, every other grant of it is a window older, and
its row is as young as any answer given; or the ledger's ceiling has forgotten
the report since (`BeforeForgetting`, and `Adrift` for a call then under way).
`RunsAreSpaced` and `DataNeverGoesBack`
need both: that two calls never pull one report at once is why the later store
is the younger one. `OnlyThrottlingBlocks` needs only that each cooldown was
told of throttling.

**`CompositeReadsProofs`.** `CompositeCorrect` proves `CompositeInv`: what a
read has collected, together with the pages still to come, holds every row
that was listed throughout; a read that ended with nothing left out has them
all; one that was cut short or lost a page carries a warning; a read of a list
that did not change has each row once, in its order; and the cache serves
finished reads only. It must speak of the position in the list, because an
insertion moves rows behind the next page and never before it.
`PartialListsAreMarked`, `LapsedAreUnserved` and `UnpaidScansAreHonest` follow;
`CountsAreOfTheRange` also counts, by a bijection of rows and places.

**`SingleflightProofs`**, of the drain. `EmbedCorrect` proves `EmbedInv`: a PATCH that is to be
sent, or given up and still under way, is of its own row and of the row's
present text, unless that changed under it; and whoever is at work is the
instance the cron created last, unless it lost track of one. `VectorsMatch`
and `DrainsAreAlone` follow.

**`ApInboxProofs`.** `InboxCorrect` proves `InboxInv`. Its core, `ListInv`, says
what the rows read so far and the total of the first page tell of a list that
may change between any two pages: as long as it has changed once at most,
either every row read is still listed, or one has left and the total still
counts it. The read ends when it has as many rows as the total says, so a
counting argument (`SameSize`, `ReadToTheEnd`) makes it the whole list; and a
document that is filed moves from the list being read to the one that is read
next, so whoever was there all along is in one of them (`NobodySlips`) and
survives the merging of windows (`MergeKeepsAll`). `ClearIsSafe` and
`DuplicatesAreOthers` then need what `dedupCheck` makes of such rows
(`DedupIsRight`): an unread number is never taken for another one, and a
duplicate has the candidate's vendor, by id where both were read with one and by
name otherwise.
`BillsPostedAsCharged` needs no induction over lines: among the layouts that
reach the header's total is the one the bill was printed in (`LayoutMatches`,
because a bill that is not refused is read as printed), and a bill whose
matching layouts disagree on a line is held. It assumes that a bill is what
`IsBill` says; number of documents, page size, window and number of changes
and calls are free.

**`ToolCallProofs`.** An answer's claims depend on what the handler has still
to do as much as on what it did. So every path keeps a discipline: a tool that
writes is marked as one; a path that may say "there is none" has no read whose
failure or cap would pass for absence; a step that may leave a hole is followed
by one that tells of it, and a handler that catches leaves none; rows are dated
by the step that reads them first, which probes every table, or asks about
every build, that they or later rows come from. `ToolsKeep` shows it of all 92
tools by cases, `TailDisciplined` of what is left of a path, and `CallCorrect`
proves by induction over the steps that what a call has in hand agrees with
what is left (`Inv`). `FreshIsProved`, `AbsenceIsProved`, `HolesAreTold`,
`ReadersAreKept` and `AnswersAreWhole` follow. The freshness argument rests on
`MirrorDates` and `WarehouseDates`, about the two verdicts for every time and
threshold: a watermark that is fifteen minutes old may be of the build before,
but never makes a build look younger than its threshold allows. It holds for
every set of ages that are integers or missing, with any thresholds and any
number of retries. `FreshIsProved` takes a mirror's date at its word, one ahead of the clock
included: what it rules out is a table or build dated too far back, undated, or,
for a build, too far ahead. Tables read only in a join carry no stamp and are
outside it. A tool that is added to the catalogue needs a line in one
lemma: if its paths keep the discipline the rest of the proof stands.

The invariants behind these theorems (`Accounting`, `Backoffs`,
`WaitsAreEarned`, `GateCorrect`, `WritesCorrect`, `SnapshotCorrect`,
`LineItemsCorrect`, `ReportRunCorrect`, `CompositeCorrect`, `EmbedCorrect`,
`InboxCorrect`, `CallCorrect`) are checked by no run: TLC checked each first, that of the callers with variables
for whose slots they are, and they hold now by proof.

Every safety property of a passing run is the statement of a theorem.
Model-checked only is liveness (`EveryCallEnds` of the guard and of the
snapshot, `EveryReadEnds`, `EveryWriteIsAnswered`, `EveryDrainEnds`), which is
beyond the prover.

## 5. Not modelled

What a response contains beyond what a verdict depends on; formatting, logging
and spans; the proxy Worker, ServiceTitan, D1, KV and the platform, except as
the nondeterministic environment described above; cryptography. The unguarded
paths that spend budget without asking the limiter
(`composite-helpers.ts`, the POST of `write-tool-factory.ts`) are not callers
in `RateLimitGuard`. Purges of the result cache, and the miss that straddles
one; how the name index is loaded and memoised; reading an offloaded result
back; the heartbeat's read-modify-write. Webhook ingest is one INSERT OR
IGNORE; the OAuth glue hands a decision to a library that is not in the
repository; routes, prompts, catalogues and schemas are texts and single
reads. `PROJECT.json` gives the reason for each component.

## 6. Left

Models: the purge race, whose hazard is the one that no property covers, and
the name index. Proofs: none of a safety property; the liveness properties
wait for a prover that has ENABLED and fairness.
