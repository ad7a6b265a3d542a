----------------------------- MODULE ReportRun -----------------------------
(***************************************************************************)
(* st_run_report, mode=run (src/src/tools/reporting/st_run_report.ts):     *)
(* concurrent calls in several isolates, the result cache they share in D1 *)
(* (src/src/cache.ts), the cooldown each isolate keeps, and the limiter's  *)
(* rule of one run per report and window, seen as its callers see it: the  *)
(* ledger of reports with its ceiling, without the counters or evictions   *)
(* (the object itself is StRateLimiter; its waits are part of the lag).    *)
(*                                                                         *)
(* ServiceTitan (external) answers, throttles or fails as it likes; D1 may *)
(* fail a read or a write; the limiter may be out of reach.                *)
(***************************************************************************)
EXTENDS Integers, FiniteSets

CONSTANTS
  Calls,
  Reports,
  Isolates,
  ReportOf,       \* the identity each call runs
  IsolateOf,      \* the isolate it runs in
  IdentityWindow, \* IDENTITY_WINDOW_MS
  MaxTracked,     \* MAX_TRACKED_IDENTITIES
  CacheTtl,       \* REPORT_RUN_TTL_SEC
  RetryAfters,    \* what a 429 or a budget denial tells the caller to wait
  MaxLag,         \* bound on ticks while some call is under way
  MaxTime         \* bound on the clock

ASSUME ReportRunAssumption ==
  /\ ReportOf \in [Calls -> Reports]
  /\ IsolateOf \in [Calls -> Isolates]
  /\ IsFiniteSet(Reports)
  /\ IdentityWindow \in Nat \ {0}
  /\ MaxTracked \in Nat \ {0}
  /\ CacheTtl \in Nat \ {0}
  /\ RetryAfters \subseteq Nat \ {0}
  /\ MaxLag \in Nat
  /\ MaxTime \in Nat

VARIABLES
  now,       \* Date.now()
  lag,       \* ticks counted against MaxLag
  pc,        \* where each call is, or how it ended
  until,     \* reportRunCooldownUntil of each isolate
  row,       \* the report's row of mcp_cache
  lastRun,   \* the limiter's ledger of identities
  pulled,    \* when ServiceTitan produced the data a call holds
  begun,     \* history: when a call began
  ended,     \* history: when a call was answered
  runs,      \* history: the runs that reached ServiceTitan
  throttles, \* history: the throttling each isolate was told of
  degraded,  \* history: D1 failed, or the limiter was out of reach
  forgotten  \* history: when the ledger's ceiling last dropped each report's
             \* entry though it had not expired

vars == <<now, lag, pc, until, row, lastRun, pulled, begun, ended,
          runs, throttles, degraded, forgotten>>

shared == <<until, row, lastRun, forgotten>>
history == <<begun, ended, runs, throttles, degraded>>

Never == -1
NoRow == [pulled |-> Never, expires |-> Never]

Answered == {"cached", "live"}
Done == Answered \cup {"cooled", "repeat", "limited", "throttled", "failed"}

Init ==
  /\ now = 0
  /\ lag = 0
  /\ pc = [c \in Calls |-> "idle"]
  /\ until = [i \in Isolates |-> 0]
  /\ row = [r \in Reports |-> NoRow]
  /\ lastRun = [r \in Reports |-> Never]
  /\ pulled = [c \in Calls |-> Never]
  /\ begun = [c \in Calls |-> Never]
  /\ ended = [c \in Calls |-> Never]
  /\ runs = {}
  /\ throttles = {}
  /\ degraded = FALSE
  /\ forgotten = [r \in Reports |-> Never]

Go(c, to) == pc' = [pc EXCEPT ![c] = to]

\* cacheGet: the row has not expired.
Fresh(r) == row[r].expires > now

-----------------------------------------------------------------------------
(* The handler.                                                            *)

Cooling(c) == until[IsolateOf[c]] > now

\* The cooldown is checked first, ...
HoldOff(c) ==
  /\ pc[c] = "idle"
  /\ Cooling(c)
  /\ Go(c, "cooled")
  /\ begun' = [begun EXCEPT ![c] = now]
  /\ UNCHANGED <<now, lag, shared, pulled, ended, runs, throttles, degraded>>

\* ... then the cache is read ...
Begin(c) ==
  /\ pc[c] = "idle"
  /\ ~Cooling(c)
  /\ Go(c, "looking")
  /\ begun' = [begun EXCEPT ![c] = now]
  /\ UNCHANGED <<now, lag, shared, pulled, ended, runs, throttles, degraded>>

Hit(c) ==
  /\ pc[c] = "looking"
  /\ Fresh(ReportOf[c])
  /\ Go(c, "cached")
  /\ pulled' = [pulled EXCEPT ![c] = row[ReportOf[c]].pulled]
  /\ ended' = [ended EXCEPT ![c] = now]
  /\ UNCHANGED <<now, lag, shared, begun, runs, throttles, degraded>>

\* ... and a failed read counts as a miss.
Miss(c) ==
  /\ pc[c] = "looking"
  /\ \/ ~Fresh(ReportOf[c]) /\ UNCHANGED degraded
     \/ degraded' = TRUE
  /\ Go(c, "asking")
  /\ UNCHANGED <<now, lag, shared, pulled, begun, ended, runs, throttles>>

\* Mutant: a run is remembered for one tick less.
RanRecentlyShort(r) == lastRun[r] # Never /\ now - lastRun[r] < IdentityWindow - 1

RanRecently(r) == lastRun[r] # Never /\ now - lastRun[r] < IdentityWindow

\* pruneIdentities: the check drops what expired (here such entries may stay,
\* nothing reads them) and, above the ceiling, the oldest of what did not.
Live == {r \in Reports : RanRecently(r)}

Kept ==
  IF Cardinality(Live) <= MaxTracked
  THEN {Live}
  ELSE {keep \in SUBSET Live :
          /\ Cardinality(keep) = MaxTracked
          /\ \A r \in keep, q \in Live \ keep : lastRun[q] <= lastRun[r]}

\* Mutant: above the ceiling the whole map is cleared.
PrunedToNothing(keep) ==
  [r \in Reports |-> IF Live = keep THEN lastRun[r] ELSE Never]

Pruned(keep) == [r \in Reports |-> IF r \in Live \ keep THEN Never ELSE lastRun[r]]

Forget(keep) ==
  forgotten' = [r \in Reports |-> IF r \in Live \ keep THEN now ELSE forgotten[r]]

\* The limiter grants the run and notes it, before it is made.
Granted(c) ==
  /\ pc[c] = "asking"
  /\ \E keep \in Kept :
       /\ ReportOf[c] \notin keep
       /\ lastRun' = [Pruned(keep) EXCEPT ![ReportOf[c]] = now]
       /\ Forget(keep)
  /\ Go(c, "running")
  /\ UNCHANGED <<now, lag, until, row, pulled, history>>

\* The limiter cannot be reached: the guard fails open.
FailsOpen(c) ==
  /\ pc[c] = "asking"
  /\ Go(c, "running")
  /\ degraded' = TRUE
  /\ UNCHANGED <<now, lag, shared, pulled, begun, ended, runs, throttles>>

\* same_report_within_window: the cooldown is not armed.
RepeatedCheck(c) ==
  /\ pc[c] = "asking"
  /\ \E keep \in Kept :
       /\ ReportOf[c] \in keep
       /\ lastRun' = Pruned(keep)
       /\ Forget(keep)
  /\ Go(c, "repeat")
  /\ UNCHANGED <<now, lag, row, pulled, history>>

\* Mutant: the same-report denial arms the cooldown too.
RepeatedArming(c) ==
  /\ RepeatedCheck(c)
  /\ until' = [until EXCEPT ![IsolateOf[c]] = lastRun[ReportOf[c]] + IdentityWindow]

Repeated(c) == RepeatedCheck(c) /\ UNCHANGED until

\* The cooldown is set, not extended: a shorter wait replaces a longer one.
Arm(c, wait) ==
  /\ until' = [until EXCEPT ![IsolateOf[c]] = now + wait]
  /\ throttles' = throttles \cup {[isolate |-> IsolateOf[c], until |-> now + wait]}

\* Any other denial of the limiter: no repeat, but the budget is spent.
Denied(c) ==
  /\ pc[c] = "asking"
  /\ \E keep \in Kept :
       /\ ReportOf[c] \notin keep
       /\ lastRun' = Pruned(keep)
       /\ Forget(keep)
  /\ Go(c, "limited")
  /\ \E wait \in RetryAfters : Arm(c, wait)
  /\ UNCHANGED <<now, lag, row, pulled, begun, ended, runs, degraded>>

Reached(c) ==
  runs' = runs \cup {[call |-> c, report |-> ReportOf[c], at |-> now]}

Pull(c) ==
  /\ pc[c] = "running"
  /\ Go(c, "storing")
  /\ pulled' = [pulled EXCEPT ![c] = now]
  /\ Reached(c)
  /\ UNCHANGED <<now, lag, shared, begun, ended, throttles, degraded>>

\* 429: nothing is cached.
Throttled(c) ==
  /\ pc[c] = "running"
  /\ Go(c, "throttled")
  /\ Reached(c)
  /\ \E wait \in RetryAfters : Arm(c, wait)
  /\ UNCHANGED <<now, lag, row, lastRun, forgotten, pulled, begun, ended, degraded>>

Fails(c) ==
  /\ pc[c] = "running"
  /\ Go(c, "failed")
  /\ Reached(c)
  /\ UNCHANGED <<now, lag, shared, pulled, begun, ended, throttles, degraded>>

\* INSERT OR REPLACE, whose failure is swallowed.
Store(c) ==
  /\ pc[c] = "storing"
  /\ Go(c, "live")
  /\ ended' = [ended EXCEPT ![c] = now]
  /\ \/ /\ row' = [row EXCEPT ![ReportOf[c]] = [pulled |-> pulled[c], expires |-> now + CacheTtl]]
        /\ UNCHANGED degraded
     \/ degraded' = TRUE /\ UNCHANGED row
  /\ UNCHANGED <<now, lag, until, lastRun, forgotten, pulled, begun, runs, throttles>>

AtRest == \A c \in Calls : pc[c] \in Done \cup {"idle"}

Tick ==
  /\ now < MaxTime
  /\ now' = now + 1
  /\ \/ AtRest /\ UNCHANGED lag
     \/ ~AtRest /\ lag < MaxLag /\ lag' = lag + 1
  /\ UNCHANGED <<pc, shared, pulled, history>>

Step(c) ==
  \/ HoldOff(c)
  \/ Begin(c)
  \/ Hit(c)
  \/ Miss(c)
  \/ Granted(c)
  \/ FailsOpen(c)
  \/ Repeated(c)
  \/ Denied(c)
  \/ Pull(c)
  \/ Throttled(c)
  \/ Fails(c)
  \/ Store(c)

Next == Tick \/ \E c \in Calls : Step(c)

Spec == Init /\ [][Next]_vars
-----------------------------------------------------------------------------
(* Properties.                                                             *)

\* What was run or pulled by the time the ceiling made the ledger forget the
\* report's last run, or by the end of the calls then under way.
BeforeForgetting(r, t) == forgotten[r] # Never /\ t <= forgotten[r] + MaxLag

\* "1 run of the same report per minute per tenant", for all isolates
\* together: while D1 and the limiter answer, two runs of a report reach
\* ServiceTitan at least a window apart, up to the time the first was under
\* way; unless the ledger, above its ceiling, has forgotten the first
\* (pruneIdentities, st-rate-limiter.ts:234-237; how many other reports that
\* takes is StRateLimiter's SameReportSpacing).
SameReportOncePerWindow ==
  ~degraded =>
    \A x, y \in runs :
      x.call # y.call /\ x.report = y.report /\ x.at <= y.at
        => \/ y.at - x.at >= IdentityWindow - MaxLag
           \/ BeforeForgetting(x.report, x.at)

\* The cache and the limiter share one identity, "so the two can never
\* disagree": while D1 and the limiter answer and no call outlasts the window,
\* whoever asks after an answer was given never gets older data of that
\* report, in whatever order the calls of all isolates store their rows;
\* unless the ledger's ceiling has forgotten the run behind that answer.
AnswersNeverGoBack ==
  (~degraded /\ MaxLag < IdentityWindow) =>
    \A c, d \in Calls :
      (/\ {pc[c], pc[d]} \subseteq Answered
       /\ ReportOf[c] = ReportOf[d]
       /\ ended[c] < begun[d])
      => pulled[c] <= pulled[d] \/ BeforeForgetting(ReportOf[c], pulled[c])

\* The same-report rejection must not arm the tool-wide cooldown: a call is
\* only held off while its isolate has been told of throttling that lasts.
RepeatsDoNotBlockOthers ==
  \A c \in Calls :
    pc[c] = "cooled" =>
      \E t \in throttles : t.isolate = IsolateOf[c] /\ t.until > begun[c]

=============================================================================
