--------------------------- MODULE StRateLimiter ---------------------------
(***************************************************************************)
(* The StRateLimiter Durable Object (src/src/durable/st-rate-limiter.ts):  *)
(* one instance holds the aggregate counter, one counter per ServiceTitan  *)
(* family and the ledger of recent report identities, all persisted to     *)
(* storage so that they survive hibernation.                               *)
(*                                                                         *)
(* A request is served in three steps, because the reply leaves the object *)
(* only after `await this.persistState()`: the handler computes a verdict  *)
(* and mutates memory (Grant, Deny..., ApplyBackoff), the ledger becomes   *)
(* durable (PersistState), the reply is delivered (Reply).  Evict loses    *)
(* memory and the reply in flight at any point between them.  While a      *)
(* storage operation is pending the platform delivers no other request to  *)
(* the object (input gates), hence one request is served at a time.        *)
(*                                                                         *)
(* Times are integers; grants and penalties are history variables: what    *)
(* callers have been told.  So is runs: the report runs the durable ledger *)
(* has been charged with, those whose answer was lost included.            *)
(***************************************************************************)
EXTENDS Integers, FiniteSets

CONSTANTS
  Families,       \* ServiceTitan path segments: crm, jpm, reporting, ...
  Identities,     \* canonical identities of report runs
  NoIdentity,     \* a check that names no report
  Window,         \* AGGREGATE_WINDOW_MS = FAMILY_WINDOW_MS
  AggregateCap,   \* AGGREGATE_CAP
  FamilyCap,      \* DEFAULT_FAMILY_CAP
  IdentityWindow, \* IDENTITY_WINDOW_MS
  MaxTracked,     \* MAX_TRACKED_IDENTITIES
  MinPenalty,     \* BACKOFF_MIN_PENALTY_MS
  RetryAfters,    \* the Retry-After values a 429 may carry, in ticks
  MaxTime         \* bound on the clock, for model checking

ASSUME ConstantsAssumption ==
  /\ NoIdentity \notin Identities
  /\ IsFiniteSet(Identities)
  /\ Window \in Nat \ {0}
  /\ AggregateCap \in Nat \ {0}
  /\ FamilyCap \in 1..AggregateCap
  /\ IdentityWindow \in Nat \ {0}
  /\ MaxTracked \in Nat \ {0}
  /\ MinPenalty \in Nat
  /\ RetryAfters \subseteq Nat
  /\ MaxTime \in Nat

VARIABLES
  now,        \* Date.now()
  ledger,     \* the object's memory
  stored,     \* the value under the storage key 'ratelimit'
  everStored, \* whether that key exists
  stage,      \* of the request in service: "idle", "unsaved" or "saved"
  reply,      \* the answer it will get
  grants,     \* history: the calls callers were allowed
  penalties,  \* history: the backoffs that were acknowledged
  runs        \* history: the report runs ever persisted, [id, at]

vars == <<now, ledger, stored, everStored, stage, reply, grants, penalties, runs>>

-----------------------------------------------------------------------------
(* The ledger.                                                             *)

Never == -1  \* no entry in a Map

FreshWindow(t) == [count |-> 0, start |-> t]

\* A family the Map does not hold has a window that starts at Never.
NewLedger(t) ==
  [ agg |-> FreshWindow(t),
    fam |-> [f \in Families |-> [window |-> FreshWindow(Never), halvedUntil |-> 0]],
    ids |-> [i \in Identities |-> Never] ]

GetFamily(fs, t) ==
  IF fs.window.start = Never
  THEN [window |-> FreshWindow(t), halvedUntil |-> 0]
  ELSE fs

\* Mutant: the restarted window forgets when it started.
RollWindowUnanchored(w, t) ==
  IF t - w.start >= Window THEN FreshWindow(Never) ELSE w

\* A fixed window restarts at the first request that finds it elapsed.
RollWindow(w, t) == IF t - w.start >= Window THEN FreshWindow(t) ELSE w

HalvedCap == IF FamilyCap \div 2 >= 1 THEN FamilyCap \div 2 ELSE 1

CapForFamily(fs, t) == IF t < fs.halvedUntil THEN HalvedCap ELSE FamilyCap

Unexpired(ids, t) ==
  {i \in Identities : ids[i] # Never /\ t - ids[i] < IdentityWindow}

\* Mutant: above the ceiling the newest entries go.
KeptOldest(ids, t) ==
  LET live == Unexpired(ids, t)
  IN  IF Cardinality(live) <= MaxTracked
      THEN {live}
      ELSE {keep \in SUBSET live :
              /\ Cardinality(keep) = MaxTracked
              /\ \A i \in keep, j \in live \ keep : ids[i] <= ids[j]}

\* Above the ceiling the oldest entries go.  Entries of the same age go in
\* the order of the Map; here, in any order.
Kept(ids, t) ==
  LET live == Unexpired(ids, t)
  IN  IF Cardinality(live) <= MaxTracked
      THEN {live}
      ELSE {keep \in SUBSET live :
              /\ Cardinality(keep) = MaxTracked
              /\ \A i \in keep, j \in live \ keep : ids[j] <= ids[i]}

PruneIdentities(ids, t) ==
  {[i \in Identities |-> IF i \in keep THEN ids[i] ELSE Never] : keep \in Kept(ids, t)}

\* The ledger's identities once check() has pruned them: only a check that
\* names a report prunes.
IdsAtCheck(i) ==
  IF i = NoIdentity THEN {ledger.ids} ELSE PruneIdentities(ledger.ids, now)

SeenRecently(ids, i, t) ==
  i # NoIdentity /\ ids[i] # Never /\ t - ids[i] < IdentityWindow

AggAtCheck == RollWindow(ledger.agg, now)
FamAtCheck(f) == RollWindow(GetFamily(ledger.fam[f], now).window, now)
FamCap(f) == CapForFamily(GetFamily(ledger.fam[f], now), now)

OneMore(w) == [count |-> w.count + 1, start |-> w.start]

AtLeast1(n) == IF n >= 1 THEN n ELSE 1
Remaining(w) == AtLeast1(w.start + Window - now)

-----------------------------------------------------------------------------
(* The request handler.                                                    *)

NoReply == [verdict |-> "none", retryAfterMs |-> 0, grants |-> {}, penalties |-> {}]

Denial(reason, ms) == [NoReply EXCEPT !.verdict = reason, !.retryAfterMs = ms]

\* check(): what a caller is allowed, identified by its place in both windows.
GrantRecord(f, i, agg, fw) ==
  [at |-> now, fam |-> f, id |-> i,
   win |-> agg.start, slot |-> agg.count + 1,
   fwin |-> fw.start, fslot |-> fw.count + 1]

WithFamilyWindow(fs, w) == [window |-> w, halvedUntil |-> fs.halvedUntil]

Init ==
  /\ now = 0
  /\ ledger = NewLedger(0)
  /\ stored = NewLedger(0)
  /\ everStored = FALSE
  /\ stage = "idle"
  /\ reply = NoReply
  /\ grants = {}
  /\ penalties = {}
  /\ runs = {}

Answer(r) ==
  /\ stage = "idle"
  /\ stage' = "unsaved"
  /\ reply' = r
  /\ UNCHANGED <<now, stored, everStored, grants, penalties, runs>>

\* The same report ran inside its window: refused before any counter moves.
DenySameReport(f, i) ==
  \E ids \in IdsAtCheck(i) :
    /\ SeenRecently(ids, i, now)
    /\ Answer(Denial("same_report_within_window", ids[i] + IdentityWindow - now))
    /\ ledger' = [agg |-> ledger.agg, fam |-> ledger.fam, ids |-> ids]

DenyAggregate(f, i) ==
  \E ids \in IdsAtCheck(i) :
    /\ ~SeenRecently(ids, i, now)
    /\ AggAtCheck.count >= AggregateCap
    /\ Answer(Denial("aggregate", Remaining(AggAtCheck)))
    /\ ledger' = [agg |-> AggAtCheck, fam |-> ledger.fam, ids |-> ids]

DenyFamily(f, i) ==
  \E ids \in IdsAtCheck(i) :
    /\ ~SeenRecently(ids, i, now)
    /\ AggAtCheck.count < AggregateCap
    /\ FamAtCheck(f).count >= FamCap(f)
    /\ Answer(Denial("family", Remaining(FamAtCheck(f))))
    /\ ledger' = [ agg |-> AggAtCheck,
                   fam |-> [ledger.fam EXCEPT ![f] = WithFamilyWindow(@, FamAtCheck(f))],
                   ids |-> ids ]

Charged(f, i, ids) ==
  [ agg |-> OneMore(AggAtCheck),
    fam |-> [ledger.fam EXCEPT ![f] = WithFamilyWindow(@, OneMore(FamAtCheck(f)))],
    ids |-> [k \in Identities |-> IF k = i THEN now ELSE ids[k]] ]

Grant(f, i) ==
  \E ids \in IdsAtCheck(i) :
    /\ ~SeenRecently(ids, i, now)
    /\ AggAtCheck.count < AggregateCap
    /\ FamAtCheck(f).count < FamCap(f)
    /\ Answer([NoReply EXCEPT !.verdict = "allowed",
                              !.grants = {GrantRecord(f, i, AggAtCheck, FamAtCheck(f))}])
    /\ ledger' = Charged(f, i, ids)

Check(f, i) ==
  \/ DenySameReport(f, i)
  \/ DenyAggregate(f, i)
  \/ DenyFamily(f, i)
  \/ Grant(f, i)

Later(s, t) == IF s >= t THEN s ELSE t

PenaltyEnd(r) == now + Later(r, MinPenalty)

\* Mutant: the last penalty reported wins.
PenalisedOverwrite(fs, r) == [window |-> fs.window, halvedUntil |-> PenaltyEnd(r)]

\* A 429 reported by a caller.  A later penalty never shortens an earlier one.
Penalised(fs, r) == [window |-> fs.window, halvedUntil |-> Later(fs.halvedUntil, PenaltyEnd(r))]

ApplyBackoff(f, r) ==
  /\ Answer([NoReply EXCEPT !.verdict = "ok",
                            !.penalties = {[fam |-> f, from |-> now, until |-> PenaltyEnd(r)]}])
  /\ ledger' = [ agg |-> ledger.agg,
                 fam |-> [ledger.fam EXCEPT ![f] = Penalised(GetFamily(@, now), r)],
                 ids |-> ledger.ids ]

\* The report runs among some grants.
RunsOf(S) == {[id |-> g.id, at |-> g.at] : g \in {g \in S : g.id # NoIdentity}}

\* Mutant: the reply leaves before the ledger is durable.
PersistStateSkipped ==
  /\ stage = "unsaved"
  /\ stage' = "saved"
  /\ UNCHANGED <<now, ledger, stored, everStored, reply, grants, penalties, runs>>

PersistState ==
  /\ stage = "unsaved"
  /\ stage' = "saved"
  /\ stored' = ledger
  /\ everStored' = TRUE
  /\ runs' = runs \cup RunsOf(reply.grants)
  /\ UNCHANGED <<now, ledger, reply, grants, penalties>>

Reply ==
  /\ stage = "saved"
  /\ stage' = "idle"
  /\ reply' = NoReply
  /\ grants' = grants \cup reply.grants
  /\ penalties' = penalties \cup reply.penalties
  /\ UNCHANGED <<now, ledger, stored, everStored, runs>>

\* Mutant: the constructor does not restore the families.
EvictLosingFamilies ==
  /\ ledger' = IF everStored
               THEN [agg |-> stored.agg, fam |-> NewLedger(now).fam, ids |-> stored.ids]
               ELSE NewLedger(now)
  /\ stage' = "idle"
  /\ reply' = NoReply
  /\ UNCHANGED <<now, stored, everStored, grants, penalties, runs>>

\* Hibernation, eviction or a crash, then the constructor: memory is what
\* storage holds, and a caller still waiting gets an exception.
Evict ==
  /\ ledger' = IF everStored THEN stored ELSE NewLedger(now)
  /\ stage' = "idle"
  /\ reply' = NoReply
  /\ UNCHANGED <<now, stored, everStored, grants, penalties, runs>>

Tick ==
  /\ now < MaxTime
  /\ now' = now + 1
  /\ UNCHANGED <<ledger, stored, everStored, stage, reply, grants, penalties, runs>>

Next ==
  \/ \E f \in Families, i \in Identities \cup {NoIdentity} : Check(f, i)
  \/ \E f \in Families, r \in RetryAfters : ApplyBackoff(f, r)
  \/ PersistState
  \/ Reply
  \/ Evict
  \/ Tick

Spec == Init /\ [][Next]_vars
-----------------------------------------------------------------------------
(* Properties.                                                             *)

Windows == [count : Nat, start : Nat]
FamilyWindows == [count : Nat, start : Nat \cup {Never}]
FamilyStates == [window : FamilyWindows, halvedUntil : Nat]
Ledgers ==
  [ agg : Windows,
    fam : [Families -> FamilyStates],
    ids : [Identities -> Nat \cup {Never}] ]
GrantRecords ==
  [ at : Nat, fam : Families, id : Identities \cup {NoIdentity},
    win : Nat, slot : Nat, fwin : Nat, fslot : Nat ]
PenaltyRecords == [fam : Families, from : Nat, until : Nat]
RunRecords == [id : Identities, at : Nat]
Verdicts ==
  {"none", "ok", "allowed", "aggregate", "family", "same_report_within_window"}

\* Every variable keeps its type: counters are naturals, the ledger's shape
\* is PersistedState's, in memory and in storage.
TypeOK ==
  /\ now \in Nat
  /\ ledger \in Ledgers
  /\ stored \in Ledgers
  /\ everStored \in BOOLEAN
  /\ stage \in {"idle", "unsaved", "saved"}
  /\ reply.verdict \in Verdicts
  /\ reply.retryAfterMs \in Nat
  /\ reply.grants \subseteq GrantRecords
  /\ reply.penalties \subseteq PenaltyRecords
  /\ grants \subseteq GrantRecords
  /\ penalties \subseteq PenaltyRecords
  /\ runs \subseteq RunRecords

GrantsFrom(t) == {g \in grants : t <= g.at /\ g.at < t + Window}

\* "the worst case is a full budget spent at the end of one window and
\* another full budget at the start of the next -- 2 x AGGREGATE_CAP": no
\* Window-long interval, wherever it starts, holds more calls the callers
\* were allowed, however often the object is evicted.
SlidingBurst == \A t \in 0..MaxTime : Cardinality(GrantsFrom(t)) <= 2 * AggregateCap

\* The same bound for one family: its own window is also fixed and persisted.
FamilySlidingBurst ==
  \A t \in 0..MaxTime, f \in Families :
    Cardinality({g \in GrantsFrom(t) : g.fam = f}) <= 2 * FamilyCap

\* The other reports charged between two moments, and whether they alone
\* fill the ledger.
OthersRun(S, i, from, to) ==
  {k \in Identities \ {i} : \E r \in S : r.id = k /\ from <= r.at /\ r.at <= to}

Crowded(S, i, from, to) == Cardinality(OthersRun(S, i, from, to)) >= MaxTracked

\* ServiceTitan allows "1 of the same report per minute per tenant": a report
\* is allowed again only IdentityWindow after its last run, evictions of the
\* object included, or once at least MAX_TRACKED_IDENTITIES other reports were
\* charged since, the ceiling above which pruneIdentities() drops the oldest
\* entries though they have not expired.
SameReportSpacing ==
  \A g, h \in grants :
    g # h /\ g.id = h.id /\ g.id # NoIdentity /\ g.at <= h.at
      => g.at + IdentityWindow <= h.at \/ Crowded(runs, g.id, g.at, h.at)

\* An acknowledged 429 halves the family's cap until its penalty ends, even
\* if a shorter penalty is reported meanwhile and if the object is evicted:
\* of the calls allowed after it and before its end, no window of the family
\* holds more than the halved cap.
BackoffHonoured ==
  \A p \in penalties, w \in 0..MaxTime :
    Cardinality({g \in grants : /\ g.fam = p.fam
                                /\ g.fwin = w
                                /\ p.from < g.at
                                /\ g.at < p.until}) <= HalvedCap
-----------------------------------------------------------------------------
(* The inductive invariant behind the bounds.  A window [count, start] has *)
(* accounted for a call when the call holds one of its slots, or belongs   *)
(* to a window that had ended when this one began.                         *)

Accounted(w, win, slot) ==
  \/ w.start = win /\ slot <= w.count
  \/ win + Window <= w.start

LedgerAccounts(L, S) ==
  \A g \in S : /\ Accounted(L.agg, g.win, g.slot)
              /\ Accounted(L.fam[g.fam].window, g.fwin, g.fslot)

\* Two calls never share a slot, and windows do not overlap.
Apart(win1, slot1, win2, slot2) ==
  \/ win1 = win2 /\ slot1 # slot2
  \/ win1 + Window <= win2
  \/ win2 + Window <= win1

Separate(g, h) ==
  /\ Apart(g.win, g.slot, h.win, h.slot)
  /\ g.fam = h.fam => Apart(g.fwin, g.fslot, h.fwin, h.fslot)

WithinBudget(L) ==
  /\ L.agg.count <= AggregateCap
  /\ L.agg.start <= now
  /\ \A f \in Families : /\ L.fam[f].window.count <= FamilyCap
                        /\ L.fam[f].window.start <= now

\* A call happens inside both of its windows, in a slot within the caps.
WellPlaced(g) ==
  /\ g.at <= now
  /\ g.win <= g.at /\ g.at < g.win + Window
  /\ g.fwin <= g.at /\ g.at < g.fwin + Window
  /\ g.slot \in 1..AggregateCap
  /\ g.fslot \in 1..FamilyCap

\* What the object remembers, in memory and in storage, accounts for every
\* call a caller was ever told it may make, and the reply in flight is
\* accounted for in memory and holds a slot no earlier call holds.
AccountingInv ==
  /\ WithinBudget(ledger) /\ WithinBudget(stored)
  /\ stage = "idle" => reply = NoReply
  /\ stage = "saved" => everStored /\ stored = ledger
  /\ ~everStored => grants = {}
  /\ \A g \in grants \cup reply.grants : WellPlaced(g)
  /\ LedgerAccounts(ledger, grants \cup reply.grants)
  /\ everStored => LedgerAccounts(stored, grants)
  /\ \A g, h \in reply.grants : g = h
  /\ \A g \in reply.grants, h \in grants : Separate(g, h)
  /\ \A g, h \in grants : g # h => Separate(g, h)

\* The ledger of identities remembers every run of a report made less than
\* IdentityWindow ago, unless the ceiling made it forget ...
Remembers(L, S) ==
  \A r \in S :
    \/ L.ids[r.id] >= r.at
    \/ r.at + IdentityWindow <= now
    \/ Crowded(S, r.id, r.at, now)

\* ... and what it remembers was run.
Backed(L, S) ==
  \A i \in Identities : L.ids[i] # Never => [id |-> i, at |-> L.ids[i]] \in S

RunsApart(S, g, h) ==
  g.id = h.id /\ g.id # NoIdentity /\ g.at <= h.at
    => g.at + IdentityWindow <= h.at \/ Crowded(S, g.id, g.at, h.at)

\* Memory knows the runs of storage and the one in flight.
ReportInv ==
  LET known == runs \cup RunsOf(reply.grants)
  IN  /\ \A g \in grants \cup reply.grants : g.at <= now
      /\ \A r \in runs : r.at <= now
      /\ stage = "idle" => reply = NoReply
      /\ stage = "saved" => everStored /\ stored = ledger /\ RunsOf(reply.grants) \subseteq runs
      /\ ~everStored => runs = {}
      /\ RunsOf(grants) \subseteq runs
      /\ Remembers(ledger, known) /\ Backed(ledger, known)
      /\ everStored => Remembers(stored, runs) /\ Backed(stored, runs)
      /\ \A g, h \in reply.grants : g = h
      /\ \A g \in reply.grants, h \in grants : RunsApart(runs, h, g) /\ RunsApart(runs, g, h)
      /\ \A g, h \in grants : g # h => RunsApart(runs, g, h)
=============================================================================
