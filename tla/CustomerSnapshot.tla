-------------------------- MODULE CustomerSnapshot -------------------------
(***************************************************************************)
(* customer_snapshot for one customer: concurrent calls, the cached row in *)
(* D1, and the CustomerSnapshotSingleflight object whose lock is meant to  *)
(* let one of them fan out to ServiceTitan while the others wait for the   *)
(* row (src/src/tools/composites/customer_snapshot.ts,                     *)
(* src/src/durable/customer-snapshot-flight.ts).                           *)
(*                                                                         *)
(* The lock lives in the object's memory: Evict loses it.  A call may stop *)
(* at any step (Stop), a release may be lost, D1 may refuse a write, and   *)
(* the object may be unreachable.  Timers are punctual and the steps that  *)
(* wait for nobody take at most MaxLag, so that a lock is held for at most *)
(* FanoutTimeout + MaxLag unless its holder stops.                         *)
(***************************************************************************)
EXTENDS Integers, FiniteSets

CONSTANTS
  Calls,
  SnapshotTtl,   \* SNAPSHOT_TTL_MS
  MaxWait,       \* SINGLEFLIGHT_MAX_WAIT_MS
  PollInterval,  \* the 500 ms of acquire()
  LockTtl,       \* LOCK_TTL_MS
  FanoutTimeout, \* AbortSignal.timeout(15_000)
  MaxLag,        \* bound on the time of a step that waits for nobody
  MaxEvictions,  \* bound on evictions of the object
  StartBy,       \* bound on the time a call starts
  MaxTime        \* bound on the clock

ASSUME SnapshotAssumption ==
  /\ {SnapshotTtl, MaxWait, PollInterval, LockTtl, FanoutTimeout,
      MaxLag, MaxEvictions, StartBy, MaxTime} \subseteq Nat
  /\ FanoutTimeout + MaxLag <= LockTtl

VARIABLES
  now,
  lock,      \* heldSince, or Never
  row,       \* the row of mv_customer_snapshot: when its data was read, when it expires
  pc,        \* where each call is
  since,     \* when it got there
  nap,       \* a waiting call's waitMs
  deadline,  \* when it gives up waiting
  holder,    \* the calls that were told acquired: true
  releasing, \* the calls whose POST /release is on its way
  evictions

lockVars == <<lock, holder, releasing, evictions>>
vars == <<now, lock, row, pc, since, nap, deadline, holder, releasing, evictions>>

Never == -1
NoRow == [readAt |-> Never, expiresAt |-> Never]

Init ==
  /\ now = 0
  /\ lock = Never
  /\ row = NoRow
  /\ pc = [c \in Calls |-> "idle"]
  /\ since = [c \in Calls |-> 0]
  /\ nap = [c \in Calls |-> 0]
  /\ deadline = [c \in Calls |-> 0]
  /\ holder = {}
  /\ releasing = {}
  /\ evictions = 0

Fresh == row.expiresAt > now

At(c, S) == pc[c] \in S
Go(c, to) == pc' = [pc EXCEPT ![c] = to] /\ since' = [since EXCEPT ![c] = now]

\* What a call that is over had in memory is gone.
End(c, as) ==
  /\ pc' = [pc EXCEPT ![c] = as]
  /\ since' = [since EXCEPT ![c] = 0]
  /\ nap' = [nap EXCEPT ![c] = 0]
  /\ deadline' = [deadline EXCEPT ![c] = 0]

\* 1. The cached row, or on to the lock.
Read(c) ==
  /\ At(c, {"idle"})
  /\ now <= StartBy
  /\ \/ Fresh /\ End(c, "answered")
     \/ ~Fresh /\ Go(c, "acquiring") /\ UNCHANGED <<nap, deadline>>
  /\ UNCHANGED <<now, row, lockVars>>

\* Mutant: a lock is stale after one poll interval.
StaleEarly == lock # Never /\ now - lock > PollInterval

Stale == lock # Never /\ now - lock > LockTtl
Held == lock # Never /\ ~Stale

\* 2. POST /acquire.
Acquire(c) ==
  /\ At(c, {"acquiring"})
  /\ ~Held
  /\ lock' = now
  /\ holder' = holder \cup {c}
  /\ Go(c, "fanning")
  /\ UNCHANGED <<now, row, nap, deadline, releasing, evictions>>

Lesser(s, t) == IF s <= t THEN s ELSE t

\* Somebody else holds it: sleep for what the object said.
Wait(c) ==
  /\ At(c, {"acquiring"})
  /\ Held
  /\ Go(c, "waiting")
  /\ nap' = [nap EXCEPT ![c] = Lesser(lock + LockTtl - now, PollInterval)]
  /\ deadline' = [deadline EXCEPT ![c] = now + MaxWait]
  /\ UNCHANGED <<now, row, lockVars>>

\* The object cannot be reached: go on without it.
Unreachable(c) ==
  /\ At(c, {"acquiring"})
  /\ Go(c, "fanning")
  /\ UNCHANGED <<now, row, nap, deadline, lockVars>>

\* Mutant: no deadline.
PollForever(c) ==
  /\ At(c, {"waiting"})
  /\ now >= since[c] + nap[c]
  /\ \/ Fresh /\ End(c, "answered")
     \/ ~Fresh /\ Go(c, "waiting") /\ UNCHANGED <<nap, deadline>>
  /\ UNCHANGED <<now, row, lockVars>>

\* A sleep ends: the row, another sleep, or past the deadline a fan-out of
\* its own.
Poll(c) ==
  /\ At(c, {"waiting"})
  /\ now >= since[c] + nap[c]
  /\ \/ Fresh /\ End(c, "answered")
     \/ ~Fresh /\ now < deadline[c] /\ Go(c, "waiting") /\ UNCHANGED <<nap, deadline>>
     \/ ~Fresh /\ now >= deadline[c] /\ Go(c, "fanning") /\ UNCHANGED <<nap, deadline>>
  /\ UNCHANGED <<now, row, lockVars>>

\* 3. The fan-out settles, whole or partial.  Its data may be as old as its
\* start.  A call that does not hold the lock has its answer.
Settle(c) ==
  /\ At(c, {"fanning"})
  /\ IF c \in holder
     THEN pc' = [pc EXCEPT ![c] = "writing"] /\ UNCHANGED <<since, nap, deadline>>
     ELSE End(c, "answered")
  /\ UNCHANGED <<now, row, lockVars>>

\* Mutant: the row never expires.
WrittenRowForever(c) == [readAt |-> since[c], expiresAt |-> MaxTime + 1]

WrittenRow(c) == [readAt |-> since[c], expiresAt |-> now + SnapshotTtl]

\* 4. The holder writes the row, which may fail, sends the release without
\* waiting for it, and answers.
Write(c) ==
  /\ At(c, {"writing"})
  /\ row' \in {row, WrittenRow(c)}
  /\ releasing' = releasing \cup {c}
  /\ pc' = [pc EXCEPT ![c] = "answered"]
  /\ UNCHANGED <<now, since, nap, deadline, lock, holder, evictions>>

\* POST /release deletes the lock, whoever holds it by then.
Release(c) ==
  /\ c \in releasing
  /\ lock' = Never
  /\ releasing' = releasing \ {c}
  /\ holder' = holder \ {c}
  /\ End(c, "answered")
  /\ UNCHANGED <<now, row, evictions>>

LoseRelease(c) ==
  /\ c \in releasing
  /\ releasing' = releasing \ {c}
  /\ holder' = holder \ {c}
  /\ End(c, "answered")
  /\ UNCHANGED <<now, lock, row, evictions>>

Unfinished == {"acquiring", "waiting", "fanning", "writing"}

\* The request is cancelled or its isolate dies.
Stop(c) ==
  /\ At(c, Unfinished)
  /\ End(c, "stopped")
  /\ holder' = holder \ {c}
  /\ UNCHANGED <<now, row, lock, releasing, evictions>>

Evict ==
  /\ evictions < MaxEvictions
  /\ lock # Never
  /\ lock' = Never
  /\ evictions' = evictions + 1
  /\ UNCHANGED <<now, row, pc, since, nap, deadline, holder, releasing>>

\* Timers are punctual, and what waits for nobody takes at most MaxLag.
Punctual(c) ==
  /\ At(c, {"acquiring"}) => now < since[c] + MaxLag
  /\ At(c, {"waiting"}) => nap[c] = 0 \/ now < since[c] + nap[c]
  /\ At(c, {"fanning"}) => now < since[c] + FanoutTimeout
  /\ At(c, {"writing"}) \/ c \in releasing => now < since[c] + FanoutTimeout + MaxLag

Tick ==
  /\ now < MaxTime
  /\ \A c \in Calls : Punctual(c)
  /\ now' = now + 1
  /\ UNCHANGED <<row, pc, since, nap, deadline, lockVars>>

Step(c) ==
  \/ Acquire(c) \/ Wait(c) \/ Poll(c) \/ Settle(c) \/ Write(c)

Next ==
  \/ \E c \in Calls : \/ Read(c) \/ Step(c) \/ Unreachable(c) \/ Stop(c)
                       \/ Release(c) \/ LoseRelease(c)
  \/ Evict
  \/ Tick

\* A request that was accepted keeps running, and so does the clock.
Fairness == WF_vars(Tick) /\ \A c \in Calls : WF_vars(Step(c)) /\ WF_vars(Release(c))

Spec == Init /\ [][Next]_vars /\ Fairness
-----------------------------------------------------------------------------
(* Properties.                                                             *)

\* Singleflight: the calls that fan out with the lock at the same time are at
\* most one, plus one for each time the object lost its memory; late and lost
\* releases, stopped holders and expired locks add none.  A call that gave up
\* waiting neither writes the row nor releases the lock.
OneFlight ==
  /\ Cardinality(holder) <= 1 + evictions
  /\ {c \in Calls : pc[c] = "writing"} \cup releasing \subseteq holder

\* A row that is served holds data no older than its lifetime plus the time it
\* took to build, whoever wrote it and however late.
AnswersAreRecent ==
  Fresh => now - row.readAt <= SnapshotTtl + FanoutTimeout + MaxLag

\* Whatever happens to the holder, the lock or the object, a call that has
\* missed the cache is answered or stopped.
EveryCallEnds ==
  \A c \in Calls : pc[c] \in {"acquiring", "waiting"} ~> pc[c] \in {"answered", "stopped"}
=============================================================================
