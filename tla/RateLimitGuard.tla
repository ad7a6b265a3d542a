-------------------------- MODULE RateLimitGuard ---------------------------
(***************************************************************************)
(* The Worker's side of the limiter (src/src/rate-limit-guard.ts): callers *)
(* in several isolates that each make one guardedFamilyFetch, composed     *)
(* with the one StRateLimiter object they all consult.                     *)
(*                                                                         *)
(* A caller checks the budget, sleeps and checks again when the denial is  *)
(* short, raises when it is not or when it has waited often enough, fails  *)
(* OPEN when the object cannot be reached, calls ServiceTitan, and reports *)
(* a 429 back.  ServiceTitan (external) answers anything at any time.      *)
(*                                                                         *)
(* The clock runs freely while everybody sleeps; otherwise at most MaxLag  *)
(* ticks pass in all, the bound on the time taken by the network, the      *)
(* object, ServiceTitan and late timers.                                   *)
(***************************************************************************)
EXTENDS StRateLimiter

CONSTANTS
  Callers,
  FamilyOf,        \* the family each caller's endpoint belongs to
  IdentityOf,      \* the report it runs, or NoIdentity
  NoCaller,
  MaxPaceWait,     \* MAX_PACE_WAIT_MS
  MaxPaceAttempts, \* MAX_PACE_ATTEMPTS
  Jitters,         \* what the random jitter may add to a wait
  MaxLag           \* bound on ticks while somebody is not asleep

\* A wait for the end of a window is short enough to be waited out.
ASSUME GuardAssumption ==
  /\ FamilyOf \in [Callers -> Families]
  /\ IdentityOf \in [Callers -> Identities \cup {NoIdentity}]
  /\ NoCaller \notin Callers
  /\ MaxPaceAttempts \in Nat
  /\ Jitters \subseteq Nat
  /\ MaxPaceWait \in Nat /\ MaxPaceWait >= Window
  /\ MaxLag \in Nat

VARIABLES
  pc,       \* where each caller is
  attempt,  \* waits it has made
  wakeAt,   \* when its current wait ends
  serving,  \* the caller whose request the object is serving
  lag       \* ticks counted against MaxLag

guardVars == <<pc, attempt, wakeAt, serving, lag>>
allVars == <<vars, guardVars>>

Finished == {"ok", "limited", "raised", "failed"}
GuardInit ==
  /\ Init
  /\ pc = [c \in Callers |-> "idle"]
  /\ attempt = [c \in Callers |-> 0]
  /\ wakeAt = [c \in Callers |-> 0]
  /\ serving = NoCaller
  /\ lag = 0

Go(c, to) == pc' = [pc EXCEPT ![c] = to]

\* A call starts when its first POST /check reaches the object.
Start(c) ==
  /\ pc[c] = "idle"
  /\ serving = NoCaller
  /\ Check(FamilyOf[c], IdentityOf[c])
  /\ serving' = c
  /\ Go(c, "checking")
  /\ UNCHANGED <<attempt, wakeAt, lag>>

\* The object takes a later POST /check, or a POST /backoff.
Serve(c) ==
  /\ serving = NoCaller
  /\ \/ pc[c] = "checking" /\ Check(FamilyOf[c], IdentityOf[c])
     \/ pc[c] = "reporting" /\ \E r \in RetryAfters : ApplyBackoff(FamilyOf[c], r)
  /\ serving' = c
  /\ UNCHANGED <<pc, attempt, wakeAt, lag>>

Persist == PersistState /\ UNCHANGED guardVars

\* Mutant: one wait fewer than MAX_PACE_ATTEMPTS.
PaceableOnceLess(c) ==
  /\ reply.verdict # "same_report_within_window"
  /\ reply.retryAfterMs <= MaxPaceWait
  /\ attempt[c] + 1 < MaxPaceAttempts

Paceable(c) ==
  /\ reply.verdict # "same_report_within_window"
  /\ reply.retryAfterMs <= MaxPaceWait
  /\ attempt[c] < MaxPaceAttempts

\* The verdict reaches the caller.
Allowed(c) == reply.verdict = "allowed" /\ Go(c, "cleared") /\ UNCHANGED <<attempt, wakeAt>>

Pace(c) ==
  /\ reply.verdict \notin {"allowed", "ok"}
  /\ Paceable(c)
  /\ Go(c, "asleep")
  /\ attempt' = [attempt EXCEPT ![c] = @ + 1]
  /\ \E j \in Jitters : wakeAt' = [wakeAt EXCEPT ![c] = now + reply.retryAfterMs + j]

Raise(c) ==
  /\ reply.verdict \notin {"allowed", "ok"}
  /\ ~Paceable(c)
  /\ Go(c, "raised")
  /\ UNCHANGED <<attempt, wakeAt>>

Reported(c) == reply.verdict = "ok" /\ Go(c, "limited") /\ UNCHANGED <<attempt, wakeAt>>

Deliver(c) ==
  /\ serving = c
  /\ Reply
  /\ serving' = NoCaller
  /\ Allowed(c) \/ Pace(c) \/ Raise(c) \/ Reported(c)
  /\ UNCHANGED lag

Wake(c) ==
  /\ pc[c] = "asleep"
  /\ now >= wakeAt[c]
  /\ Go(c, "checking")
  /\ UNCHANGED <<vars, attempt, wakeAt, serving, lag>>

\* Mutant: the check is tried again instead of failing open.
ExceptionRetried(c) ==
  \/ pc[c] = "checking" /\ Go(c, "checking")
  \/ pc[c] = "reporting" /\ Go(c, "limited")

\* An exception instead of a verdict: the check fails open, a backoff report
\* is swallowed.
Exception(c) ==
  \/ pc[c] \in {"idle", "checking"} /\ Go(c, "open")
  \/ pc[c] = "reporting" /\ Go(c, "limited")

Unreachable(c) ==
  /\ serving # c
  /\ Exception(c)
  /\ UNCHANGED <<vars, attempt, wakeAt, serving, lag>>

EvictWhileServing(c) ==
  /\ serving = c
  /\ Evict
  /\ Exception(c)
  /\ serving' = NoCaller
  /\ UNCHANGED <<attempt, wakeAt, lag>>

EvictIdle == serving = NoCaller /\ stage = "idle" /\ Evict /\ UNCHANGED guardVars

\* The outbound call: ServiceTitan answers, answers 429, or the fetch throws.
CallServiceTitan(c) ==
  /\ pc[c] \in {"cleared", "open"}
  /\ \E to \in {"ok", "reporting", "failed"} : Go(c, to)
  /\ UNCHANGED <<vars, attempt, wakeAt, serving, lag>>

Sleeping(c) == pc[c] = "asleep" /\ now < wakeAt[c]
AllAsleep == \A c \in Callers : pc[c] \in {"idle"} \cup Finished \/ Sleeping(c)

Pass ==
  /\ Tick
  /\ \/ AllAsleep /\ (\E c \in Callers : Sleeping(c)) /\ lag' = lag
     \/ lag < MaxLag /\ lag' = lag + 1
  /\ UNCHANGED <<pc, attempt, wakeAt, serving>>

Step(c) ==
  \/ Serve(c)
  \/ Deliver(c)
  \/ Wake(c)
  \/ CallServiceTitan(c)

GuardNext ==
  \/ \E c \in Callers : Start(c) \/ Step(c) \/ Unreachable(c) \/ EvictWhileServing(c)
  \/ Persist
  \/ EvictIdle
  \/ Pass

\* The isolates, the object and the clock keep running; nobody has to start a
\* call, and nothing has to fail.
GuardFairness ==
  /\ \A c \in Callers : WF_allVars(Step(c))
  /\ WF_allVars(Persist)
  /\ WF_allVars(Pass)

GuardSpec == GuardInit /\ [][GuardNext]_allVars /\ GuardFairness

-----------------------------------------------------------------------------
(* Properties.                                                             *)

\* "a SHORT budget denial is waited out, not raised": a caller is denied at
\* most once per window, and a window denies only once it has admitted a full
\* cap of other callers.  So while the callers that have started are too few
\* to fill a window, the family's at its halved cap or the aggregate's, for
\* each wait and the last try, nobody is refused, penalties and evictions
\* included.
FanOutAbsorbed ==
  LET others == Cardinality({c \in Callers : pc[c] # "idle"}) - 1
  IN  /\ \A c \in Callers : IdentityOf[c] = NoIdentity
      /\ (others \div HalvedCap) + (others \div AggregateCap) <= MaxPaceAttempts
      => \A c \in Callers : pc[c] # "raised"

\* Every call that starts ends: it is answered, refused, or fails.
EveryCallEnds == \A c \in Callers : pc[c] = "checking" ~> pc[c] \in Finished
=============================================================================
