--------------------------- MODULE ReportRunProofs --------------------------
(* Proofs about ReportRun: the limiter's window keeps the runs of a report *)
(* apart, and thereby the rows of the cache in order, but for the reports  *)
(* that the ceiling of its ledger makes it forget.                         *)
EXTENDS ReportRun, TLAPS

Steps == Done \cup {"idle", "looking", "asking", "running", "storing"}
Stamps == Nat \cup {Never}
StoredRows == [pulled : Stamps, expires : Int]
Runs == [call : Calls, report : Reports, at : Nat]
Throttles == [isolate : Isolates, until : Nat]

TypeOK ==
  /\ now \in Nat
  /\ lag \in 0..MaxLag
  /\ pc \in [Calls -> Steps]
  /\ until \in [Isolates -> Nat]
  /\ row \in [Reports -> StoredRows]
  /\ lastRun \in [Reports -> Stamps]
  /\ forgotten \in [Reports -> Stamps]
  /\ pulled \in [Calls -> Stamps]
  /\ begun \in [Calls -> Stamps]
  /\ ended \in [Calls -> Stamps]
  /\ runs \subseteq Runs
  /\ throttles \subseteq Throttles
  /\ degraded \in BOOLEAN

\* Nothing is dated ahead, and every call has begun by the time it is answered.
PastOnly ==
  /\ \A r \in Reports : lastRun[r] <= now /\ row[r].pulled <= now /\ forgotten[r] <= now
  /\ \A c \in Calls : pulled[c] <= now /\ begun[c] <= now /\ ended[c] <= now
  /\ \A x \in runs : x.at <= now

\* D1 and the limiter answer, and no call outlasts the window.
Undisturbed == ~degraded /\ MaxLag < IdentityWindow

Underway(c) == pc[c] \in {"running", "storing"}

\* The ledger has forgotten the report while some call was under way.
Adrift(r) == forgotten[r] # Never /\ now <= forgotten[r] + lag

\* A report that was run, or whose row was stored, was granted shortly before,
\* or has been forgotten since.
GrantsAreNoted ==
  /\ \A x \in runs :
       \/ lastRun[x.report] # Never /\ x.at <= lastRun[x.report] + MaxLag
       \/ BeforeForgetting(x.report, x.at)
  /\ \A r \in Reports : row[r].pulled # Never =>
       \/ lastRun[r] # Never /\ row[r].pulled <= lastRun[r] + MaxLag
       \/ BeforeForgetting(r, row[r].pulled)

\* The call under way is the one granted last: all other runs of its report,
\* and the row, are from a window before, or forgotten.
LastGrant(c) ==
  LET r == ReportOf[c] IN
  /\ lastRun[r] # Never /\ now <= lastRun[r] + lag
  /\ row[r].pulled <= lastRun[r] \/ BeforeForgetting(r, row[r].pulled)
  /\ pc[c] = "storing" => lastRun[r] <= pulled[c]
  /\ \A x \in runs : x.report = r /\ x.call # c =>
       x.at + IdentityWindow <= lastRun[r] + MaxLag \/ BeforeForgetting(r, x.at)
  /\ \A d \in Calls \ {c} : Underway(d) => ReportOf[d] # r

OneAtATime ==
  GrantsAreNoted /\ \A c \in Calls : Underway(c) => LastGrant(c) \/ Adrift(ReportOf[c])

RunsAreApart ==
  \A x, y \in runs :
    x.call # y.call /\ x.report = y.report /\ x.at <= y.at
      => x.at + IdentityWindow <= y.at + MaxLag \/ BeforeForgetting(x.report, x.at)

\* The row is as young as any answer given that is not from before a
\* forgetting.
RowIsNewest ==
  /\ \A c \in Calls : pc[c] \in Answered =>
       pulled[c] <= row[ReportOf[c]].pulled \/ BeforeForgetting(ReportOf[c], pulled[c])
  /\ \A c, d \in Calls :
       /\ {pc[c], pc[d]} \subseteq Answered
       /\ ReportOf[c] = ReportOf[d]
       /\ ended[c] < begun[d]
       => pulled[c] <= pulled[d] \/ BeforeForgetting(ReportOf[c], pulled[c])

CooldownsAreTold ==
  /\ \A i \in Isolates :
       until[i] > 0 => \E t \in throttles : t.isolate = i /\ t.until = until[i]
  /\ RepeatsDoNotBlockOthers

ReportRunInv ==
  /\ TypeOK /\ PastOnly /\ CooldownsAreTold
  /\ Undisturbed => OneAtATime /\ RunsAreApart /\ RowIsNewest

-----------------------------------------------------------------------------
LEMMA Placed ==
  ASSUME NEW c \in Calls PROVE ReportOf[c] \in Reports /\ IsolateOf[c] \in Isolates
  BY ReportRunAssumption

\* A call under way whose report was forgotten is young: whatever there is of
\* the report is from before the forgetting.
LEMMA AdriftCovers ==
  ASSUME TypeOK, NEW r \in Reports, Adrift(r), NEW t \in Int, t <= now
  PROVE  BeforeForgetting(r, t)
  BY ReportRunAssumption DEF TypeOK, Adrift, BeforeForgetting, Stamps, Never

\* What the limiter's ledger keeps when a check prunes it: an unexpired entry
\* is only lost with a note.
LEMMA Pruning ==
  ASSUME TypeOK, PastOnly, NEW keep \in Kept, Forget(keep)
  PROVE  /\ Pruned(keep) \in [Reports -> Stamps] /\ forgotten' \in [Reports -> Stamps]
         /\ keep \subseteq Live
         /\ \A r \in Reports : Pruned(keep)[r] <= now /\ forgotten'[r] <= now
         /\ \A r \in Reports :
              \/ Pruned(keep)[r] = lastRun[r] /\ forgotten'[r] = forgotten[r]
              \/ r \in Live \ keep /\ Pruned(keep)[r] = Never /\ forgotten'[r] = now
<1>1. keep \subseteq Live
  BY DEF Kept
<1>2. now \in Nat /\ now \in Stamps /\ Never \in Stamps /\ Never <= now
  BY DEF TypeOK, Stamps, Never
<1>3. \A r \in Reports :
        \/ Pruned(keep)[r] = lastRun[r] /\ forgotten'[r] = forgotten[r]
        \/ r \in Live \ keep /\ Pruned(keep)[r] = Never /\ forgotten'[r] = now
  BY DEF Pruned, Forget
<1>4. \A r \in Reports : lastRun[r] \in Stamps /\ forgotten[r] \in Stamps
  BY DEF TypeOK
<1>5. Pruned(keep) \in [Reports -> Stamps] /\ forgotten' \in [Reports -> Stamps]
  BY <1>2, <1>4 DEF Pruned, Forget
<1>6. \A r \in Reports : Pruned(keep)[r] <= now /\ forgotten'[r] <= now
  BY <1>2, <1>3 DEF PastOnly
<1> QED
  BY <1>1, <1>3, <1>5, <1>6

LEMMA ReportRunInit ==
  ASSUME Init PROVE ReportRunInv
<1> USE ReportRunAssumption DEF Init, Never
<1>1. TypeOK
  <2>1. NoRow \in StoredRows /\ Never \in Stamps /\ "idle" \in Steps /\ 0 \in 0..MaxLag
    BY DEF StoredRows, NoRow, Stamps, Steps
  <2> QED
    BY <2>1 DEF TypeOK
<1>2. PastOnly /\ CooldownsAreTold
  BY DEF PastOnly, CooldownsAreTold, RepeatsDoNotBlockOthers, NoRow
<1>3. OneAtATime /\ RunsAreApart /\ RowIsNewest
  BY DEF OneAtATime, GrantsAreNoted, Underway, RunsAreApart, RowIsNewest, Answered, NoRow
<1> QED
  BY <1>1, <1>2, <1>3 DEF ReportRunInv

(* A forgetting covers what it covered before, and whatever there is now.   *)
LEMMA Noted ==
  ASSUME TypeOK, PastOnly, NEW r \in Reports, UNCHANGED <<now, lag>>,
         forgotten'[r] = forgotten[r] \/ forgotten'[r] = now
  PROVE  /\ \A t \in Int : BeforeForgetting(r, t) => BeforeForgetting(r, t)'
         /\ Adrift(r) => Adrift(r)'
         /\ forgotten'[r] = now =>
              Adrift(r)' /\ \A t \in Int : t <= now => BeforeForgetting(r, t)'
<1>1. now \in Nat /\ lag \in Nat /\ MaxLag \in Nat /\ forgotten[r] \in Stamps /\ forgotten[r] <= now
  BY ReportRunAssumption DEF TypeOK, PastOnly
<1> QED
  BY <1>1 DEF BeforeForgetting, Adrift, Stamps, Never

(* A check that prunes the ledger, and moves no call, disturbs nothing.     *)
LEMMA Pruned1 ==
  ASSUME ReportRunInv, Undisturbed, UNCHANGED <<now, lag, row, runs>>, NEW r \in Reports,
         \/ lastRun'[r] = lastRun[r] /\ forgotten'[r] = forgotten[r]
         \/ forgotten'[r] = now
  PROVE  /\ \A x \in runs : x.report = r =>
              \/ lastRun'[r] # Never /\ x.at <= lastRun'[r] + MaxLag
              \/ BeforeForgetting(r, x.at)'
         /\ row[r].pulled # Never =>
              \/ lastRun'[r] # Never /\ row[r].pulled <= lastRun'[r] + MaxLag
              \/ BeforeForgetting(r, row[r].pulled)'
<1> USE DEF ReportRunInv
<1>1. \A x \in runs : x.at \in Int /\ x.at <= now
  BY DEF TypeOK, PastOnly, Runs
<1>2. row[r].pulled \in Int /\ row[r].pulled <= now
  BY DEF TypeOK, PastOnly, StoredRows, Stamps, Never
<1>3. CASE forgotten'[r] = now
  <2>1. \A t \in Int : t <= now => BeforeForgetting(r, t)'
    BY <1>3, Noted
  <2> QED
    BY <1>1, <1>2, <2>1 DEF BeforeForgetting
<1>4. CASE lastRun'[r] = lastRun[r] /\ forgotten'[r] = forgotten[r]
  BY <1>4 DEF OneAtATime, GrantsAreNoted, BeforeForgetting
<1> QED
  BY <1>3, <1>4

(* What holds of the runs and the row survives the pruning.                 *)
LEMMA PrunedHistory ==
  ASSUME ReportRunInv, Undisturbed, UNCHANGED <<now, lag, row, runs, pulled, ended>>,
         \A r \in Reports : \/ lastRun'[r] = lastRun[r] /\ forgotten'[r] = forgotten[r]
                            \/ forgotten'[r] = now,
         NEW c \in Calls, NEW step, step \notin Answered, pc' = [pc EXCEPT ![c] = step],
         pc[c] \notin Answered, begun' = begun \/ begun' = [begun EXCEPT ![c] = now]
  PROVE  /\ GrantsAreNoted' /\ RunsAreApart' /\ RowIsNewest'
<1> USE DEF ReportRunInv
<1>1. GrantsAreNoted'
  <2>1. \A x \in runs : x.report \in Reports
    BY DEF TypeOK, Runs
  <2> QED
    BY <2>1, Pruned1 DEF GrantsAreNoted, BeforeForgetting
<1>2. \A r \in Reports, t \in Int : BeforeForgetting(r, t) => BeforeForgetting(r, t)'
  BY Noted
<1>3. RunsAreApart'
  <2>1. \A x \in runs : x.report \in Reports /\ x.at \in Int
    BY DEF TypeOK, Runs
  <2> QED
    BY <1>2, <2>1 DEF RunsAreApart, BeforeForgetting
<1>4. RowIsNewest'
  <2>1. \A d \in Calls : pc'[d] \in Answered =>
          pc[d] \in Answered /\ d # c /\ begun'[d] = begun[d]
    BY DEF TypeOK
  <2>2. \A d \in Calls : pulled[d] \in Int /\ ReportOf[d] \in Reports
    BY Placed DEF TypeOK, Stamps, Never
  <2> QED
    BY <1>2, <2>1, <2>2 DEF RowIsNewest, BeforeForgetting
<1> QED
  BY <1>1, <1>3, <1>4

(* The call under way stays the one granted last, or was forgotten.         *)
LEMMA PrunedGrant ==
  ASSUME ReportRunInv, Undisturbed, UNCHANGED <<now, lag, row, runs, pulled>>,
         NEW d \in Calls, Underway(d), pc'[d] = pc[d],
         \/ lastRun'[ReportOf[d]] = lastRun[ReportOf[d]] /\ forgotten'[ReportOf[d]] = forgotten[ReportOf[d]]
         \/ forgotten'[ReportOf[d]] = now,
         \A e \in Calls : Underway(e)' /\ ReportOf[e] = ReportOf[d] => Underway(e)
  PROVE  LastGrant(d)' \/ Adrift(ReportOf[d])'
<1> USE Placed DEF ReportRunInv
<1>1. CASE forgotten'[ReportOf[d]] = now
  BY <1>1, Noted
<1>2. CASE Adrift(ReportOf[d])
  BY <1>2, Noted
<1>3. CASE LastGrant(d) /\ forgotten'[ReportOf[d]] # now
  BY <1>3 DEF LastGrant, BeforeForgetting
<1> QED
  BY <1>1, <1>2, <1>3 DEF OneAtATime

(* A step of a call that is not under way, and does not get there with the  *)
(* limiter and D1 answering, nor is answered.                              *)
LEMMA Quiet ==
  ASSUME ReportRunInv, NEW c \in Calls, ~Underway(c), pc[c] \notin Answered,
         NEW step \in Steps \ (Answered \cup {"storing"}), pc' = [pc EXCEPT ![c] = step],
         step = "running" => degraded',
         degraded => degraded', UNCHANGED <<now, lag, row, pulled, ended, runs>>,
         \A r \in Reports : \/ lastRun'[r] = lastRun[r] /\ forgotten'[r] = forgotten[r]
                            \/ forgotten'[r] = now,
         begun' = begun \/ begun' = [begun EXCEPT ![c] = now]
  PROVE  Undisturbed' => (OneAtATime /\ RunsAreApart /\ RowIsNewest)'
<1> SUFFICES ASSUME Undisturbed' PROVE (OneAtATime /\ RunsAreApart /\ RowIsNewest)'
  OBVIOUS
<1>1. Undisturbed
  BY DEF Undisturbed, ReportRunInv, TypeOK
<1>2. step \notin {"running", "storing"}
  BY DEF Undisturbed, Underway
<1>3. GrantsAreNoted' /\ RunsAreApart' /\ RowIsNewest'
  BY <1>1, PrunedHistory
<1>4. ASSUME NEW d \in Calls, Underway(d)' PROVE LastGrant(d)' \/ Adrift(ReportOf[d])'
  <2>1. \A e \in Calls : Underway(e)' => Underway(e) /\ pc'[e] = pc[e]
    BY <1>2 DEF Underway, ReportRunInv, TypeOK
  <2> QED
    BY <1>1, <1>4, <2>1, Placed, PrunedGrant
<1> QED
  BY <1>3, <1>4 DEF OneAtATime

-----------------------------------------------------------------------------
(* Before the run. *)

LEMMA InvHoldOff ==
  ASSUME ReportRunInv, NEW c \in Calls, HoldOff(c)
  PROVE  ReportRunInv'
<1> USE Placed DEF ReportRunInv, TypeOK, HoldOff, Go, shared, Cooling
<1>1. TypeOK' /\ PastOnly'
  BY DEF Steps, Done, Stamps, PastOnly
<1>2. CooldownsAreTold'
  <2>1. \E t \in throttles : t.isolate = IsolateOf[c] /\ t.until > now
    BY DEF CooldownsAreTold
  <2> QED
    BY <2>1 DEF CooldownsAreTold, RepeatsDoNotBlockOthers
<1>3. Undisturbed' => (OneAtATime /\ RunsAreApart /\ RowIsNewest)'
  BY Quiet DEF Underway, Steps, Done, Answered
<1> QED
  BY <1>1, <1>2, <1>3

LEMMA InvLookUp ==
  ASSUME ReportRunInv, NEW c \in Calls, Begin(c) \/ Miss(c) \/ FailsOpen(c)
  PROVE  ReportRunInv'
<1> USE Placed DEF ReportRunInv, TypeOK, Begin, Miss, FailsOpen, Go, shared
<1>1. TypeOK' /\ PastOnly'
  <2>1. \E step \in Steps : pc' = [pc EXCEPT ![c] = step]
    BY DEF Steps, Done
  <2>2. begun' = begun \/ begun' = [begun EXCEPT ![c] = now]
    OBVIOUS
  <2>3. degraded' \in BOOLEAN
    OBVIOUS
  <2>4. UNCHANGED <<now, lag, until, row, lastRun, forgotten, pulled, ended, runs, throttles>>
    OBVIOUS
  <2>5. TypeOK'
    BY <2>1, <2>2, <2>3, <2>4 DEF Stamps
  <2>6. PastOnly'
    BY <2>2, <2>4 DEF PastOnly
  <2> QED
    BY <2>5, <2>6
<1>2. CooldownsAreTold'
  BY DEF CooldownsAreTold, RepeatsDoNotBlockOthers
<1>3. Undisturbed' => (OneAtATime /\ RunsAreApart /\ RowIsNewest)'
  <2>1. pc[c] \in {"idle", "looking", "asking"} /\ (degraded => degraded')
    OBVIOUS
  <2>2. \E step \in {"looking", "asking", "running"} :
          pc' = [pc EXCEPT ![c] = step] /\ (step = "running" => degraded')
    OBVIOUS
  <2>3. begun' = begun \/ begun' = [begun EXCEPT ![c] = now]
    OBVIOUS
  <2>4. UNCHANGED <<now, lag, row, lastRun, forgotten, pulled, ended, runs>>
    OBVIOUS
  <2> QED
    BY <2>1, <2>2, <2>3, <2>4, Quiet DEF Underway, Steps, Done, Answered
<1> QED
  BY <1>1, <1>2, <1>3

(* Arming the cooldown notes what the isolate was told. *)
LEMMA ArmTells ==
  ASSUME ReportRunInv, NEW c \in Calls, NEW wait \in RetryAfters, Arm(c, wait),
         NEW step \in {"limited", "throttled"}, pc' = [pc EXCEPT ![c] = step],
         UNCHANGED begun
  PROVE  /\ until' \in [Isolates -> Nat] /\ throttles' \subseteq Throttles
         /\ CooldownsAreTold'
<1> USE Placed DEF ReportRunInv, TypeOK, Arm
<1>1. now + wait \in Nat
  BY ReportRunAssumption
<1>2. until' \in [Isolates -> Nat] /\ throttles' \subseteq Throttles
  BY <1>1 DEF Throttles
<1>3. \A i \in Isolates :
        until'[i] > 0 => \E t \in throttles' : t.isolate = i /\ t.until = until'[i]
  <2>1. \A i \in Isolates \ {IsolateOf[c]} : until'[i] = until[i]
    OBVIOUS
  <2>2. until'[IsolateOf[c]] = now + wait
    OBVIOUS
  <2>3. [isolate |-> IsolateOf[c], until |-> now + wait] \in throttles'
    OBVIOUS
  <2> QED
    BY <2>1, <2>2, <2>3 DEF CooldownsAreTold
<1>4. RepeatsDoNotBlockOthers'
  BY DEF CooldownsAreTold, RepeatsDoNotBlockOthers
<1> QED
  BY <1>2, <1>3, <1>4 DEF CooldownsAreTold

LEMMA InvDenied ==
  ASSUME ReportRunInv, NEW c \in Calls, Denied(c)
  PROVE  ReportRunInv'
<1> USE Placed DEF ReportRunInv, Denied, Go
<1>1. PICK wait \in RetryAfters : Arm(c, wait)
  OBVIOUS
<1>2. PICK keep \in Kept : lastRun' = Pruned(keep) /\ Forget(keep)
  OBVIOUS
<1>3. /\ lastRun' \in [Reports -> Stamps] /\ forgotten' \in [Reports -> Stamps]
      /\ \A r \in Reports : lastRun'[r] <= now /\ forgotten'[r] <= now
      /\ \A r \in Reports : \/ lastRun'[r] = lastRun[r] /\ forgotten'[r] = forgotten[r]
                            \/ forgotten'[r] = now
  BY <1>2, Pruning
<1>4. TypeOK'
  <2>1. until' \in [Isolates -> Nat] /\ throttles' \subseteq Throttles
    BY <1>1, ArmTells
  <2> QED
    BY <1>3, <2>1 DEF TypeOK, Steps, Done
<1>5. PastOnly'
  BY <1>3 DEF PastOnly, TypeOK
<1>6. CooldownsAreTold'
  BY <1>1, ArmTells
<1>7. Undisturbed' => (OneAtATime /\ RunsAreApart /\ RowIsNewest)'
  BY <1>3, Quiet DEF Underway, Steps, Done, Answered
<1> QED
  BY <1>4, <1>5, <1>6, <1>7

LEMMA InvRepeated ==
  ASSUME ReportRunInv, NEW c \in Calls, Repeated(c)
  PROVE  ReportRunInv'
<1> USE Placed DEF ReportRunInv, Repeated, RepeatedCheck, Go, history
<1>1. PICK keep \in Kept : lastRun' = Pruned(keep) /\ Forget(keep)
  OBVIOUS
<1>2. /\ lastRun' \in [Reports -> Stamps] /\ forgotten' \in [Reports -> Stamps]
      /\ \A r \in Reports : lastRun'[r] <= now /\ forgotten'[r] <= now
      /\ \A r \in Reports : \/ lastRun'[r] = lastRun[r] /\ forgotten'[r] = forgotten[r]
                            \/ forgotten'[r] = now
  BY <1>1, Pruning
<1>3. TypeOK'
  BY <1>2 DEF TypeOK, Steps, Done
<1>4. PastOnly'
  BY <1>2 DEF PastOnly, TypeOK
<1>5. CooldownsAreTold'
  BY DEF CooldownsAreTold, RepeatsDoNotBlockOthers, TypeOK
<1>6. Undisturbed' => (OneAtATime /\ RunsAreApart /\ RowIsNewest)'
  BY <1>2, Quiet DEF Underway, Steps, Done, Answered
<1> QED
  BY <1>3, <1>4, <1>5, <1>6

LEMMA InvHit ==
  ASSUME ReportRunInv, NEW c \in Calls, Hit(c)
  PROVE  ReportRunInv'
<1> USE Placed DEF ReportRunInv, TypeOK, Hit, Go, shared
<1>1. TypeOK'
  BY DEF Steps, Done, Answered, Stamps, StoredRows
<1>2. PastOnly'
  BY DEF PastOnly, Stamps
<1>3. CooldownsAreTold'
  BY DEF CooldownsAreTold, RepeatsDoNotBlockOthers
<1>4. ASSUME Undisturbed' PROVE OneAtATime' /\ RunsAreApart'
  <2>1. Undisturbed
    BY <1>4 DEF Undisturbed
  <2>2. \A d \in Calls : Underway(d)' => Underway(d) /\ d # c
    BY DEF Underway
  <2>3. ASSUME NEW d \in Calls, Underway(d)' PROVE LastGrant(d)' \/ Adrift(ReportOf[d])'
    BY <2>1, <2>2, <2>3 DEF OneAtATime, LastGrant, Adrift, BeforeForgetting
  <2>4. GrantsAreNoted' /\ RunsAreApart'
    BY <2>1 DEF OneAtATime, GrantsAreNoted, RunsAreApart, BeforeForgetting
  <2> QED
    BY <2>3, <2>4 DEF OneAtATime
<1>5. ASSUME Undisturbed' PROVE RowIsNewest'
  <2>1. Undisturbed
    BY <1>5 DEF Undisturbed
  <2>2. pulled'[c] = row[ReportOf[c]].pulled /\ ended'[c] = now
    OBVIOUS
  <2>3. \A d \in Calls \ {c} : pulled'[d] = pulled[d] /\ ended'[d] = ended[d] /\ pc'[d] = pc[d]
    OBVIOUS
  <2>4. \A d \in Calls : pc[d] \in Answered =>
          \/ pulled[d] <= row[ReportOf[d]].pulled
          \/ BeforeForgetting(ReportOf[d], pulled[d])
    BY <2>1 DEF RowIsNewest
  <2>5. \A d \in Calls : ~(ended'[c] < begun'[d])
    BY DEF PastOnly, Stamps, Never
  <2>6. row[ReportOf[c]].pulled \in Int
    BY DEF StoredRows, Stamps, Never
  <2> QED
    BY <2>1, <2>2, <2>3, <2>4, <2>5, <2>6 DEF RowIsNewest, BeforeForgetting
<1> QED
  BY <1>1, <1>2, <1>3, <1>4, <1>5

-----------------------------------------------------------------------------
(* The run. *)

(* A grant ends the window of the one before it: no run of this report is   *)
(* still under way, unless the report was forgotten while it was.           *)
LEMMA GrantIsLast ==
  ASSUME ReportRunInv, Undisturbed, NEW c \in Calls, pc[c] = "asking",
         NEW keep \in Kept, ReportOf[c] \notin keep,
         lastRun' = [Pruned(keep) EXCEPT ![ReportOf[c]] = now], Forget(keep),
         pc' = [pc EXCEPT ![c] = "running"], UNCHANGED <<now, lag, row, pulled, runs>>
  PROVE  /\ \A d \in Calls : Underway(d)' /\ ReportOf[d] = ReportOf[c] =>
              LastGrant(d)' \/ Adrift(ReportOf[c])'
         /\ lastRun'[ReportOf[c]] = now
         /\ \A q \in Reports \ {ReportOf[c]} :
              \/ lastRun'[q] = lastRun[q] /\ forgotten'[q] = forgotten[q]
              \/ forgotten'[q] = now
         /\ forgotten'[ReportOf[c]] \in {forgotten[ReportOf[c]], now}
<1> DEFINE r == ReportOf[c]
<1> USE Placed, ReportRunAssumption DEF ReportRunInv
<1>1. Pruned(keep) \in [Reports -> Stamps]
  BY Pruning
<1>2. lastRun'[r] = now /\ \A q \in Reports \ {r} : lastRun'[q] = Pruned(keep)[q]
  BY <1>1
<1>3. /\ \A q \in Reports \ {r} :
           \/ lastRun'[q] = lastRun[q] /\ forgotten'[q] = forgotten[q]
           \/ forgotten'[q] = now
      /\ forgotten'[r] \in {forgotten[r], now}
      /\ r \in Live => forgotten'[r] = now
  BY <1>2, Pruning DEF Forget
<1>4. CASE Adrift(r)'
  BY <1>2, <1>3, <1>4
<1>5. CASE ~Adrift(r)'
  <2>1. forgotten'[r] = forgotten[r] /\ forgotten'[r] # now /\ ~Adrift(r) /\ r \notin Live
    BY <1>3, <1>5, Noted
  <2>2. lastRun[r] = Never \/ lastRun[r] + IdentityWindow <= now
    BY <2>1 DEF Live, RanRecently, TypeOK, Stamps, Never
  <2>3. \A d \in Calls : Underway(d) => ReportOf[d] # r
    BY <2>1, <2>2 DEF OneAtATime, LastGrant, Undisturbed, TypeOK, Stamps, Never
  <2>4. \A d \in Calls : Underway(d)' <=> Underway(d) \/ d = c
    BY DEF Underway, TypeOK
  <2>5. \A x \in runs : x.report = r =>
          x.at + IdentityWindow <= now + MaxLag \/ BeforeForgetting(r, x.at)
    BY <2>2 DEF OneAtATime, GrantsAreNoted, TypeOK, Runs, Stamps, Never
  <2>6. row[r].pulled <= now /\ now # Never /\ now <= now + lag
    BY DEF PastOnly, TypeOK, Never
  <2>7. LastGrant(c)'
    BY <1>2, <2>1, <2>3, <2>4, <2>5, <2>6 DEF LastGrant, BeforeForgetting, TypeOK
  <2> QED
    BY <1>2, <1>3, <2>3, <2>4, <2>7
<1> QED
  BY <1>4, <1>5

LEMMA InvGranted ==
  ASSUME ReportRunInv, NEW c \in Calls, Granted(c)
  PROVE  ReportRunInv'
<1> DEFINE r == ReportOf[c]
<1> USE Placed, ReportRunAssumption DEF ReportRunInv, Granted, Go, history
<1>1. PICK keep \in Kept :
        /\ r \notin keep
        /\ lastRun' = [Pruned(keep) EXCEPT ![r] = now]
        /\ Forget(keep)
  OBVIOUS
<1>2. /\ Pruned(keep) \in [Reports -> Stamps] /\ forgotten' \in [Reports -> Stamps]
      /\ \A q \in Reports : Pruned(keep)[q] <= now /\ forgotten'[q] <= now
  BY <1>1, Pruning
<1>3. now \in Stamps
  BY DEF TypeOK, Stamps
<1>4. TypeOK'
  BY <1>1, <1>2, <1>3 DEF TypeOK, Steps
<1>5. PastOnly'
  BY <1>1, <1>2 DEF PastOnly, TypeOK
<1>6. CooldownsAreTold'
  BY DEF CooldownsAreTold, RepeatsDoNotBlockOthers, TypeOK
<1>7. ASSUME Undisturbed' PROVE OneAtATime' /\ RunsAreApart' /\ RowIsNewest'
  <2>1. Undisturbed
    BY <1>7 DEF Undisturbed
  <2>2. /\ \A d \in Calls : Underway(d)' /\ ReportOf[d] = r => LastGrant(d)' \/ Adrift(r)'
        /\ lastRun'[r] = now
        /\ \A q \in Reports \ {r} :
             \/ lastRun'[q] = lastRun[q] /\ forgotten'[q] = forgotten[q]
             \/ forgotten'[q] = now
        /\ forgotten'[r] \in {forgotten[r], now}
    BY <1>1, <2>1, GrantIsLast
  <2>3. ASSUME NEW d \in Calls, Underway(d)' PROVE LastGrant(d)' \/ Adrift(ReportOf[d])'
    <3>1. CASE ReportOf[d] = r
      BY <2>2, <2>3, <3>1
    <3>2. CASE ReportOf[d] # r
      <4>1. Underway(d) /\ pc'[d] = pc[d]
        BY <2>3, <3>2 DEF Underway, TypeOK
      <4>2. \A e \in Calls : Underway(e)' /\ ReportOf[e] = ReportOf[d] => Underway(e)
        BY <3>2 DEF Underway, TypeOK
      <4> QED
        BY <2>1, <2>2, <3>2, <4>1, <4>2, PrunedGrant
    <3> QED
      BY <3>1, <3>2
  <2>4. GrantsAreNoted'
    <3>1. \A x \in runs : x.report \in Reports /\ x.at \in Int /\ x.at <= now
      BY DEF TypeOK, PastOnly, Runs
    <3>2. row[r].pulled <= now /\ row[r].pulled \in Int
      BY DEF TypeOK, PastOnly, StoredRows, Stamps, Never
    <3>3. ASSUME NEW x \in runs
          PROVE  \/ lastRun'[x.report] # Never /\ x.at <= lastRun'[x.report] + MaxLag
                 \/ BeforeForgetting(x.report, x.at)'
      BY <2>1, <2>2, <3>1, Pruned1 DEF TypeOK, Never
    <3>4. ASSUME NEW q \in Reports, row[q].pulled # Never
          PROVE  \/ lastRun'[q] # Never /\ row[q].pulled <= lastRun'[q] + MaxLag
                 \/ BeforeForgetting(q, row[q].pulled)'
      BY <2>1, <2>2, <3>2, <3>4, Pruned1 DEF TypeOK, Never
    <3> QED
      BY <3>3, <3>4 DEF GrantsAreNoted, BeforeForgetting
  <2>5. \A q \in Reports, t \in Int : BeforeForgetting(q, t) => BeforeForgetting(q, t)'
    BY <2>2, Noted
  <2>6. RunsAreApart'
    <3>1. \A x \in runs : x.report \in Reports /\ x.at \in Int
      BY DEF TypeOK, Runs
    <3> QED
      BY <2>1, <2>5, <3>1 DEF RunsAreApart, BeforeForgetting
  <2>7. RowIsNewest'
    <3>1. \A d \in Calls : pc'[d] \in Answered => pc[d] \in Answered
      BY DEF TypeOK, Answered
    <3>2. \A d \in Calls : pulled[d] \in Int
      BY DEF TypeOK, Stamps, Never
    <3> QED
      BY <2>1, <2>5, <3>1, <3>2 DEF RowIsNewest, BeforeForgetting
  <2> QED
    BY <2>3, <2>4, <2>6, <2>7 DEF OneAtATime
<1> QED
  BY <1>4, <1>5, <1>6, <1>7

(* A call under way stays the one granted last while others run other       *)
(* reports.                                                                *)
LEMMA StillLast ==
  ASSUME ReportRunInv, Undisturbed, UNCHANGED <<now, lag, lastRun, forgotten>>,
         NEW d \in Calls, Underway(d), row'[ReportOf[d]] = row[ReportOf[d]],
         pc'[d] = pc[d], pulled'[d] = pulled[d],
         \A x \in runs' : x.report = ReportOf[d] => x \in runs,
         \A e \in Calls : Underway(e)' => Underway(e)
  PROVE  LastGrant(d)' \/ Adrift(ReportOf[d])'
<1>1. LastGrant(d) \/ Adrift(ReportOf[d])
  BY DEF ReportRunInv, OneAtATime
<1>2. CASE LastGrant(d)
  BY <1>2 DEF LastGrant, BeforeForgetting
<1>3. CASE Adrift(ReportOf[d])
  BY <1>3 DEF Adrift
<1> QED
  BY <1>1, <1>2, <1>3

(* The run of a call under way is a window away from all others, but those  *)
(* that were forgotten.                                                    *)
LEMMA ReachedApart ==
  ASSUME ReportRunInv, Undisturbed, NEW c \in Calls, pc[c] = "running", Reached(c),
         UNCHANGED <<now, lag, row, lastRun, forgotten>>
  PROVE  RunsAreApart' /\ GrantsAreNoted'
<1> DEFINE new == [call |-> c, report |-> ReportOf[c], at |-> now]
           r == ReportOf[c]
<1> USE Placed, ReportRunAssumption DEF ReportRunInv
<1>1. LastGrant(c) \/ Adrift(r)
  BY DEF OneAtATime, Underway
<1>2. /\ \A x \in runs : x.at \in Int /\ x.at <= now
      /\ now \in Nat /\ lag \in 0..MaxLag /\ MaxLag \in Nat
      /\ lastRun[r] \in Int /\ lastRun[r] <= now
  BY DEF TypeOK, PastOnly, Runs, Stamps, Never
<1>3. CASE Adrift(r)
  <2>1. \A t \in Int : t <= now => BeforeForgetting(r, t)
    BY <1>3, AdriftCovers
  <2>2. RunsAreApart'
    BY <1>2, <2>1 DEF RunsAreApart, Reached, BeforeForgetting
  <2>3. GrantsAreNoted'
    BY <1>2, <2>1 DEF OneAtATime, GrantsAreNoted, Reached, BeforeForgetting
  <2> QED
    BY <2>2, <2>3
<1>4. CASE LastGrant(c)
  <2>1. lastRun[r] # Never /\ now <= lastRun[r] + MaxLag
    BY <1>2, <1>4 DEF LastGrant
  <2>2. ASSUME NEW x \in runs, x.report = r, x.call # c
        PROVE  x.at + IdentityWindow <= now + MaxLag \/ BeforeForgetting(r, x.at)
    BY <1>2, <1>4, <2>2 DEF LastGrant
  <2>3. ASSUME NEW x \in runs, x.report = r, x.call # c, now <= x.at
        PROVE  BeforeForgetting(r, now)
    <3>1. x.at = now
      BY <1>2, <2>3
    <3> QED
      BY <1>2, <2>2, <2>3, <3>1 DEF Undisturbed
  <2>4. RunsAreApart'
    BY <2>2, <2>3 DEF RunsAreApart, Reached, BeforeForgetting
  <2>5. GrantsAreNoted'
    BY <2>1 DEF OneAtATime, GrantsAreNoted, Reached, BeforeForgetting
  <2> QED
    BY <2>4, <2>5
<1> QED
  BY <1>1, <1>3, <1>4

LEMMA InvPull ==
  ASSUME ReportRunInv, NEW c \in Calls, Pull(c)
  PROVE  ReportRunInv'
<1> DEFINE r == ReportOf[c]
<1> USE Placed, ReportRunAssumption DEF ReportRunInv, TypeOK, Pull, Go, shared
<1>1. TypeOK'
  BY DEF Steps, Stamps, Reached, Runs
<1>2. PastOnly'
  BY DEF PastOnly, Stamps, Reached
<1>3. CooldownsAreTold'
  BY DEF CooldownsAreTold, RepeatsDoNotBlockOthers
<1>4. ASSUME Undisturbed' PROVE OneAtATime' /\ RunsAreApart' /\ RowIsNewest'
  <2>1. Undisturbed
    BY <1>4 DEF Undisturbed
  <2> USE <2>1
  <2>2. \A d \in Calls : Underway(d)' <=> Underway(d)
    BY DEF Underway
  <2>3. RunsAreApart' /\ GrantsAreNoted'
    BY ReachedApart
  <2>4. LastGrant(c) \/ Adrift(r)
    BY DEF OneAtATime, Underway
  <2>5. LastGrant(c)' \/ Adrift(r)'
    <3>1. CASE LastGrant(c)
      <4>1. pulled'[c] = now /\ lastRun[r] <= now
        BY DEF PastOnly
      <4>2. \A x \in runs' : x.call # c => x \in runs
        BY DEF Reached
      <4> QED
        BY <2>2, <3>1, <4>1, <4>2 DEF LastGrant, BeforeForgetting
    <3>2. CASE Adrift(r)
      BY <3>2 DEF Adrift
    <3> QED
      BY <2>4, <3>1, <3>2
  <2>6. ASSUME NEW d \in Calls \ {c}, Underway(d) PROVE LastGrant(d)' \/ Adrift(ReportOf[d])'
    <3>1. CASE ReportOf[d] = r
      BY <2>4, <2>6, <3>1 DEF LastGrant, Adrift
    <3>2. CASE ReportOf[d] # r
      <4>1. \A x \in runs' : x.report = ReportOf[d] => x \in runs
        BY <3>2 DEF Reached
      <4>2. pc'[d] = pc[d] /\ pulled'[d] = pulled[d]
        BY <2>6
      <4> QED
        BY <2>2, <2>6, <4>1, <4>2, StillLast
    <3> QED
      BY <3>1, <3>2
  <2>7. RowIsNewest'
    BY DEF RowIsNewest, Answered, BeforeForgetting
  <2> QED
    BY <2>2, <2>3, <2>5, <2>6, <2>7 DEF OneAtATime
<1> QED
  BY <1>1, <1>2, <1>3, <1>4

(* A run that brings no data ends the call. *)
LEMMA RunEnds ==
  ASSUME ReportRunInv, NEW c \in Calls, pc[c] = "running", Reached(c),
         NEW step \in {"throttled", "failed"}, pc' = [pc EXCEPT ![c] = step],
         UNCHANGED <<now, lag, row, lastRun, forgotten, pulled, begun, ended, degraded>>
  PROVE  Undisturbed' => (OneAtATime /\ RunsAreApart /\ RowIsNewest)'
<1> SUFFICES ASSUME Undisturbed' PROVE (OneAtATime /\ RunsAreApart /\ RowIsNewest)'
  OBVIOUS
<1> USE Placed DEF ReportRunInv, TypeOK
<1>1. Undisturbed
  BY DEF Undisturbed
<1>2. GrantsAreNoted' /\ RunsAreApart'
  BY <1>1, ReachedApart
<1>3. ASSUME NEW d \in Calls, Underway(d)' PROVE LastGrant(d)' \/ Adrift(ReportOf[d])'
  <2>1. /\ d # c /\ Underway(d) /\ pc'[d] = pc[d]
        /\ \A e \in Calls : Underway(e)' => Underway(e)
    BY <1>3 DEF Underway
  <2>2. CASE ReportOf[d] = ReportOf[c]
    <3>1. LastGrant(c) \/ Adrift(ReportOf[c])
      BY <1>1 DEF OneAtATime, Underway
    <3> QED
      BY <2>1, <2>2, <3>1 DEF LastGrant, Adrift
  <2>3. CASE ReportOf[d] # ReportOf[c]
    <3>1. \A x \in runs' : x.report = ReportOf[d] => x \in runs
      BY <2>3 DEF Reached
    <3> QED
      BY <1>1, <2>1, <3>1, StillLast
  <2> QED
    BY <2>2, <2>3
<1>4. RowIsNewest'
  BY <1>1 DEF RowIsNewest, Answered, BeforeForgetting
<1> QED
  BY <1>2, <1>3, <1>4 DEF OneAtATime

LEMMA InvThrottled ==
  ASSUME ReportRunInv, NEW c \in Calls, Throttled(c)
  PROVE  ReportRunInv'
<1> USE Placed DEF ReportRunInv, Throttled, Go
<1>1. PICK wait \in RetryAfters : Arm(c, wait)
  OBVIOUS
<1>2. TypeOK'
  <2>1. runs' \subseteq Runs
    BY DEF TypeOK, Reached, Runs
  <2>2. until' \in [Isolates -> Nat] /\ throttles' \subseteq Throttles
    BY <1>1, ArmTells
  <2> QED
    BY <2>1, <2>2 DEF TypeOK, Steps, Done
<1>3. PastOnly'
  BY DEF PastOnly, TypeOK, Reached
<1>4. CooldownsAreTold'
  BY <1>1, ArmTells
<1>5. Undisturbed' => (OneAtATime /\ RunsAreApart /\ RowIsNewest)'
  BY RunEnds
<1> QED
  BY <1>2, <1>3, <1>4, <1>5

LEMMA InvFails ==
  ASSUME ReportRunInv, NEW c \in Calls, Fails(c)
  PROVE  ReportRunInv'
<1> USE Placed DEF ReportRunInv, Fails, Go, shared
<1>1. TypeOK'
  BY DEF TypeOK, Steps, Done, Reached, Runs
<1>2. PastOnly'
  BY DEF PastOnly, TypeOK, Reached
<1>3. CooldownsAreTold'
  BY DEF CooldownsAreTold, RepeatsDoNotBlockOthers, TypeOK
<1>4. Undisturbed' => (OneAtATime /\ RunsAreApart /\ RowIsNewest)'
  BY RunEnds
<1> QED
  BY <1>1, <1>2, <1>3, <1>4

(* The row that is stored is younger than the one it replaces. *)
LEMMA InvStore ==
  ASSUME ReportRunInv, NEW c \in Calls, Store(c)
  PROVE  ReportRunInv'
<1> DEFINE r == ReportOf[c]
<1> USE Placed, ReportRunAssumption DEF ReportRunInv, TypeOK, Store, Go
<1>1. TypeOK'
  <2>1. [pulled |-> pulled[c], expires |-> now + CacheTtl] \in StoredRows
    BY DEF StoredRows
  <2>2. row' \in [Reports -> StoredRows]
    <3>1. CASE UNCHANGED row
      BY <3>1
    <3>2. CASE row' = [row EXCEPT ![r] = [pulled |-> pulled[c], expires |-> now + CacheTtl]]
      BY <2>1, <3>2
    <3> QED
      BY <3>1, <3>2
  <2>3. degraded' \in BOOLEAN
    OBVIOUS
  <2> QED
    BY <2>2, <2>3 DEF Steps, Done, Answered, Stamps
<1>2. PastOnly'
  BY DEF PastOnly, Stamps
<1>3. CooldownsAreTold'
  BY DEF CooldownsAreTold, RepeatsDoNotBlockOthers
<1>4. ASSUME Undisturbed' PROVE OneAtATime' /\ RunsAreApart' /\ RowIsNewest'
  <2>1. Undisturbed /\ row' = [row EXCEPT ![r] = [pulled |-> pulled[c], expires |-> now + CacheTtl]]
    BY <1>4 DEF Undisturbed
  <2> USE <2>1
  <2>2. row'[r].pulled = pulled[c] /\ \A q \in Reports \ {r} : row'[q] = row[q]
    OBVIOUS
  <2>3. LastGrant(c) \/ Adrift(r)
    BY DEF OneAtATime, Underway
  <2>4. /\ pulled[c] \in Int /\ pulled[c] <= now /\ row[r].pulled \in Int
        /\ lastRun[r] \in Int /\ now \in Int
    BY DEF PastOnly, StoredRows, Stamps, Never
  <2>5. \/ row[r].pulled <= pulled[c] /\ lastRun[r] # Never /\ pulled[c] <= lastRun[r] + MaxLag
        \/ BeforeForgetting(r, row[r].pulled) /\ lastRun[r] # Never /\ pulled[c] <= lastRun[r] + MaxLag
        \/ \A t \in Int : t <= now => BeforeForgetting(r, t)
    BY <2>3, <2>4, AdriftCovers DEF LastGrant
  <2>6. GrantsAreNoted'
    BY <2>2, <2>4, <2>5 DEF OneAtATime, GrantsAreNoted, BeforeForgetting
  <2>7. ASSUME NEW d \in Calls, Underway(d)' PROVE LastGrant(d)' \/ Adrift(ReportOf[d])'
    <3>1. /\ d # c /\ Underway(d) /\ pc'[d] = pc[d]
          /\ \A e \in Calls : Underway(e)' => Underway(e)
      BY <2>7 DEF Underway
    <3>2. CASE ReportOf[d] = r
      BY <2>3, <3>1, <3>2 DEF LastGrant, Adrift
    <3>3. CASE ReportOf[d] # r
      BY <2>2, <3>1, <3>3, StillLast
    <3> QED
      BY <3>2, <3>3
  <2>8. RunsAreApart'
    BY DEF RunsAreApart, BeforeForgetting
  <2>9. ASSUME NEW d \in Calls, pc'[d] \in Answered
        PROVE  pulled[d] <= row'[ReportOf[d]].pulled \/ BeforeForgetting(ReportOf[d], pulled[d])
    <3>1. pulled[d] \in Int /\ pulled[d] <= now
      BY DEF PastOnly, Stamps, Never
    <3>2. CASE d = c
      BY <2>2, <2>4, <3>2
    <3>3. CASE d # c
      <4>1. pulled[d] <= row[ReportOf[d]].pulled \/ BeforeForgetting(ReportOf[d], pulled[d])
        BY <2>9, <3>3 DEF RowIsNewest
      <4> QED
        BY <2>2, <2>4, <2>5, <3>1, <4>1, ReportRunAssumption
           DEF BeforeForgetting, StoredRows, Stamps, Never
    <3> QED
      BY <3>2, <3>3
  <2>10. \A d \in Calls : ~(ended'[c] < begun[d])
    BY DEF PastOnly, Stamps, Never
  <2>11. \A d \in Calls \ {c} : pc[d] \in Answered /\ ReportOf[d] = r =>
           pulled[d] <= pulled[c] \/ BeforeForgetting(r, pulled[d])
    BY <2>2, <2>9
  <2>12. RowIsNewest'
    BY <2>9, <2>10, <2>11 DEF RowIsNewest, BeforeForgetting
  <2> QED
    BY <2>6, <2>7, <2>8, <2>12 DEF OneAtATime
<1> QED
  BY <1>1, <1>2, <1>3, <1>4

-----------------------------------------------------------------------------
LEMMA InvTick ==
  ASSUME ReportRunInv, Tick
  PROVE  ReportRunInv'
<1> USE Placed, ReportRunAssumption DEF ReportRunInv, TypeOK, Tick, shared, history
<1>1. TypeOK'
  OBVIOUS
<1>2. PastOnly'
  <2>1. now' = now + 1 /\ now \in Int
    OBVIOUS
  <2>2. \A r \in Reports :
          lastRun[r] \in Int /\ row[r].pulled \in Int /\ forgotten[r] \in Int
    BY DEF StoredRows, Stamps, Never
  <2>3. \A c \in Calls : pulled[c] \in Int /\ begun[c] \in Int /\ ended[c] \in Int
    BY DEF Stamps, Never
  <2>4. \A x \in runs : x.at \in Int
    BY DEF Runs
  <2> QED
    BY <2>1, <2>2, <2>3, <2>4 DEF PastOnly
<1>3. CooldownsAreTold'
  BY DEF CooldownsAreTold, RepeatsDoNotBlockOthers
<1>4. ASSUME Undisturbed' PROVE OneAtATime' /\ RunsAreApart' /\ RowIsNewest'
  <2>1. Undisturbed
    BY <1>4 DEF Undisturbed
  <2>2. ASSUME NEW c \in Calls, Underway(c) PROVE LastGrant(c)' \/ Adrift(ReportOf[c])'
    <3>1. lag' = lag + 1
      BY <2>2 DEF AtRest, Underway, Done, Answered
    <3>2. CASE LastGrant(c)
      BY <3>1, <3>2 DEF LastGrant, Underway, BeforeForgetting, Stamps, Never
    <3>3. CASE Adrift(ReportOf[c])
      BY <3>1, <3>3 DEF Adrift, Stamps, Never
    <3> QED
      BY <2>1, <2>2, <3>2, <3>3 DEF OneAtATime
  <2>3. GrantsAreNoted' /\ RunsAreApart' /\ RowIsNewest'
    BY <2>1 DEF OneAtATime, GrantsAreNoted, RunsAreApart, RowIsNewest, BeforeForgetting
  <2> QED
    BY <2>2, <2>3 DEF OneAtATime, Underway
<1> QED
  BY <1>1, <1>2, <1>3, <1>4

LEMMA ReportRunNext ==
  ASSUME ReportRunInv, [Next]_vars PROVE ReportRunInv'
<1>1. CASE UNCHANGED vars
  BY <1>1 DEF vars, ReportRunInv, TypeOK, PastOnly, Undisturbed, OneAtATime, GrantsAreNoted,
     LastGrant, Underway, RunsAreApart, RowIsNewest, CooldownsAreTold, RepeatsDoNotBlockOthers,
     Adrift, BeforeForgetting
<1>2. ASSUME NEW c \in Calls, Step(c) PROVE ReportRunInv'
  BY <1>2, InvHoldOff, InvLookUp, InvHit, InvGranted, InvDenied, InvRepeated, InvPull, InvThrottled,
     InvFails, InvStore DEF Step
<1> QED
  BY <1>1, <1>2, InvTick DEF Next

(* Every reachable state: while D1 and the limiter answer and no call       *)
(* outlasts the window, the call under way for a report is the one granted  *)
(* last, and the row of the report is as young as any answer given, but for *)
(* what the ledger's ceiling has made it forget.                           *)
THEOREM ReportRunCorrect == Spec => []ReportRunInv
<1>1. Init => ReportRunInv
  BY ReportRunInit
<1>2. ReportRunInv /\ [Next]_vars => ReportRunInv'
  BY ReportRunNext
<1> QED
  BY <1>1, <1>2, PTL DEF Spec

(* Runs of one report reach ServiceTitan a window apart, or the ledger's    *)
(* ceiling has forgotten the first: for any number of calls, isolates and   *)
(* reports and any ceiling, as long as D1 and the limiter answer.          *)
THEOREM RunsAreSpaced == Spec => []SameReportOncePerWindow
<1>1. ReportRunInv => SameReportOncePerWindow
  <2> SUFFICES ASSUME ReportRunInv, ~degraded,
                      NEW x \in runs, NEW y \in runs,
                      x.call # y.call, x.report = y.report, x.at <= y.at
               PROVE  \/ y.at - x.at >= IdentityWindow - MaxLag
                      \/ BeforeForgetting(x.report, x.at)
    BY DEF SameReportOncePerWindow
  <2>1. x.at \in Nat /\ y.at \in Nat
    BY DEF ReportRunInv, TypeOK, Runs
  <2>2. CASE MaxLag < IdentityWindow
    BY <2>1, <2>2, ReportRunAssumption DEF ReportRunInv, Undisturbed, RunsAreApart
  <2>3. CASE ~(MaxLag < IdentityWindow)
    BY <2>1, <2>3, ReportRunAssumption
  <2> QED
    BY <2>2, <2>3
<1> QED
  BY <1>1, ReportRunCorrect, PTL

(* Who asks after an answer was given never gets older data of that report, *)
(* unless the ledger's ceiling has forgotten the run behind the answer.    *)
THEOREM DataNeverGoesBack == Spec => []AnswersNeverGoBack
<1>1. ReportRunInv => AnswersNeverGoBack
  BY DEF ReportRunInv, Undisturbed, RowIsNewest, AnswersNeverGoBack
<1> QED
  BY <1>1, ReportRunCorrect, PTL

(* A call is only held off after its isolate was told of throttling that    *)
(* still lasts; a same-report rejection holds nobody off.                  *)
THEOREM OnlyThrottlingBlocks == Spec => []RepeatsDoNotBlockOthers
<1>1. ReportRunInv => RepeatsDoNotBlockOthers
  BY DEF ReportRunInv, CooldownsAreTold
<1> QED
  BY <1>1, ReportRunCorrect, PTL
=============================================================================
