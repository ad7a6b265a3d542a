------------------------- MODULE SingleflightProofs -------------------------
(***************************************************************************)
(* What several workers may do to the same rows at once: the fan-outs of   *)
(* CustomerSnapshot under their lock, and the drains of EmbedDrain under   *)
(* the cron's note.                                                        *)
(***************************************************************************)
EXTENDS CustomerSnapshot, EmbedDrain, FiniteSetTheorems, TLAPS

-----------------------------------------------------------------------------
(* CustomerSnapshot: who may hold the lock at the same time, and how old a *)
(* row may be that is served.                                              *)

Steps == Unfinished \cup {"idle", "answered", "stopped"}
Stamps == Nat \cup {Never}

TypeOK ==
  /\ now \in Nat
  /\ lock \in Stamps
  /\ row \in [readAt : Int, expiresAt : Int]
  /\ pc \in [Calls -> Steps]
  /\ since \in [Calls -> Nat]
  /\ holder \subseteq Calls /\ IsFiniteSet(holder)
  /\ releasing \subseteq Calls
  /\ evictions \in Nat

\* A holder fans out, writes, or waits for its release to arrive; it is never
\* later than its timers allow, and its lock cannot have gone stale.
HoldersArePunctual ==
  /\ \A c \in Calls : pc[c] = "writing" => c \in holder
  /\ \A c \in releasing : c \in holder /\ pc[c] = "answered"
  /\ \A c \in holder :
       \/ pc[c] = "fanning" /\ now <= since[c] + FanoutTimeout
       \/ /\ pc[c] = "writing" \/ c \in releasing
          /\ now <= since[c] + FanoutTimeout + MaxLag

\* Some holder has been there since the lock was taken, or before.
Owned == lock # Never /\ \E c \in holder : since[c] <= lock

\* Beyond one holder for each eviction there is at most the owner's.
LockIsOwned == Cardinality(holder) <= evictions + (IF Owned THEN 1 ELSE 0)

RowIsDated == row.expiresAt <= row.readAt + SnapshotTtl + FanoutTimeout + MaxLag

SnapshotInv == TypeOK /\ HoldersArePunctual /\ LockIsOwned /\ RowIsDated

-----------------------------------------------------------------------------
LEMMA SnapshotInit ==
  ASSUME Init PROVE SnapshotInv
<1>1. TypeOK
  BY FS_EmptySet DEF Init, TypeOK, Steps, Stamps, NoRow, Never
<1>2. HoldersArePunctual
  BY DEF Init, HoldersArePunctual
<1>3. LockIsOwned
  BY FS_EmptySet DEF Init, LockIsOwned, Owned, Never
<1>4. RowIsDated
  BY SnapshotAssumption DEF Init, RowIsDated, NoRow, Never
<1> QED
  BY <1>1, <1>2, <1>3, <1>4 DEF SnapshotInv

(* A step that changes a call outside the lock: it moves on and dates that  *)
(* move, or it ends.                                                       *)
LEMMA BesideTheLock ==
  ASSUME SnapshotInv, NEW c \in Calls, c \notin holder,
         NEW step \in Steps \ {"writing"}, NEW t \in Nat,
         pc' = [pc EXCEPT ![c] = step], since' = [since EXCEPT ![c] = t],
         UNCHANGED <<now, row, lock, holder, releasing, evictions>>
  PROVE  SnapshotInv'
<1> USE DEF SnapshotInv, TypeOK
<1>1. TypeOK'
  OBVIOUS
<1>2. HoldersArePunctual'
  BY DEF HoldersArePunctual
<1>3. Owned' <=> Owned
  BY DEF Owned
<1>4. LockIsOwned'
  BY <1>3 DEF LockIsOwned
<1>5. RowIsDated'
  BY DEF RowIsDated
<1> QED
  BY <1>1, <1>2, <1>4, <1>5

(* When a holder leaves, what is left is one per eviction: whether the lock *)
(* stays or goes, it counts for nobody any more.                           *)
LEMMA HolderLeaves ==
  ASSUME SnapshotInv, NEW c \in holder
  PROVE  IsFiniteSet(holder \ {c}) /\ Cardinality(holder \ {c}) <= evictions
<1> USE DEF SnapshotInv, TypeOK
<1>1. /\ IsFiniteSet(holder \ {c})
      /\ Cardinality(holder \ {c}) = Cardinality(holder) - 1
  BY FS_RemoveElement
<1>2. Cardinality(holder) \in Nat
  BY FS_CardinalityType
<1>3. Cardinality(holder) <= evictions + 1
  BY <1>2 DEF LockIsOwned
<1> QED
  BY <1>1, <1>2, <1>3

(* A holder leaves, with the lock or without it.                           *)
LEMMA Leaves ==
  ASSUME SnapshotInv, NEW c \in holder, NEW step \in {"answered", "stopped"},
         End(c, step), holder' = holder \ {c}, releasing' \in {releasing, releasing \ {c}},
         c \notin releasing', lock' \in {lock, Never},
         UNCHANGED <<now, row, evictions>>
  PROVE  SnapshotInv'
<1> USE DEF SnapshotInv, TypeOK, End
<1>1. TypeOK'
  BY HolderLeaves DEF Steps, Stamps
<1>2. HoldersArePunctual'
  BY DEF HoldersArePunctual
<1>3. LockIsOwned'
  <2>1. Cardinality(holder') \in Nat /\ Cardinality(holder') <= evictions
    BY HolderLeaves, FS_CardinalityType
  <2> QED
    BY <2>1 DEF LockIsOwned
<1>4. RowIsDated'
  BY DEF RowIsDated
<1> QED
  BY <1>1, <1>2, <1>3, <1>4

-----------------------------------------------------------------------------
(* The steps of a call. *)

LEMMA NotHeldBy ==
  ASSUME SnapshotInv, NEW c \in holder
  PROVE  pc[c] \in {"fanning", "writing", "answered"}
  BY DEF SnapshotInv, HoldersArePunctual

LEMMA InvRead ==
  ASSUME SnapshotInv, NEW c \in Calls, Read(c) \/ Wait(c) \/ Unreachable(c) \/ Poll(c)
  PROVE  SnapshotInv'
<1>1. c \notin holder
  BY NotHeldBy DEF Read, Wait, Unreachable, Poll, At
<1>2. /\ \E step \in {"acquiring", "waiting", "fanning", "answered"}, t \in {now, 0} :
           pc' = [pc EXCEPT ![c] = step] /\ since' = [since EXCEPT ![c] = t]
      /\ UNCHANGED <<now, row, lock, holder, releasing, evictions>>
  BY DEF Read, Wait, Unreachable, Poll, Go, End, lockVars
<1> QED
  BY <1>1, <1>2, BesideTheLock DEF SnapshotInv, TypeOK, Steps, Unfinished

(* The lock that is taken counts for nobody: it was released or lost, or it *)
(* is stale, and then whoever took it is gone.                             *)
LEMMA InvAcquire ==
  ASSUME SnapshotInv, NEW c \in Calls, Acquire(c)
  PROVE  SnapshotInv'
<1> USE DEF SnapshotInv, TypeOK, Acquire, Go, At
<1>1. c \notin holder
  BY NotHeldBy
<1>2. /\ IsFiniteSet(holder \cup {c}) /\ Cardinality(holder \cup {c}) = Cardinality(holder) + 1
      /\ Cardinality(holder) \in Nat
  BY <1>1, FS_AddElement, FS_CardinalityType
<1>3. TypeOK'
  BY <1>2 DEF Steps, Unfinished, Stamps
<1>4. HoldersArePunctual'
  BY <1>1, SnapshotAssumption DEF HoldersArePunctual
<1>5. ~Owned
  <2>1. CASE lock = Never
    BY <2>1 DEF Owned
  <2>2. CASE Stale
    BY <2>2, SnapshotAssumption DEF Owned, Stale, Stamps, HoldersArePunctual
  <2> QED
    BY <2>1, <2>2 DEF Held
<1>6. Owned'
  <2>1. lock' = now /\ since'[c] = now /\ c \in holder'
    OBVIOUS
  <2> QED
    BY <2>1 DEF Owned, Never
<1>7. LockIsOwned'
  BY <1>2, <1>5, <1>6 DEF LockIsOwned
<1>8. RowIsDated'
  BY DEF RowIsDated
<1> QED
  BY <1>3, <1>4, <1>7, <1>8

LEMMA InvSettle ==
  ASSUME SnapshotInv, NEW c \in Calls, Settle(c)
  PROVE  SnapshotInv'
<1> USE DEF Settle, At, lockVars
<1>1. CASE c \notin holder
  BY <1>1, BesideTheLock DEF End, Steps, SnapshotInv, TypeOK
<1>2. CASE c \in holder
  <2> USE <1>2 DEF SnapshotInv, TypeOK
  <2>1. TypeOK'
    BY DEF Steps, Unfinished
  <2>2. HoldersArePunctual'
    BY SnapshotAssumption DEF HoldersArePunctual
  <2>3. LockIsOwned' /\ RowIsDated'
    BY DEF LockIsOwned, Owned, RowIsDated
  <2> QED
    BY <2>1, <2>2, <2>3
<1> QED
  BY <1>1, <1>2

LEMMA InvWrite ==
  ASSUME SnapshotInv, NEW c \in Calls, Write(c)
  PROVE  SnapshotInv'
<1> USE DEF SnapshotInv, TypeOK, Write, At
<1>1. now <= since[c] + FanoutTimeout + MaxLag
  BY DEF HoldersArePunctual
<1>2. TypeOK'
  BY SnapshotAssumption DEF Steps, WrittenRow
<1>3. HoldersArePunctual'
  BY DEF HoldersArePunctual
<1>4. LockIsOwned'
  BY DEF LockIsOwned, Owned
<1>5. RowIsDated'
  BY <1>1, SnapshotAssumption DEF RowIsDated, WrittenRow
<1> QED
  BY <1>2, <1>3, <1>4, <1>5

LEMMA InvRelease ==
  ASSUME SnapshotInv, NEW c \in Calls, Release(c) \/ LoseRelease(c)
  PROVE  SnapshotInv'
<1>1. c \in holder
  BY DEF SnapshotInv, HoldersArePunctual, Release, LoseRelease
<1> QED
  BY <1>1, Leaves DEF Release, LoseRelease

LEMMA InvStop ==
  ASSUME SnapshotInv, NEW c \in Calls, Stop(c)
  PROVE  SnapshotInv'
<1>1. c \notin releasing
  BY DEF SnapshotInv, HoldersArePunctual, Stop, At, Unfinished
<1>2. CASE c \in holder
  BY <1>1, <1>2, Leaves DEF Stop
<1>3. CASE c \notin holder
  BY <1>3, BesideTheLock DEF Stop, End, Steps
<1> QED
  BY <1>2, <1>3

-----------------------------------------------------------------------------
(* The object and the clock. *)

LEMMA InvEvict ==
  ASSUME SnapshotInv, Evict PROVE SnapshotInv'
<1> USE DEF SnapshotInv, TypeOK, Evict
<1>1. TypeOK' /\ HoldersArePunctual' /\ RowIsDated'
  BY DEF Stamps, HoldersArePunctual, RowIsDated
<1>2. LockIsOwned'
  BY FS_CardinalityType DEF LockIsOwned, Owned
<1> QED
  BY <1>1, <1>2

LEMMA InvTick ==
  ASSUME SnapshotInv, Tick PROVE SnapshotInv'
<1> USE DEF SnapshotInv, TypeOK, Tick, lockVars
<1>1. TypeOK' /\ RowIsDated'
  BY DEF RowIsDated
<1>2. HoldersArePunctual'
  BY SnapshotAssumption DEF HoldersArePunctual, Punctual, At
<1>3. LockIsOwned'
  BY DEF LockIsOwned, Owned
<1> QED
  BY <1>1, <1>2, <1>3

LEMMA SnapshotNext ==
  ASSUME SnapshotInv, [Next]_vars PROVE SnapshotInv'
<1>1. CASE UNCHANGED vars
  BY <1>1 DEF vars, SnapshotInv, TypeOK, HoldersArePunctual, LockIsOwned, Owned, RowIsDated
<1>2. ASSUME NEW c \in Calls,
             Read(c) \/ Step(c) \/ Unreachable(c) \/ Stop(c) \/ Release(c) \/ LoseRelease(c)
      PROVE  SnapshotInv'
  BY <1>2, InvRead, InvAcquire, InvSettle, InvWrite, InvRelease, InvStop DEF Step
<1> QED
  BY <1>1, <1>2, InvEvict, InvTick DEF Next

(* Every reachable state: holders are punctual and their lock is not stale; *)
(* beyond one for each eviction there is one at most, the lock's owner.    *)
THEOREM SnapshotCorrect == Spec => []SnapshotInv
<1>1. Init => SnapshotInv
  BY SnapshotInit
<1>2. SnapshotInv /\ [Next]_vars => SnapshotInv'
  BY SnapshotNext
<1> QED
  BY <1>1, <1>2, PTL DEF Spec

(* Singleflight for any number of calls and any times at which the fan-out  *)
(* is over before the lock goes stale: late, lost and foreign releases,     *)
(* stopped holders and stale locks add no second fan-out under the lock.    *)
THEOREM FlightsAreBounded == Spec => []OneFlight
<1>1. SnapshotInv => OneFlight
  <2> SUFFICES ASSUME SnapshotInv PROVE OneFlight
    OBVIOUS
  <2> USE DEF SnapshotInv, TypeOK
  <2>1. Cardinality(holder) <= 1 + evictions
    BY FS_CardinalityType DEF LockIsOwned
  <2>2. {c \in Calls : pc[c] = "writing"} \cup releasing \subseteq holder
    BY DEF HoldersArePunctual
  <2> QED
    BY <2>1, <2>2 DEF OneFlight
<1> QED
  BY <1>1, SnapshotCorrect, PTL

(* A row that is served is no older than its lifetime and the time it took  *)
(* to build, whichever call wrote it.                                      *)
THEOREM RowsAreRecent == Spec => []AnswersAreRecent
<1>1. SnapshotInv => AnswersAreRecent
  BY SnapshotAssumption
     DEF SnapshotInv, TypeOK, RowIsDated, AnswersAreRecent, Fresh
<1> QED
  BY <1>1, SnapshotCorrect, PTL

-----------------------------------------------------------------------------
(* EmbedDrain: whose text a vector is of, and when two drains may be at    *)
(* work.                                                                   *)

Vectors == [row : Rows, text : Int]
Writes == [row : Rows, vector : Vectors]
Statuses == Working \cup {"none", "complete", "errored"}

\* A PATCH that is to be sent, or may still arrive, is of its row and text.
Due(p) == p.row \notin raced => p.vector = VectorOf(p.row)

PatchesAreDue ==
  /\ \A p \in late : Due(p)
  /\ \A d \in Drains : \A p \in todo[d] : Due(p)

\* Whoever is at work is the instance last created.
CronKnows ==
  ~forgotten => \A d \in Drains :
    status[d] \in Working => d = IF kicked # Nobody THEN kicked ELSE noted

\* What the table holds and what is on its way to it.
TableOK ==
  /\ text \in [Rows -> Int]
  /\ vector \in [Rows -> Vectors \cup {NoVector}]
  /\ late \subseteq Writes
  /\ todo \in [Drains -> SUBSET Writes]
  /\ raced \subseteq Rows
  /\ VectorsAreOfTheirText /\ PatchesAreDue

\* Who is at work, and what the cron knows of it.
CronOK ==
  /\ status \in [Drains -> Statuses]
  /\ noted \in Drains \cup {Nobody}
  /\ kicked \in Drains \cup {Nobody}
  /\ forgotten \in BOOLEAN
  /\ CronKnows

EmbedInv == TableOK /\ CronOK

-----------------------------------------------------------------------------
LEMMA EmbedInit ==
  ASSUME DrainInit PROVE EmbedInv
<1>1. TableOK
  BY DEF DrainInit, TableOK, VectorsAreOfTheirText, PatchesAreDue
<1>2. status \in [Drains -> Statuses] /\ \A d \in Drains : status[d] = "none"
  BY DEF DrainInit, Statuses
<1>3. noted = Nobody /\ kicked = Nobody /\ forgotten = FALSE
  BY DEF DrainInit
<1>4. CronOK
  BY <1>2, <1>3 DEF CronOK, CronKnows, Working
<1> QED
  BY <1>1, <1>4 DEF EmbedInv

LEMMA TableStands ==
  ASSUME TableOK, UNCHANGED tableVars, NEW d \in Drains,
         todo' = todo \/ todo' = [todo EXCEPT ![d] = {}]
  PROVE  TableOK'
<1>1. todo' \in [Drains -> SUBSET Writes] /\ \A e \in Drains : todo'[e] \subseteq todo[e]
  BY DEF TableOK
<1> QED
  BY <1>1 DEF TableOK, tableVars, VectorsAreOfTheirText, PatchesAreDue, Due, VectorOf

(* A status that leaves the instance at work, or takes it out of work.      *)
LEMMA CronStands ==
  ASSUME CronOK, UNCHANGED cronVars, NEW d \in Drains, NEW result \in Statuses,
         status' = [status EXCEPT ![d] = result], result \in Working => status[d] \in Working
  PROVE  CronOK'
<1>1. status' \in [Drains -> Statuses]
  BY DEF CronOK
<1>2. \A e \in Drains : status'[e] \in Working => status[e] \in Working
  BY DEF CronOK
<1>3. CronKnows'
  BY <1>2 DEF CronOK, CronKnows, cronVars
<1> QED
  BY <1>1, <1>3 DEF CronOK, cronVars

LEMMA CronUntouched ==
  ASSUME CronOK, UNCHANGED <<cronVars, status>> PROVE CronOK'
  BY DEF CronOK, CronKnows, cronVars

LEMMA TableUntouched ==
  ASSUME TableOK, UNCHANGED <<tableVars, todo>> PROVE TableOK'
  BY DEF TableOK, tableVars, VectorsAreOfTheirText, PatchesAreDue, Due, VectorOf

-----------------------------------------------------------------------------
(* The cron. *)

LEMMA InvKick ==
  ASSUME EmbedInv, NEW d \in Drains, Kick(d) \/ KickBlindly(d)
  PROVE  EmbedInv'
<1>1. TableOK'
  BY TableUntouched DEF EmbedInv, Kick, KickBlindly, batchVars
<1>2. status' \in [Drains -> Statuses] /\ \A e \in Drains \ {d} : status'[e] = status[e]
  BY DEF EmbedInv, CronOK, Kick, KickBlindly, Statuses, Working
<1>3. kicked = Nobody /\ kicked' = d /\ noted' = noted
  BY DEF Kick, KickBlindly, Creates
<1>4. forgotten' \in BOOLEAN /\ (~forgotten' => ~forgotten /\ ~Busy)
  BY DEF EmbedInv, CronOK, Kick, KickBlindly
<1>5. CronKnows'
  BY <1>2, <1>3, <1>4, EmbedAssumption DEF EmbedInv, CronOK, CronKnows, Busy
<1> QED
  BY <1>1, <1>2, <1>3, <1>4, <1>5 DEF EmbedInv, CronOK

LEMMA InvNote ==
  ASSUME EmbedInv, NoteInstance \/ NoteLost
  PROVE  EmbedInv'
<1>1. TableOK'
  BY TableUntouched DEF EmbedInv, NoteInstance, NoteLost, batchVars
<1>2. CronOK'
  BY DEF EmbedInv, CronOK, CronKnows, NoteInstance, NoteLost
<1> QED
  BY <1>1, <1>2 DEF EmbedInv

-----------------------------------------------------------------------------
(* The workflow. *)

(* What the model gives for a batch is due while the texts stand.           *)
LEMMA PairedIsDue ==
  ASSUME EmbedInv, NEW n, NEW batch \in Selections(n), NEW v \in Computed(batch)
  PROVE  /\ Paired(batch, v) \subseteq Writes
         /\ \A p \in Paired(batch, v) : p.vector = VectorOf(p.row)
<1>1. \A r \in batch : r \in Rows /\ VectorOf(r) \in Vectors
  BY DEF EmbedInv, TableOK, Selections, Null, VectorOf, Vectors
<1>2. \A r \in batch : v[r] # NoVector => v[r] = VectorOf(r)
  BY DEF Computed
<1> QED
  BY <1>1, <1>2 DEF Paired, Writes

LEMMA InvSelectAndEmbed ==
  ASSUME EmbedInv, NEW d \in Drains, SelectAndEmbed(d)
  PROVE  EmbedInv'
<1>1. CASE Null = {}
  <2>1. TableOK'
    BY <1>1, TableStands DEF EmbedInv, SelectAndEmbed, Finish, Forgets
  <2>2. CronOK'
    BY <1>1, CronStands DEF EmbedInv, SelectAndEmbed, Finish, Forgets, Statuses, Working
  <2> QED
    BY <2>1, <2>2 DEF EmbedInv
<1>2. CASE Null # {}
  <2>1. CronOK'
    BY <1>2, CronUntouched DEF EmbedInv, SelectAndEmbed
  <2>2. PICK batch \in Selections(Fewer(Limit(d), Cardinality(Null))) :
          \E v \in Computed(batch) : todo' = [todo EXCEPT ![d] = Paired(batch, v)]
    BY <1>2 DEF SelectAndEmbed
  <2>3. PICK v \in Computed(batch) : todo' = [todo EXCEPT ![d] = Paired(batch, v)]
    BY <2>2
  <2>4. /\ Paired(batch, v) \subseteq Writes
        /\ \A p \in Paired(batch, v) : p.vector = VectorOf(p.row)
    BY PairedIsDue
  <2>5. UNCHANGED tableVars
    BY DEF SelectAndEmbed
  <2>6. /\ todo' \in [Drains -> SUBSET Writes] /\ todo'[d] = Paired(batch, v)
        /\ \A e \in Drains \ {d} : todo'[e] = todo[e]
    BY <2>3, <2>4 DEF EmbedInv, TableOK
  <2>7. \A e \in Drains : \A p \in todo'[e] : Due(p)
    BY <2>4, <2>6 DEF EmbedInv, TableOK, PatchesAreDue, Due
  <2>8. TableOK'
    BY <2>5, <2>6, <2>7
       DEF EmbedInv, TableOK, tableVars, VectorsAreOfTheirText, PatchesAreDue, Due, VectorOf
  <2> QED
    BY <2>1, <2>8 DEF EmbedInv
<1> QED
  BY <1>1, <1>2

(* A PATCH that is due may be written, and may arrive late. *)
LEMMA PatchWritten ==
  ASSUME TableOK, NEW p \in Writes, Due(p), UNCHANGED <<text, raced>>,
         vector' = [vector EXCEPT ![p.row] = p.vector] \/ vector' = vector,
         late' \subseteq late \cup {p},
         todo' \in [Drains -> SUBSET Writes], \A e \in Drains : todo'[e] \subseteq todo[e]
  PROVE  TableOK'
<1> USE DEF TableOK
<1>1. vector' \in [Rows -> Vectors \cup {NoVector}]
  BY DEF Writes
<1>2. VectorsAreOfTheirText'
  BY DEF VectorsAreOfTheirText, Due, VectorOf, Writes
<1>3. PatchesAreDue'
  BY DEF PatchesAreDue, Due, VectorOf
<1> QED
  BY <1>1, <1>2, <1>3

LEMMA InvWriteEmbedding ==
  ASSUME EmbedInv, NEW d \in Drains, sbWriteEmbedding(d)
  PROVE  EmbedInv'
<1>1. PICK p \in todo[d] : /\ vector' = [vector EXCEPT ![p.row] = p.vector]
                           /\ MayArriveLate(p)
                           /\ todo' = [todo EXCEPT ![d] = @ \ {p}]
  BY DEF sbWriteEmbedding
<1>2. p \in Writes /\ Due(p)
  BY DEF EmbedInv, TableOK, PatchesAreDue
<1>3. todo' \in [Drains -> SUBSET Writes] /\ \A e \in Drains : todo'[e] \subseteq todo[e]
  BY <1>1 DEF EmbedInv, TableOK
<1>4. late' \subseteq late \cup {p} /\ UNCHANGED <<text, raced, cronVars, status>>
  BY <1>1 DEF MayArriveLate, sbWriteEmbedding
<1>5. TableOK'
  BY <1>1, <1>2, <1>3, <1>4, PatchWritten DEF EmbedInv
<1> QED
  BY <1>4, <1>5, CronUntouched DEF EmbedInv

LEMMA InvBatchEnds ==
  ASSUME EmbedInv, NEW d \in Drains, BatchEnds(d)
  PROVE  EmbedInv'
<1>1. TableOK'
  BY TableStands DEF EmbedInv, BatchEnds, Finish, Forgets, Again
<1>2. CASE Finish(d)
  BY <1>1, <1>2, CronStands DEF EmbedInv, BatchEnds, Finish, Forgets, Statuses, Working
<1>3. CASE Again(d)
  BY <1>1, <1>3, CronUntouched DEF EmbedInv, BatchEnds, Again
<1> QED
  BY <1>2, <1>3 DEF BatchEnds

LEMMA InvThrows ==
  ASSUME EmbedInv, NEW d \in Drains, Throws(d)
  PROVE  EmbedInv'
<1>1. CronOK'
  BY CronStands DEF EmbedInv, Throws, StepFails, Forgets, Statuses, Working
<1>2. todo' = [todo EXCEPT ![d] = {}]
  BY DEF Throws, StepFails, Forgets
<1>3. CASE UNCHANGED tableVars
  BY <1>1, <1>2, <1>3, TableStands DEF EmbedInv
<1>4. CASE ~UNCHANGED tableVars
  <2>1. PICK p \in todo[d] : MayArriveLate(p) /\ UNCHANGED <<text, vector, raced>>
    BY <1>4 DEF Throws
  <2>2. p \in Writes /\ Due(p)
    BY DEF EmbedInv, TableOK, PatchesAreDue
  <2>3. todo' \in [Drains -> SUBSET Writes] /\ \A e \in Drains : todo'[e] \subseteq todo[e]
    BY <1>2 DEF EmbedInv, TableOK
  <2>4. late' \subseteq late \cup {p}
    BY <2>1 DEF MayArriveLate
  <2> QED
    BY <1>1, <2>1, <2>2, <2>3, <2>4, PatchWritten DEF EmbedInv
<1> QED
  BY <1>3, <1>4

LEMMA InvResume ==
  ASSUME EmbedInv, NEW d \in Drains, Resume(d)
  PROVE  EmbedInv'
<1>1. TableOK'
  BY TableUntouched DEF EmbedInv, Resume, batchVars
<1>2. CronOK'
  BY CronStands DEF EmbedInv, Resume, Statuses, Working
<1> QED
  BY <1>1, <1>2 DEF EmbedInv

-----------------------------------------------------------------------------
(* The rest of the world. *)

LEMMA InvPatchArrives ==
  ASSUME EmbedInv, PatchArrives
  PROVE  EmbedInv'
<1>1. PICK p \in late : vector' = [vector EXCEPT ![p.row] = p.vector] /\ late' = late \ {p}
  BY DEF PatchArrives
<1>2. p \in Writes /\ Due(p)
  BY DEF EmbedInv, TableOK, PatchesAreDue
<1>3. TableOK'
  BY <1>1, <1>2, PatchWritten DEF EmbedInv, PatchArrives, batchVars, TableOK
<1> QED
  BY <1>3, CronUntouched DEF EmbedInv, PatchArrives

(* A text changes under a PATCH only where the row is noted as raced.       *)
LEMMA InvChangeText ==
  ASSUME EmbedInv, NEW r \in Edited, ChangeText(r)
  PROVE  EmbedInv'
<1> USE EmbedAssumption
<1>0. /\ text' = [text EXCEPT ![r] = @ + 1] /\ vector' = [vector EXCEPT ![r] = NoVector]
      /\ raced' = (IF InHand(r) THEN raced \cup {r} ELSE raced)
      /\ late' = late /\ todo' = todo /\ UNCHANGED <<cronVars, status>>
  BY DEF ChangeText, batchVars
<1>1. /\ text' \in [Rows -> Int] /\ vector' \in [Rows -> Vectors \cup {NoVector}]
      /\ raced' \subseteq Rows /\ raced \subseteq raced'
  BY <1>0 DEF EmbedInv, TableOK
<1>2. \A q \in Rows \ {r} : text'[q] = text[q] /\ vector'[q] = vector[q]
  BY <1>0 DEF EmbedInv, TableOK
<1>3. vector'[r] = NoVector
  BY <1>0 DEF EmbedInv, TableOK
<1>4. VectorsAreOfTheirText'
  BY <1>1, <1>2, <1>3 DEF EmbedInv, TableOK, VectorsAreOfTheirText
<1>5. ASSUME NEW p \in Writes, Due(p), p.row = r => InHand(r) PROVE Due(p)'
  <2>1. CASE p.row = r
    BY <1>0, <1>5, <2>1 DEF Due
  <2>2. CASE p.row # r
    BY <1>1, <1>2, <1>5, <2>2 DEF Due, VectorOf, Writes
  <2> QED
    BY <2>1, <2>2
<1>6. PatchesAreDue'
  BY <1>0, <1>5 DEF EmbedInv, TableOK, PatchesAreDue, InHand
<1>7. TableOK'
  BY <1>0, <1>1, <1>4, <1>6 DEF EmbedInv, TableOK
<1> QED
  BY <1>0, <1>7, CronUntouched DEF EmbedInv

LEMMA EmbedNext ==
  ASSUME EmbedInv, [DrainNext]_drainVars PROVE EmbedInv'
<1>1. CASE UNCHANGED drainVars
  BY <1>1, TableUntouched, CronUntouched DEF EmbedInv, drainVars, batchVars
<1>2. ASSUME NEW d \in Drains, Work(d) PROVE EmbedInv'
  BY <1>2, InvSelectAndEmbed, InvWriteEmbedding, InvBatchEnds, InvThrows, InvResume DEF Work
<1> QED
  BY <1>1, <1>2, InvKick, InvNote, InvPatchArrives, InvChangeText DEF DrainNext, Rest

(* Every reachable state: a PATCH under way is of its row and text, unless  *)
(* the text changed under it; the cron knows who is at work, unless it lost *)
(* track.                                                                  *)
THEOREM EmbedCorrect == DrainSpec => []EmbedInv
<1>1. DrainInit => EmbedInv
  BY EmbedInit
<1>2. EmbedInv /\ [DrainNext]_drainVars => EmbedInv'
  BY EmbedNext
<1> QED
  BY <1>1, <1>2, PTL DEF DrainSpec

(* For any number of rows, instances, retries and late PATCHes: only a row  *)
(* whose text changed under a drain or a late PATCH may keep a vector that  *)
(* is not of its own present text.                                         *)
THEOREM VectorsMatch == DrainSpec => []VectorsAreOfTheirText
<1>1. EmbedInv => VectorsAreOfTheirText
  BY DEF EmbedInv, TableOK
<1> QED
  BY <1>1, EmbedCorrect, PTL

(* Two instances are only at work together after the cron lost track.       *)
THEOREM DrainsAreAlone == DrainSpec => []OneDrainUnlessForgotten
<1>1. EmbedInv => OneDrainUnlessForgotten
  BY DEF EmbedInv, CronOK, CronKnows, OneDrainUnlessForgotten
<1> QED
  BY <1>1, EmbedCorrect, PTL
=============================================================================
