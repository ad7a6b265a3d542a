-------------------------- MODULE RateLimitProofs --------------------------
(***************************************************************************)
(* What StRateLimiter and RateLimitGuard keep for every number of families, *)
(* reports and callers, every cap, window and clock: the object's types,   *)
(* the bounds on bursts, the spacing of reports and what a 429 halves; and *)
(* when its callers are not refused.                                       *)
(***************************************************************************)
EXTENDS RateLimitGuard, FiniteSetTheorems, TLAPS

Ids == Identities \cup {NoIdentity}

-----------------------------------------------------------------------------
(* The helpers of check() keep the types of the ledger.                    *)

\* The window a check works with exists, and its count is the old one or 0.
LEMMA AggAtCheckType ==
  ASSUME TypeOK
  PROVE  /\ AggAtCheck \in Windows
         /\ AggAtCheck.count = 0 \/ AggAtCheck = ledger.agg
BY DEF AggAtCheck, RollWindow, FreshWindow, TypeOK, Ledgers, Windows

\* Looking a family up and rolling its window yields a window that exists.
LEMMA FamAtCheckType ==
  ASSUME TypeOK, NEW f \in Families
  PROVE  /\ FamAtCheck(f) \in Windows
         /\ FamAtCheck(f).count = 0 \/ FamAtCheck(f) = ledger.fam[f].window
         /\ GetFamily(ledger.fam[f], now) \in [window : Windows, halvedUntil : Nat]
BY DEF FamAtCheck, GetFamily, RollWindow, FreshWindow, TypeOK, Ledgers,
       FamilyStates, FamilyWindows, Windows, Never

\* Pruning only forgets.
LEMMA IdsAtCheckType ==
  ASSUME TypeOK, NEW i \in Ids, NEW ids \in IdsAtCheck(i)
  PROVE  /\ ids \in [Identities -> Nat \cup {Never}]
         /\ \A k \in Identities : ids[k] # Never => ids[k] = ledger.ids[k]
BY DEF IdsAtCheck, PruneIdentities, TypeOK, Ledgers, Never

\* The halved cap lies between one and the full cap.
LEMMA HalvedCapRange == HalvedCap \in 1..FamilyCap
BY ConstantsAssumption DEF HalvedCap
-----------------------------------------------------------------------------
(* Types.                                                                  *)

\* The type of a ledger that the handler builds.
LEMMA NewLedgerType ==
  ASSUME NEW t \in Nat
  PROVE  NewLedger(t) \in Ledgers
BY DEF NewLedger, FreshWindow, Ledgers, FamilyStates, FamilyWindows, Windows, Never

\* Each of the four outcomes of check() keeps the types.
LEMMA CheckType ==
  ASSUME TypeOK, NEW f \in Families, NEW i \in Ids, Check(f, i)
  PROVE  TypeOK'
<1>1. CASE DenySameReport(f, i)
  <2>1. PICK ids \in IdsAtCheck(i) :
          /\ SeenRecently(ids, i, now)
          /\ Answer(Denial("same_report_within_window", ids[i] + IdentityWindow - now))
          /\ ledger' = [agg |-> ledger.agg, fam |-> ledger.fam, ids |-> ids]
    BY <1>1 DEF DenySameReport
  <2>2. ledger' \in Ledgers
    BY <2>1, IdsAtCheckType DEF TypeOK, Ledgers
  <2>3. ids[i] + IdentityWindow - now \in Nat
    BY <2>1, IdsAtCheckType, ConstantsAssumption DEF SeenRecently, TypeOK, Never, Ids
  <2> QED
    BY <2>1, <2>2, <2>3 DEF TypeOK, Answer, Denial, NoReply, Verdicts
<1>2. CASE DenyAggregate(f, i)
  <2>1. PICK ids \in IdsAtCheck(i) :
          /\ Answer(Denial("aggregate", Remaining(AggAtCheck)))
          /\ ledger' = [agg |-> AggAtCheck, fam |-> ledger.fam, ids |-> ids]
    BY <1>2 DEF DenyAggregate
  <2>2. ledger' \in Ledgers
    BY <2>1, IdsAtCheckType, AggAtCheckType DEF TypeOK, Ledgers
  <2>3. Remaining(AggAtCheck) \in Nat
    BY AggAtCheckType, ConstantsAssumption DEF Remaining, AtLeast1, TypeOK, Windows
  <2> QED
    BY <2>1, <2>2, <2>3 DEF TypeOK, Answer, Denial, NoReply, Verdicts
<1>3. CASE DenyFamily(f, i)
  <2>1. PICK ids \in IdsAtCheck(i) :
          /\ Answer(Denial("family", Remaining(FamAtCheck(f))))
          /\ ledger' =
               [ agg |-> AggAtCheck,
                 fam |-> [ledger.fam EXCEPT ![f] = WithFamilyWindow(@, FamAtCheck(f))],
                 ids |-> ids ]
    BY <1>3 DEF DenyFamily
  <2>2. ledger' \in Ledgers
    BY <2>1, IdsAtCheckType, AggAtCheckType, FamAtCheckType
       DEF TypeOK, Ledgers, WithFamilyWindow, FamilyStates, FamilyWindows, Windows
  <2>3. Remaining(FamAtCheck(f)) \in Nat
    BY FamAtCheckType, ConstantsAssumption DEF Remaining, AtLeast1, TypeOK, Windows
  <2> QED
    BY <2>1, <2>2, <2>3 DEF TypeOK, Answer, Denial, NoReply, Verdicts
<1>4. CASE Grant(f, i)
  <2>1. PICK ids \in IdsAtCheck(i) :
          /\ Answer([NoReply EXCEPT !.verdict = "allowed",
                                    !.grants = {GrantRecord(f, i, AggAtCheck, FamAtCheck(f))}])
          /\ ledger' = Charged(f, i, ids)
    BY <1>4 DEF Grant
  <2>2. ledger' \in Ledgers
    BY <2>1, IdsAtCheckType, AggAtCheckType, FamAtCheckType
       DEF TypeOK, Ledgers, WithFamilyWindow, FamilyStates, FamilyWindows, Windows,
           Charged, OneMore
  <2>3. GrantRecord(f, i, AggAtCheck, FamAtCheck(f)) \in GrantRecords
    BY AggAtCheckType, FamAtCheckType DEF GrantRecord, GrantRecords, TypeOK, Windows, Ids
  <2> QED
    BY <2>1, <2>2, <2>3 DEF TypeOK, Answer, NoReply, Verdicts
<1> QED
  BY <1>1, <1>2, <1>3, <1>4 DEF Check

\* Reporting a 429 keeps the types.
LEMMA ApplyBackoffType ==
  ASSUME TypeOK, NEW f \in Families, NEW r \in RetryAfters, ApplyBackoff(f, r)
  PROVE  TypeOK'
<1>1. PenaltyEnd(r) \in Nat
  BY ConstantsAssumption DEF PenaltyEnd, Later, TypeOK
<1>2. Penalised(GetFamily(ledger.fam[f], now), r) \in FamilyStates
  BY <1>1, FamAtCheckType
     DEF Penalised, Later, FamilyStates, FamilyWindows, Windows
<1>3. ledger' \in Ledgers
  BY <1>2 DEF ApplyBackoff, TypeOK, Ledgers
<1> QED
  BY <1>1, <1>3 DEF ApplyBackoff, Answer, NoReply, TypeOK, Verdicts, PenaltyRecords

\* Runs carry a report and a time.
LEMMA RunsOfType ==
  ASSUME TypeOK
  PROVE  RunsOf(reply.grants) \subseteq RunRecords /\ RunsOf(grants) \subseteq RunRecords
BY DEF RunsOf, TypeOK, GrantRecords, RunRecords

\* Every variable has its type in every reachable state.
THEOREM TypeCorrect == Spec => []TypeOK
<1>1. Init => TypeOK
  <2>1. NewLedger(0) \in Ledgers
    BY NewLedgerType
  <2>2. Init => everStored \in BOOLEAN
    BY DEF Init
  <2>3. Init => stage \in {"idle", "unsaved", "saved"} /\ reply.verdict \in Verdicts
    BY DEF Init, NoReply, Verdicts
  <2>4. Init => reply.retryAfterMs \in Nat /\ reply.grants = {} /\ reply.penalties = {}
    BY DEF Init, NoReply
  <2> QED
    BY <2>1, <2>2, <2>3, <2>4 DEF Init, TypeOK
<1>2. TypeOK /\ [Next]_vars => TypeOK'
  <2> SUFFICES ASSUME TypeOK, [Next]_vars
               PROVE  TypeOK'
    OBVIOUS
  <2>1. ASSUME NEW f \in Families, NEW i \in Ids, Check(f, i)
        PROVE  TypeOK'
    BY <2>1, CheckType
  <2>2. ASSUME NEW f \in Families, NEW r \in RetryAfters, ApplyBackoff(f, r)
        PROVE  TypeOK'
    BY <2>2, ApplyBackoffType
  <2>3. CASE PersistState
    BY <2>3, RunsOfType DEF PersistState, TypeOK
  <2>4. CASE Reply
    BY <2>4 DEF Reply, TypeOK, NoReply, Verdicts
  <2>5. CASE Evict
    BY <2>5, NewLedgerType DEF Evict, TypeOK, NoReply, Verdicts
  <2>6. CASE Tick
    BY <2>6 DEF Tick, TypeOK
  <2>7. CASE UNCHANGED vars
    BY <2>7 DEF vars, TypeOK
  <2> QED
    BY <2>1, <2>2, <2>3, <2>4, <2>5, <2>6, <2>7 DEF Next, Ids
<1> QED
  BY <1>1, <1>2, PTL DEF Spec
-----------------------------------------------------------------------------
(* Accounting: every call a caller was told of holds a slot of its own.    *)

\* A window that accounts for a call still does once it has been rolled.
LEMMA RollAccounts ==
  ASSUME NEW w \in FamilyWindows, NEW t \in Nat, NEW win \in Nat, NEW slot \in Nat,
         Accounted(w, win, slot)
  PROVE  Accounted(RollWindow(w, t), win, slot)
BY ConstantsAssumption
   DEF Accounted, RollWindow, FreshWindow, FamilyWindows, Never

\* At a check the rolled aggregate window is current, within its cap, and
\* accounts for every call told of.
LEMMA AggAtCheckAccounts ==
  ASSUME TypeOK, AccountingInv
  PROVE  /\ AggAtCheck.count <= AggregateCap
         /\ AggAtCheck.start <= now
         /\ now < AggAtCheck.start + Window
         /\ \A g \in grants : Accounted(AggAtCheck, g.win, g.slot)
<1>1. AggAtCheck.count <= AggregateCap /\ AggAtCheck.start <= now
  BY ConstantsAssumption
     DEF AggAtCheck, RollWindow, FreshWindow, AccountingInv, WithinBudget, TypeOK
<1>2. now < AggAtCheck.start + Window
  BY ConstantsAssumption
     DEF AggAtCheck, RollWindow, FreshWindow, TypeOK, Ledgers, Windows
<1>3. ASSUME NEW g \in grants PROVE Accounted(AggAtCheck, g.win, g.slot)
  <2>1. ledger.agg \in FamilyWindows /\ g.win \in Nat /\ g.slot \in Nat /\ now \in Nat
    BY DEF TypeOK, Ledgers, Windows, FamilyWindows, GrantRecords
  <2>2. Accounted(ledger.agg, g.win, g.slot)
    BY DEF AccountingInv, LedgerAccounts
  <2> QED
    BY <2>1, <2>2, RollAccounts DEF AggAtCheck
<1> QED
  BY <1>1, <1>2, <1>3

\* The same of the window of the family that is asked for.
LEMMA FamAtCheckAccounts ==
  ASSUME TypeOK, AccountingInv, NEW f \in Families
  PROVE  /\ FamAtCheck(f).count <= FamilyCap
         /\ FamAtCheck(f).start <= now
         /\ now < FamAtCheck(f).start + Window
         /\ \A g \in grants : g.fam = f => Accounted(FamAtCheck(f), g.fwin, g.fslot)
<1> DEFINE w == GetFamily(ledger.fam[f], now).window
<1>1. ledger.fam[f].window \in FamilyWindows /\ now \in Nat
  BY DEF TypeOK, Ledgers, FamilyStates
<1>2. w \in Windows /\ w.count <= FamilyCap /\ w.start <= now
  BY <1>1, ConstantsAssumption
     DEF GetFamily, FreshWindow, AccountingInv, WithinBudget, Windows, FamilyWindows
<1>3. FamAtCheck(f).count <= FamilyCap /\ FamAtCheck(f).start <= now
  BY <1>2, <1>1, ConstantsAssumption DEF FamAtCheck, RollWindow, FreshWindow, Windows
<1>4. now < FamAtCheck(f).start + Window
  BY <1>2, <1>1, ConstantsAssumption DEF FamAtCheck, RollWindow, FreshWindow, Windows
<1>5. ASSUME NEW g \in grants, g.fam = f PROVE Accounted(FamAtCheck(f), g.fwin, g.fslot)
  <2>1. g.fwin \in Nat /\ g.fslot \in Nat
    BY DEF TypeOK, GrantRecords
  <2>2. Accounted(ledger.fam[f].window, g.fwin, g.fslot)
    BY <1>5 DEF AccountingInv, LedgerAccounts
  <2>3. w = ledger.fam[f].window
    BY <1>1, <2>1, <2>2, ConstantsAssumption
       DEF Accounted, GetFamily, FamilyWindows, Never
  <2> QED
    BY <1>1, <2>1, <2>2, <2>3, RollAccounts DEF FamAtCheck
<1> QED
  BY <1>3, <1>4, <1>5

\* A call in the slot after those a window has given out is apart from every
\* call the window accounts for, and the window charged for it accounts for both.
LEMMA NextSlotApart ==
  ASSUME NEW w \in Windows, NEW win \in Nat, NEW slot \in Nat, Accounted(w, win, slot)
  PROVE  /\ Apart(w.start, w.count + 1, win, slot)
         /\ Accounted(OneMore(w), win, slot)
BY ConstantsAssumption DEF Accounted, Apart, OneMore, Windows

LEMMA NextSlotAccounted ==
  ASSUME NEW w \in Windows
  PROVE  Accounted(OneMore(w), w.start, w.count + 1)
BY DEF Accounted, OneMore, Windows
\* The parts of the invariant that a new answer without a call must restore:
\* the new ledger is within budget and accounts for the calls told of.
LEMMA AnswerWithoutGrant ==
  ASSUME TypeOK, AccountingInv, NEW r, Answer(r), r.grants = {},
         WithinBudget(ledger)', LedgerAccounts(ledger', grants)
  PROVE  AccountingInv'
<1>1. /\ stage = "idle" /\ stage' = "unsaved" /\ reply' = r
      /\ now' = now /\ stored' = stored /\ everStored' = everStored /\ grants' = grants
  BY DEF Answer
<1>2. grants \cup r.grants = grants /\ reply.grants = {}
  BY <1>1 DEF AccountingInv, NoReply
<1>3. WithinBudget(stored)'
  BY <1>1 DEF AccountingInv, WithinBudget
<1>4. \A g \in (grants \cup reply.grants)' : WellPlaced(g)'
  BY <1>1, <1>2 DEF AccountingInv, WellPlaced
<1>5. LedgerAccounts(ledger, grants \cup reply.grants)'
  BY <1>1, <1>2 DEF LedgerAccounts
<1>6. everStored' => LedgerAccounts(stored, grants)'
  BY <1>1 DEF AccountingInv, LedgerAccounts
<1>7. \A g, h \in grants' : g # h => Separate(g, h)
  BY <1>1 DEF AccountingInv
<1> QED
  BY <1>1, <1>2, <1>3, <1>4, <1>5, <1>6, <1>7 DEF AccountingInv

\* The three denials: windows may be rolled, nothing is charged.
LEMMA DenyAccounting ==
  ASSUME TypeOK, AccountingInv, NEW f \in Families, NEW i \in Ids,
         DenySameReport(f, i) \/ DenyAggregate(f, i) \/ DenyFamily(f, i)
  PROVE  AccountingInv'
<1>1. PICK r, ids :
        /\ Answer(r) /\ r.grants = {}
        /\ \/ ledger' = [agg |-> ledger.agg, fam |-> ledger.fam, ids |-> ids]
           \/ ledger' = [agg |-> AggAtCheck, fam |-> ledger.fam, ids |-> ids]
           \/ ledger' =
                [ agg |-> AggAtCheck,
                  fam |-> [ledger.fam EXCEPT ![f] = WithFamilyWindow(@, FamAtCheck(f))],
                  ids |-> ids ]
  BY DEF DenySameReport, DenyAggregate, DenyFamily, Denial, NoReply
<1>2. now' = now
  BY <1>1 DEF Answer
<1>3. ledger'.agg \in {ledger.agg, AggAtCheck}
  BY <1>1
<1>4. \A k \in Families :
        \/ ledger'.fam[k].window = ledger.fam[k].window
        \/ k = f /\ ledger'.fam[k].window = FamAtCheck(f)
  BY <1>1 DEF TypeOK, Ledgers, WithFamilyWindow
<1>5. WithinBudget(ledger)'
  BY <1>2, <1>3, <1>4, AggAtCheckAccounts, FamAtCheckAccounts
     DEF WithinBudget, AccountingInv
<1>6. LedgerAccounts(ledger', grants)
  BY <1>3, <1>4, AggAtCheckAccounts, FamAtCheckAccounts
     DEF LedgerAccounts, AccountingInv, TypeOK, GrantRecords
<1> QED
  BY <1>1, <1>5, <1>6, AnswerWithoutGrant

\* A backoff touches no window that exists.
LEMMA BackoffAccounting ==
  ASSUME TypeOK, AccountingInv, NEW f \in Families, NEW r \in RetryAfters,
         ApplyBackoff(f, r)
  PROVE  AccountingInv'
<1> DEFINE a == [NoReply EXCEPT !.verdict = "ok",
                   !.penalties = {[fam |-> f, from |-> now, until |-> PenaltyEnd(r)]}]
<1>1. Answer(a) /\ a.grants = {}
  BY DEF ApplyBackoff, NoReply
<1> HIDE DEF a
<1>2. now' = now /\ ledger'.agg = ledger.agg
  BY <1>1 DEF Answer, ApplyBackoff
<1>3. \A k \in Families :
        \/ ledger'.fam[k].window = ledger.fam[k].window
        \/ k = f /\ ledger'.fam[k].window = GetFamily(ledger.fam[f], now).window
  BY DEF ApplyBackoff, TypeOK, Ledgers, Penalised
<1>4. WithinBudget(ledger)'
  BY <1>2, <1>3, ConstantsAssumption
     DEF WithinBudget, AccountingInv, GetFamily, FreshWindow, TypeOK
<1>5. LedgerAccounts(ledger', grants)
  <2> SUFFICES ASSUME NEW g \in grants
               PROVE  /\ Accounted(ledger'.agg, g.win, g.slot)
                      /\ Accounted(ledger'.fam[g.fam].window, g.fwin, g.fslot)
    BY DEF LedgerAccounts
  <2>1. /\ Accounted(ledger.agg, g.win, g.slot)
        /\ Accounted(ledger.fam[g.fam].window, g.fwin, g.fslot)
    BY DEF AccountingInv, LedgerAccounts
  <2>2. g.fam \in Families /\ g.fwin \in Nat
    BY DEF TypeOK, GrantRecords
  <2>3. ledger.fam[g.fam].window.start # Never
    BY <2>1, <2>2, ConstantsAssumption DEF Accounted, Never
  <2> QED
    BY <1>2, <1>3, <2>1, <2>2, <2>3 DEF GetFamily
<1> QED
  BY <1>1, <1>4, <1>5, AnswerWithoutGrant
\* A granted call takes the next slot of both windows.
LEMMA GrantAccounting ==
  ASSUME TypeOK, AccountingInv, NEW f \in Families, NEW i \in Ids, Grant(f, i)
  PROVE  AccountingInv'
<1> DEFINE new == GrantRecord(f, i, AggAtCheck, FamAtCheck(f))
<1>1. PICK ids \in IdsAtCheck(i) :
        /\ AggAtCheck.count < AggregateCap
        /\ FamAtCheck(f).count < FamCap(f)
        /\ Answer([NoReply EXCEPT !.verdict = "allowed", !.grants = {new}])
        /\ ledger' = Charged(f, i, ids)
  BY DEF Grant
<1>2. /\ now' = now /\ stored' = stored /\ everStored' = everStored
      /\ grants' = grants /\ stage = "idle" /\ stage' = "unsaved"
      /\ reply'.grants = {new} /\ reply.grants = {}
  BY <1>1 DEF Answer, NoReply, AccountingInv
<1>3. FamCap(f) <= FamilyCap /\ FamCap(f) \in Nat
  BY HalvedCapRange, ConstantsAssumption DEF FamCap, CapForFamily
<1>4. /\ AggAtCheck \in Windows /\ FamAtCheck(f) \in Windows /\ now \in Nat
  BY AggAtCheckType, FamAtCheckType DEF TypeOK
<1>5. /\ new.at = now /\ new.fam = f
      /\ new.win = AggAtCheck.start /\ new.slot = AggAtCheck.count + 1
      /\ new.fwin = FamAtCheck(f).start /\ new.fslot = FamAtCheck(f).count + 1
  BY DEF GrantRecord
<1> HIDE DEF new
<1>6. /\ ledger'.agg = OneMore(AggAtCheck)
      /\ ledger'.fam[f].window = OneMore(FamAtCheck(f))
      /\ \A k \in Families \ {f} : ledger'.fam[k].window = ledger.fam[k].window
  BY <1>1 DEF Charged, WithFamilyWindow, TypeOK, Ledgers
<1>7. WithinBudget(ledger)' /\ WithinBudget(stored)'
  <2>1. \A k \in Families : /\ ledger'.fam[k].window.count <= FamilyCap
                            /\ ledger'.fam[k].window.start <= now
    BY <1>1, <1>3, <1>4, <1>6, FamAtCheckAccounts, ConstantsAssumption
       DEF WithinBudget, AccountingInv, OneMore, Windows
  <2>2. ledger'.agg.count <= AggregateCap /\ ledger'.agg.start <= now
    BY <1>1, <1>4, <1>6, AggAtCheckAccounts, ConstantsAssumption DEF OneMore, Windows
  <2> QED
    BY <2>1, <2>2, <1>2 DEF WithinBudget, AccountingInv
<1>8. WellPlaced(new)
  BY <1>1, <1>3, <1>4, <1>5, AggAtCheckAccounts, FamAtCheckAccounts, ConstantsAssumption
     DEF WellPlaced, Windows
<1>9. \A g \in (grants \cup reply.grants)' : WellPlaced(g)'
  BY <1>2, <1>8 DEF AccountingInv, WellPlaced
<1>10. LedgerAccounts(ledger, grants \cup reply.grants)'
  <2>1. /\ Accounted(ledger'.agg, new.win, new.slot)
        /\ Accounted(ledger'.fam[f].window, new.fwin, new.fslot)
    BY <1>4, <1>5, <1>6, NextSlotAccounted
  <2>2. ASSUME NEW g \in grants
        PROVE  /\ Accounted(ledger'.agg, g.win, g.slot)
               /\ Accounted(ledger'.fam[g.fam].window, g.fwin, g.fslot)
    <3>1. /\ g.win \in Nat /\ g.slot \in Nat /\ g.fwin \in Nat /\ g.fslot \in Nat
          /\ g.fam \in Families
      BY DEF TypeOK, GrantRecords
    <3>2. Accounted(ledger'.agg, g.win, g.slot)
      BY <1>4, <1>6, <3>1, AggAtCheckAccounts, NextSlotApart
    <3>3. CASE g.fam = f
      BY <1>4, <1>6, <3>1, <3>2, <3>3, FamAtCheckAccounts, NextSlotApart
    <3>4. CASE g.fam # f
      BY <1>6, <3>1, <3>2, <3>4 DEF AccountingInv, LedgerAccounts
    <3> QED
      BY <3>3, <3>4
  <2> QED
    BY <1>2, <1>5, <2>1, <2>2 DEF LedgerAccounts
<1>11. \A h \in grants : Separate(new, h)
  <2> SUFFICES ASSUME NEW h \in grants PROVE Separate(new, h)
    OBVIOUS
  <2>1. h.win \in Nat /\ h.slot \in Nat /\ h.fwin \in Nat /\ h.fslot \in Nat
    BY DEF TypeOK, GrantRecords
  <2>2. Apart(new.win, new.slot, h.win, h.slot)
    BY <1>4, <1>5, <2>1, AggAtCheckAccounts, NextSlotApart
  <2>3. h.fam = f => Apart(new.fwin, new.fslot, h.fwin, h.fslot)
    BY <1>4, <1>5, <2>1, FamAtCheckAccounts, NextSlotApart
  <2> QED
    BY <1>5, <2>2, <2>3 DEF Separate
<1>12. everStored' => LedgerAccounts(stored, grants)'
  BY <1>2 DEF AccountingInv, LedgerAccounts
<1> QED
  BY <1>2, <1>7, <1>9, <1>10, <1>11, <1>12 DEF AccountingInv
\* Separation is symmetric, and irreflexive on slots.
LEMMA SeparateSymmetric ==
  ASSUME NEW g, NEW h, Separate(g, h)
  PROVE  Separate(h, g)
BY DEF Separate, Apart

\* Delivering the reply hands the call in flight to its caller.
LEMMA ReplyAccounting ==
  ASSUME TypeOK, AccountingInv, Reply
  PROVE  AccountingInv'
<1>1. /\ stage = "saved" /\ stage' = "idle" /\ reply' = NoReply /\ reply'.grants = {}
      /\ grants' = grants \cup reply.grants
      /\ now' = now /\ ledger' = ledger /\ stored' = stored /\ everStored' = everStored
  BY DEF Reply, NoReply
<1>2. everStored /\ stored = ledger
  BY <1>1 DEF AccountingInv
<1>3. WithinBudget(ledger)' /\ WithinBudget(stored)'
  BY <1>1 DEF AccountingInv, WithinBudget
<1>4. \A g \in (grants \cup reply.grants)' : WellPlaced(g)'
  BY <1>1 DEF AccountingInv, WellPlaced
<1>5. LedgerAccounts(ledger, grants \cup reply.grants)' /\ LedgerAccounts(stored, grants)'
  BY <1>1, <1>2 DEF AccountingInv, LedgerAccounts
<1>6. ASSUME NEW g \in grants', NEW h \in grants', g # h
      PROVE  Separate(g, h)
  BY <1>1, <1>6, SeparateSymmetric DEF AccountingInv
<1> QED
  BY <1>1, <1>2, <1>3, <1>4, <1>5, <1>6 DEF AccountingInv

\* A restart falls back on storage, which accounts for every call told of.
LEMMA EvictAccounting ==
  ASSUME TypeOK, AccountingInv, Evict
  PROVE  AccountingInv'
<1>1. /\ stage' = "idle" /\ reply' = NoReply /\ reply'.grants = {}
      /\ ledger' = (IF everStored THEN stored ELSE NewLedger(now))
      /\ now' = now /\ stored' = stored /\ everStored' = everStored /\ grants' = grants
  BY DEF Evict, NoReply
<1>2. WithinBudget(stored)' /\ WithinBudget(ledger)'
  BY <1>1, ConstantsAssumption
     DEF AccountingInv, WithinBudget, NewLedger, FreshWindow, TypeOK, Never
<1>3. \A g \in (grants \cup reply.grants)' : WellPlaced(g)'
  BY <1>1 DEF AccountingInv, WellPlaced
<1>4. LedgerAccounts(ledger, grants \cup reply.grants)'
  BY <1>1 DEF AccountingInv, LedgerAccounts
<1>5. everStored' => LedgerAccounts(stored, grants)'
  BY <1>1 DEF AccountingInv, LedgerAccounts
<1> QED
  BY <1>1, <1>2, <1>3, <1>4, <1>5 DEF AccountingInv

\* Every reachable state accounts for every call a caller was told of.
THEOREM Accounting == Spec => []AccountingInv
<1>1. Init => AccountingInv
  <2> SUFFICES ASSUME Init PROVE AccountingInv
    OBVIOUS
  <2>1. grants = {} /\ reply.grants = {} /\ ~everStored /\ stage = "idle" /\ reply = NoReply
    BY DEF Init, NoReply
  <2>2. WithinBudget(ledger) /\ WithinBudget(stored)
    BY ConstantsAssumption DEF Init, WithinBudget, NewLedger, FreshWindow, Never
  <2> QED
    BY <2>1, <2>2 DEF AccountingInv, LedgerAccounts
<1>2. TypeOK /\ AccountingInv /\ [Next]_vars => AccountingInv'
  <2> SUFFICES ASSUME TypeOK, AccountingInv, [Next]_vars
               PROVE  AccountingInv'
    OBVIOUS
  <2>1. ASSUME NEW f \in Families, NEW i \in Ids, Check(f, i)
        PROVE  AccountingInv'
    BY <2>1, DenyAccounting, GrantAccounting DEF Check
  <2>2. ASSUME NEW f \in Families, NEW r \in RetryAfters, ApplyBackoff(f, r)
        PROVE  AccountingInv'
    BY <2>2, BackoffAccounting
  <2>3. CASE PersistState
    BY <2>3 DEF PersistState, AccountingInv, WithinBudget, LedgerAccounts, WellPlaced
  <2>4. CASE Reply
    BY <2>4, ReplyAccounting
  <2>5. CASE Evict
    BY <2>5, EvictAccounting
  <2>6. CASE Tick
    <3>1. now <= now' /\ now' \in Nat
      BY <2>6 DEF Tick, TypeOK
    <3>2. ASSUME NEW L \in Ledgers, WithinBudget(L)
          PROVE  /\ L.agg.count <= AggregateCap /\ L.agg.start <= now'
                 /\ \A f \in Families : /\ L.fam[f].window.count <= FamilyCap
                                        /\ L.fam[f].window.start <= now'
      <4>1. L.agg.start \in Int /\ \A f \in Families : L.fam[f].window.start \in Int
        BY DEF Ledgers, Windows, FamilyStates, FamilyWindows, Never
      <4> QED
        BY <3>1, <3>2, <4>1 DEF WithinBudget, TypeOK
    <3>3. WithinBudget(ledger)' /\ WithinBudget(stored)'
      BY <2>6, <3>2 DEF Tick, AccountingInv, WithinBudget, TypeOK
    <3>4. \A g \in (grants \cup reply.grants)' : WellPlaced(g)'
      BY <2>6, <3>1 DEF Tick, AccountingInv, WellPlaced, TypeOK, GrantRecords
    <3> QED
      BY <2>6, <3>3, <3>4 DEF Tick, AccountingInv, LedgerAccounts
  <2>7. CASE UNCHANGED vars
    BY <2>7 DEF vars, AccountingInv, WithinBudget, LedgerAccounts, WellPlaced
  <2> QED
    BY <2>1, <2>2, <2>3, <2>4, <2>5, <2>6, <2>7 DEF Next, Ids
<1> QED
  BY <1>1, <1>2, TypeCorrect, PTL DEF Spec

-----------------------------------------------------------------------------
(* The bounds on bursts.                                                   *)

\* The slots of two windows, numbered one after the other.
SlotNumber(t, cap, win, slot) == IF win <= t THEN slot ELSE slot + cap

\* Two calls of one Window-long interval with the same slot number are not
\* apart: the interval meets at most one window that begins at or before its
\* start and at most one that begins later.
LEMMA SlotNumberInjective ==
  ASSUME NEW t \in Nat, NEW cap \in Nat,
         NEW at1 \in Nat, NEW win1 \in Nat, NEW slot1 \in 1..cap,
         NEW at2 \in Nat, NEW win2 \in Nat, NEW slot2 \in 1..cap,
         t <= at1, at1 < t + Window, win1 <= at1, at1 < win1 + Window,
         t <= at2, at2 < t + Window, win2 <= at2, at2 < win2 + Window,
         SlotNumber(t, cap, win1, slot1) = SlotNumber(t, cap, win2, slot2)
  PROVE  ~Apart(win1, slot1, win2, slot2)
BY ConstantsAssumption DEF SlotNumber, Apart

\* A set whose members have distinct numbers in 1..n has at most n members.
LEMMA Numbered ==
  ASSUME NEW n \in Nat, NEW S, NEW num \in [S -> 1..n],
         \A g, h \in S : num[g] = num[h] => g = h
  PROVE  Cardinality(S) <= n
<1>1. num \in Injection(S, 1..n)
  BY DEF Injection, IsInjective
<1>2. IsFiniteSet(1..n) /\ Cardinality(1..n) = n
  BY FS_Interval
<1> QED
  BY <1>1, <1>2, FS_Injection

\* No Window-long interval holds more than two full budgets.
THEOREM BurstBound == Spec => []SlidingBurst
<1>1. TypeOK /\ AccountingInv => SlidingBurst
  <2> SUFFICES ASSUME TypeOK, AccountingInv, NEW t \in 0..MaxTime
               PROVE  Cardinality(GrantsFrom(t)) <= 2 * AggregateCap
    BY DEF SlidingBurst
  <2> DEFINE S == GrantsFrom(t)
             num == [g \in S |-> SlotNumber(t, AggregateCap, g.win, g.slot)]
  <2>1. \A g \in S : /\ g \in grants /\ g.at \in Nat /\ g.win \in Nat
                     /\ g.slot \in 1..AggregateCap
                     /\ t <= g.at /\ g.at < t + Window
                     /\ g.win <= g.at /\ g.at < g.win + Window
    BY DEF GrantsFrom, AccountingInv, WellPlaced, TypeOK, GrantRecords
  <2>2. num \in [S -> 1..2 * AggregateCap]
    BY <2>1, ConstantsAssumption DEF SlotNumber
  <2>3. ASSUME NEW g \in S, NEW h \in S, num[g] = num[h]
        PROVE  g = h
    <3>1. SlotNumber(t, AggregateCap, g.win, g.slot) = SlotNumber(t, AggregateCap, h.win, h.slot)
      BY <2>3
    <3>2. t \in Nat /\ AggregateCap \in Nat
      BY ConstantsAssumption
    <3>3. ~Apart(g.win, g.slot, h.win, h.slot)
      BY <2>1, <3>1, <3>2, SlotNumberInjective
    <3> QED
      BY <2>1, <3>3 DEF AccountingInv, Separate
  <2> HIDE DEF num, S
  <2>4. 2 * AggregateCap \in Nat
    BY ConstantsAssumption
  <2> QED
    BY <2>2, <2>3, <2>4, Numbered DEF S
<1> QED
  BY <1>1, TypeCorrect, Accounting, PTL

\* No Window-long interval holds more than two full caps of one family.
THEOREM FamilyBurstBound == Spec => []FamilySlidingBurst
<1>1. TypeOK /\ AccountingInv => FamilySlidingBurst
  <2> SUFFICES ASSUME TypeOK, AccountingInv, NEW t \in 0..MaxTime, NEW f \in Families
               PROVE  Cardinality({g \in GrantsFrom(t) : g.fam = f}) <= 2 * FamilyCap
    BY DEF FamilySlidingBurst
  <2> DEFINE S == {g \in GrantsFrom(t) : g.fam = f}
             num == [g \in S |-> SlotNumber(t, FamilyCap, g.fwin, g.fslot)]
  <2>1. \A g \in S : /\ g \in grants /\ g.fam = f /\ g.at \in Nat /\ g.fwin \in Nat
                     /\ g.fslot \in 1..FamilyCap
                     /\ t <= g.at /\ g.at < t + Window
                     /\ g.fwin <= g.at /\ g.at < g.fwin + Window
    BY DEF GrantsFrom, AccountingInv, WellPlaced, TypeOK, GrantRecords
  <2>2. num \in [S -> 1..2 * FamilyCap]
    BY <2>1, ConstantsAssumption DEF SlotNumber
  <2>3. ASSUME NEW g \in S, NEW h \in S, num[g] = num[h]
        PROVE  g = h
    <3>1. SlotNumber(t, FamilyCap, g.fwin, g.fslot) = SlotNumber(t, FamilyCap, h.fwin, h.fslot)
      BY <2>3
    <3>2. t \in Nat /\ FamilyCap \in Nat
      BY ConstantsAssumption
    <3>3. ~Apart(g.fwin, g.fslot, h.fwin, h.fslot)
      BY <2>1, <3>1, <3>2, SlotNumberInjective
    <3> QED
      BY <2>1, <3>3 DEF AccountingInv, Separate
  <2> HIDE DEF num, S
  <2>4. 2 * FamilyCap \in Nat
    BY ConstantsAssumption
  <2> QED
    BY <2>2, <2>3, <2>4, Numbered DEF S
<1> QED
  BY <1>1, TypeCorrect, Accounting, PTL
-----------------------------------------------------------------------------
(* One run of a report per IdentityWindow, unless as many other reports as *)
(* the ledger tracks are run in between.                                   *)

\* More runs, or a longer interval, crowd no less.
LEMMA CrowdedMonotone ==
  ASSUME NEW S, NEW T, S \subseteq T, NEW i, NEW from \in Nat,
         NEW to \in Nat, NEW later \in Nat, to <= later, \A r \in T : r.at \in Nat,
         Crowded(S, i, from, to)
  PROVE  Crowded(T, i, from, later)
<1>1. OthersRun(S, i, from, to) \subseteq OthersRun(T, i, from, later)
  BY DEF OthersRun
<1>2. OthersRun(T, i, from, later) \subseteq Identities
  BY DEF OthersRun
<1>3. /\ IsFiniteSet(OthersRun(T, i, from, later))
      /\ IsFiniteSet(OthersRun(S, i, from, to))
      /\ Cardinality(OthersRun(S, i, from, to)) <= Cardinality(OthersRun(T, i, from, later))
  BY <1>1, <1>2, FS_Subset, ConstantsAssumption
<1>4. /\ Cardinality(OthersRun(S, i, from, to)) \in Nat
      /\ Cardinality(OthersRun(T, i, from, later)) \in Nat
  BY <1>3, FS_CardinalityType
<1> QED
  BY <1>3, <1>4, ConstantsAssumption DEF Crowded

\* While the object is idle, memory knows exactly the runs that were charged.
LEMMA IdleKnown ==
  ASSUME ReportInv, stage = "idle"
  PROVE  /\ reply.grants = {} /\ RunsOf(reply.grants) = {}
         /\ Remembers(ledger, runs) /\ Backed(ledger, runs)
<1>1. reply.grants = {} /\ RunsOf(reply.grants) = {}
  BY DEF ReportInv, NoReply, RunsOf
<1>2. runs \cup RunsOf(reply.grants) = runs
  BY <1>1
<1> QED
  BY <1>1, <1>2 DEF ReportInv

\* An unexpired entry is dropped only for MaxTracked others that are no older,
\* each of a report that was run since.
LEMMA DroppedMeansCrowded ==
  ASSUME TypeOK, Backed(ledger, runs), NEW i \in Ids, NEW ids \in IdsAtCheck(i),
         NEW k \in Identities, ledger.ids[k] # Never, now - ledger.ids[k] < IdentityWindow,
         ids[k] # ledger.ids[k], NEW from \in Nat, from <= ledger.ids[k],
         \A r \in runs : r.at <= now
  PROVE  Crowded(runs, k, from, now)
<1> DEFINE live == Unexpired(ledger.ids, now)
<1>1. i # NoIdentity
  BY DEF IdsAtCheck
<1>2. PICK keep \in Kept(ledger.ids, now) :
        ids = [j \in Identities |-> IF j \in keep THEN ledger.ids[j] ELSE Never]
  BY <1>1 DEF IdsAtCheck, PruneIdentities
<1>3. k \in live \ keep
  BY <1>2 DEF Unexpired
<1>4. /\ keep \subseteq live /\ Cardinality(keep) = MaxTracked
      /\ \A m \in keep, j \in live \ keep : ledger.ids[j] <= ledger.ids[m]
  BY <1>3 DEF Kept
<1>5. keep \subseteq OthersRun(runs, k, from, now)
  <2> SUFFICES ASSUME NEW m \in keep
               PROVE  m \in OthersRun(runs, k, from, now)
    OBVIOUS
  <2>1. m \in Identities /\ m # k /\ ledger.ids[m] # Never /\ ledger.ids[k] <= ledger.ids[m]
    BY <1>3, <1>4 DEF Unexpired
  <2>2. ledger.ids[m] \in Nat /\ ledger.ids[k] \in Nat
    BY <2>1 DEF TypeOK, Ledgers
  <2>3. from <= ledger.ids[m]
    BY <2>1, <2>2
  <2> DEFINE run == [id |-> m, at |-> ledger.ids[m]]
  <2>4. run \in runs /\ run.id = m /\ run.at = ledger.ids[m]
    BY <2>1 DEF Backed
  <2> HIDE DEF run
  <2> QED
    BY <2>1, <2>3, <2>4 DEF OthersRun
<1>6. OthersRun(runs, k, from, now) \subseteq Identities
  BY DEF OthersRun
<1>7. /\ IsFiniteSet(OthersRun(runs, k, from, now)) /\ IsFiniteSet(keep)
      /\ Cardinality(keep) <= Cardinality(OthersRun(runs, k, from, now))
  BY <1>5, <1>6, FS_Subset, ConstantsAssumption
<1> QED
  BY <1>4, <1>7, FS_CardinalityType, ConstantsAssumption DEF Crowded

\* What a check has pruned remembers every recent run that was not crowded
\* out, and still only what was run.
LEMMA PrunedRemembers ==
  ASSUME TypeOK, ReportInv, stage = "idle", NEW i \in Ids, NEW ids \in IdsAtCheck(i)
  PROVE  /\ \A r \in runs : \/ ids[r.id] >= r.at
                            \/ r.at + IdentityWindow <= now
                            \/ Crowded(runs, r.id, r.at, now)
         /\ \A k \in Identities : ids[k] # Never => [id |-> k, at |-> ids[k]] \in runs
<1>1. Remembers(ledger, runs) /\ Backed(ledger, runs) /\ \A r \in runs : r.at <= now
  BY IdleKnown DEF ReportInv
<1>2. ASSUME NEW r \in runs
      PROVE  \/ ids[r.id] >= r.at
             \/ r.at + IdentityWindow <= now
             \/ Crowded(runs, r.id, r.at, now)
  <2>1. r.id \in Identities /\ r.at \in Nat /\ now \in Nat
    BY DEF TypeOK, RunRecords
  <2>2. ledger.ids[r.id] \in Nat \cup {Never}
    BY <2>1 DEF TypeOK, Ledgers
  <2>3. CASE ledger.ids[r.id] >= r.at /\ now - ledger.ids[r.id] < IdentityWindow
    <3>1. ledger.ids[r.id] # Never /\ r.at <= ledger.ids[r.id]
      BY <2>1, <2>2, <2>3 DEF Never
    <3>2. CASE ids[r.id] # ledger.ids[r.id]
      BY <1>1, <2>1, <2>3, <3>1, <3>2, DroppedMeansCrowded
    <3> QED
      BY <2>3, <3>2
  <2>4. CASE ledger.ids[r.id] >= r.at /\ ~(now - ledger.ids[r.id] < IdentityWindow)
    BY <2>1, <2>2, <2>4, ConstantsAssumption DEF Never
  <2> QED
    BY <1>1, <2>3, <2>4 DEF Remembers
<1>3. \A k \in Identities : ids[k] # Never => [id |-> k, at |-> ids[k]] \in runs
  BY <1>1, IdsAtCheckType DEF Backed
<1> QED
  BY <1>2, <1>3

\* A check that is refused leaves a ledger that still remembers.
LEMMA DenyRemembers ==
  ASSUME TypeOK, ReportInv, NEW i \in Ids, NEW ids \in IdsAtCheck(i), NEW r, Answer(r),
         r.grants = {}, ledger'.ids = ids
  PROVE  ReportInv'
<1>1. /\ stage = "idle" /\ stage' = "unsaved" /\ reply' = r /\ runs' = runs
      /\ now' = now /\ stored' = stored /\ everStored' = everStored /\ grants' = grants
  BY DEF Answer
<1>2. reply'.grants = {} /\ RunsOf(reply'.grants) = {}
  BY <1>1 DEF RunsOf
<1>3. (runs \cup RunsOf(reply.grants))' = runs /\ (grants \cup reply.grants)' = grants
  BY <1>1, <1>2
<1>4. Remembers(ledger, runs \cup RunsOf(reply.grants))'
  BY <1>1, <1>3, PrunedRemembers DEF Remembers
<1>5. Backed(ledger, runs \cup RunsOf(reply.grants))'
  BY <1>1, <1>3, PrunedRemembers DEF Backed
<1>6. everStored' => Remembers(stored, runs)' /\ Backed(stored, runs)'
  BY <1>1 DEF ReportInv, Remembers, Backed
<1>7. RunsOf(grants)' \subseteq runs'
  BY <1>1 DEF ReportInv, RunsOf
<1>8. \A g, h \in grants' : g # h => RunsApart(runs, g, h)'
  BY <1>1 DEF ReportInv, RunsApart
<1> QED
  BY <1>1, <1>2, <1>3, <1>4, <1>5, <1>6, <1>7, <1>8 DEF ReportInv

\* A run is granted only when the earlier runs of its report are old enough,
\* or were crowded out.
LEMMA GrantRemembers ==
  ASSUME TypeOK, ReportInv, NEW f \in Families, NEW i \in Ids, Grant(f, i)
  PROVE  ReportInv'
<1> DEFINE new == GrantRecord(f, i, AggAtCheck, FamAtCheck(f))
           more == RunsOf({new})
<1>1. PICK ids \in IdsAtCheck(i) :
        /\ ~SeenRecently(ids, i, now)
        /\ Answer([NoReply EXCEPT !.verdict = "allowed", !.grants = {new}])
        /\ ledger' = Charged(f, i, ids)
  BY DEF Grant
<1>2. /\ now' = now /\ stored' = stored /\ everStored' = everStored /\ runs' = runs
      /\ grants' = grants /\ stage = "idle" /\ stage' = "unsaved" /\ reply'.grants = {new}
  BY <1>1 DEF Answer, NoReply
<1>3. new.at = now /\ new.id = i
  BY DEF GrantRecord
<1> HIDE DEF new
<1>4. more = IF i = NoIdentity THEN {} ELSE {[id |-> i, at |-> now]}
  BY <1>3 DEF RunsOf
<1> HIDE DEF more
<1>5. ledger'.ids = [k \in Identities |-> IF k = i THEN now ELSE ids[k]]
  BY <1>1 DEF Charged
<1>6. /\ \A g \in grants : g.at <= now /\ g.at \in Nat /\ g.id \in Ids
      /\ \A r \in runs : r.at <= now /\ r.at \in Nat /\ r.id \in Identities
      /\ now \in Nat
  BY DEF ReportInv, TypeOK, GrantRecords, RunRecords, Ids
<1>7. ids \in [Identities -> Nat \cup {Never}]
  BY IdsAtCheckType
<1>8. (runs \cup RunsOf(reply.grants))' = runs \cup more
  BY <1>2 DEF more, RunsOf
<1>9. \A r \in runs \cup more : r.at \in Nat /\ r.at <= now /\ r.id \in Identities
  BY <1>4, <1>6 DEF Ids
<1>10. Remembers(ledger, runs \cup RunsOf(reply.grants))'
  <2> SUFFICES ASSUME NEW r \in runs \cup more
               PROVE  \/ ledger'.ids[r.id] >= r.at
                      \/ r.at + IdentityWindow <= now
                      \/ Crowded(runs \cup more, r.id, r.at, now)
    BY <1>2, <1>8 DEF Remembers, Crowded, OthersRun
  <2>1. CASE r.id = i
    BY <1>5, <1>6, <1>9, <2>1
  <2>2. CASE r.id # i
    <3>1. r \in runs
      BY <1>4, <2>2
    <3>2. CASE Crowded(runs, r.id, r.at, now)
      BY <1>6, <1>9, <3>2, CrowdedMonotone
    <3> QED
      BY <1>2, <1>5, <1>6, <2>2, <3>1, <3>2, PrunedRemembers
  <2> QED
    BY <2>1, <2>2
<1>11. Backed(ledger, runs \cup RunsOf(reply.grants))'
  <2> SUFFICES ASSUME NEW k \in Identities, ledger'.ids[k] # Never
               PROVE  [id |-> k, at |-> ledger'.ids[k]] \in runs \cup more
    BY <1>8 DEF Backed
  <2>1. CASE k = i
    BY <1>4, <1>5, <2>1, ConstantsAssumption
  <2>2. CASE k # i
    BY <1>2, <1>5, <2>2, PrunedRemembers
  <2> QED
    BY <2>1, <2>2
<1>12. \A h \in grants : RunsApart(runs, h, new) /\ RunsApart(runs, new, h)
  <2> SUFFICES ASSUME NEW h \in grants, h.id = i, i # NoIdentity
               PROVE  h.at + IdentityWindow <= now \/ Crowded(runs, i, h.at, now)
    BY <1>3, <1>6, ConstantsAssumption DEF RunsApart
  <2> DEFINE run == [id |-> i, at |-> h.at]
  <2>1. run \in runs /\ run.id = i /\ run.at = h.at
    BY DEF ReportInv, RunsOf
  <2> HIDE DEF run
  <2>2. \/ ids[i] >= h.at
        \/ h.at + IdentityWindow <= now
        \/ Crowded(runs, i, h.at, now)
    BY <1>2, <2>1, PrunedRemembers
  <2>3. ids[i] \in Nat \cup {Never} /\ h.at \in Nat /\ now \in Nat
    BY <1>6, <1>7 DEF Ids
  <2>4. ids[i] = Never \/ ~(now - ids[i] < IdentityWindow)
    BY <1>1 DEF SeenRecently
  <2>5. CASE ids[i] >= h.at
    BY <2>3, <2>4, <2>5, ConstantsAssumption DEF Never
  <2> QED
    BY <2>2, <2>5
<1>13. \A g \in (grants \cup reply.grants)' : g.at <= now'
  BY <1>2, <1>3, <1>6
<1>14. everStored' => Remembers(stored, runs)' /\ Backed(stored, runs)'
  BY <1>2 DEF ReportInv, Remembers, Backed
<1>15. /\ RunsOf(grants)' \subseteq runs'
       /\ \A g, h \in grants' : g # h => RunsApart(runs, g, h)'
  BY <1>2 DEF ReportInv, RunsApart, RunsOf
<1>16. /\ \A g, h \in reply'.grants : g = h
       /\ \A g \in reply'.grants, h \in grants' : RunsApart(runs, h, g)' /\ RunsApart(runs, g, h)'
  BY <1>2, <1>12 DEF RunsApart
<1> QED
  BY <1>2, <1>6, <1>10, <1>11, <1>13, <1>14, <1>15, <1>16 DEF ReportInv

\* Charging more runs keeps runs apart.
LEMMA RunsApartMonotone ==
  ASSUME NEW S, NEW T, S \subseteq T, \A r \in T : r.at \in Nat,
         NEW g, NEW h, g.at \in Nat, h.at \in Nat, RunsApart(S, g, h)
  PROVE  RunsApart(T, g, h)
BY CrowdedMonotone DEF RunsApart

\* The ledger becomes durable: so do the runs it was charged with.
LEMMA PersistRemembers ==
  ASSUME TypeOK, ReportInv, PersistState
  PROVE  ReportInv'
<1>1. /\ stage = "unsaved" /\ stage' = "saved" /\ stored' = ledger /\ everStored'
      /\ runs' = runs \cup RunsOf(reply.grants)
      /\ now' = now /\ ledger' = ledger /\ reply' = reply /\ grants' = grants
  BY DEF PersistState
<1>2. /\ (runs \cup RunsOf(reply.grants))' = runs'
      /\ RunsOf(reply.grants)' = RunsOf(reply.grants) /\ RunsOf(grants)' = RunsOf(grants)
  BY <1>1 DEF RunsOf
<1>3. \A g \in grants \cup reply.grants : g.at \in Nat
  BY DEF TypeOK, GrantRecords
<1>4. \A r \in runs' : r.at \in Nat /\ r.at <= now
  BY <1>1 DEF ReportInv, RunsOf, TypeOK, GrantRecords, RunRecords
<1>5. Remembers(ledger, runs)' /\ Backed(ledger, runs)'
  BY <1>1 DEF ReportInv, Remembers, Backed
<1>6. Remembers(stored, runs)' /\ Backed(stored, runs)'
  BY <1>1, <1>5 DEF Remembers, Backed
<1>7. \A g \in grants \cup reply.grants, h \in grants \cup reply.grants :
        RunsApart(runs, g, h) => RunsApart(runs', g, h)
  BY <1>1, <1>3, <1>4, RunsApartMonotone
<1>8. /\ \A g \in reply'.grants, h \in grants' : RunsApart(runs, h, g)' /\ RunsApart(runs, g, h)'
      /\ \A g, h \in grants' : g # h => RunsApart(runs, g, h)'
  BY <1>1, <1>7 DEF ReportInv, RunsApart
<1> QED
  BY <1>1, <1>2, <1>4, <1>5, <1>6, <1>8 DEF ReportInv

\* ServiceTitan's "1 of the same report per minute" is broken only when
\* MAX_TRACKED_IDENTITIES other reports were charged since the report's last
\* run: for every number of reports and every ceiling, whatever is evicted when.
THEOREM ReportSpacing == Spec => []SameReportSpacing
<1>1. Init => ReportInv
  BY DEF Init, NoReply, ReportInv, Remembers, Backed, RunsOf, NewLedger
<1>2. TypeOK /\ ReportInv /\ [Next]_vars => ReportInv'
  <2> SUFFICES ASSUME TypeOK, ReportInv, [Next]_vars
               PROVE  ReportInv'
    OBVIOUS
  <2>1. ASSUME NEW f \in Families, NEW i \in Ids, Check(f, i)
        PROVE  ReportInv'
    <3>1. CASE Grant(f, i)
      BY <3>1, GrantRemembers
    <3>2. CASE ~Grant(f, i)
      <4>1. PICK ids \in IdsAtCheck(i) :
              /\ \E reason, ms : Answer(Denial(reason, ms))
              /\ ledger'.ids = ids
        BY <2>1, <3>2 DEF Check, DenySameReport, DenyAggregate, DenyFamily
      <4>2. PICK reason, ms : Answer(Denial(reason, ms))
        BY <4>1
      <4>3. Denial(reason, ms).grants = {}
        BY DEF Denial, NoReply
      <4> QED
        BY <4>1, <4>2, <4>3, DenyRemembers
    <3> QED
      BY <3>1, <3>2
  <2>2. ASSUME NEW f \in Families, NEW r \in RetryAfters, ApplyBackoff(f, r)
        PROVE  ReportInv'
    <3> DEFINE a == [NoReply EXCEPT !.verdict = "ok",
                       !.penalties = {[fam |-> f, from |-> now, until |-> PenaltyEnd(r)]}]
    <3>1. Answer(a) /\ a.grants = {} /\ ledger'.ids = ledger.ids
      BY <2>2 DEF ApplyBackoff, NoReply
    <3>2. ledger.ids \in IdsAtCheck(NoIdentity) /\ NoIdentity \in Ids
      BY DEF IdsAtCheck, Ids
    <3> HIDE DEF a
    <3> QED
      BY <3>1, <3>2, DenyRemembers
  <2>3. CASE PersistState
    BY <2>3, PersistRemembers
  <2>4. CASE Reply
    <3>1. /\ stage = "saved" /\ stage' = "idle" /\ reply' = NoReply /\ reply'.grants = {}
          /\ grants' = grants \cup reply.grants
          /\ now' = now /\ ledger' = ledger /\ stored' = stored
          /\ everStored' = everStored /\ runs' = runs
      BY <2>4 DEF Reply, NoReply
    <3>2. everStored /\ stored = ledger /\ RunsOf(reply.grants) \subseteq runs
      BY <3>1 DEF ReportInv
    <3>3. RunsOf(reply.grants)' = {} /\ RunsOf(grants)' \subseteq runs
      BY <3>1, <3>2 DEF ReportInv, RunsOf
    <3>4. /\ Remembers(stored, runs)' /\ Backed(stored, runs)'
          /\ Remembers(ledger, runs)' /\ Backed(ledger, runs)'
      BY <3>1, <3>2 DEF ReportInv, Remembers, Backed
    <3>5. (runs \cup RunsOf(reply.grants))' = runs'
      BY <3>3
    <3>6. ASSUME NEW g \in grants', NEW h \in grants', g # h
          PROVE  RunsApart(runs, g, h)'
      BY <3>1, <3>6 DEF ReportInv, RunsApart
    <3> QED
      BY <3>1, <3>2, <3>3, <3>4, <3>5, <3>6 DEF ReportInv
  <2>5. CASE Evict
    <3>1. /\ stage' = "idle" /\ reply' = NoReply /\ reply'.grants = {}
          /\ now' = now /\ stored' = stored /\ everStored' = everStored
          /\ grants' = grants /\ runs' = runs
          /\ ledger' = IF everStored THEN stored ELSE NewLedger(now)
      BY <2>5 DEF Evict, NoReply
    <3>2. (runs \cup RunsOf(reply.grants))' = runs /\ RunsOf(reply.grants)' = {}
      BY <3>1 DEF RunsOf
    <3>3. Remembers(ledger, runs)' /\ Backed(ledger, runs)'
      BY <3>1 DEF ReportInv, Remembers, Backed, NewLedger
    <3>4. everStored' => Remembers(stored, runs)' /\ Backed(stored, runs)'
      BY <3>1 DEF ReportInv, Remembers, Backed
    <3>5. /\ RunsOf(grants)' \subseteq runs'
          /\ \A g, h \in grants' : g # h => RunsApart(runs, g, h)'
      BY <3>1 DEF ReportInv, RunsApart, RunsOf
    <3> QED
      BY <3>1, <3>2, <3>3, <3>4, <3>5 DEF ReportInv
  <2>6. CASE Tick
    <3>1. /\ now \in Nat /\ now <= now' /\ now' \in Nat
          /\ ledger' = ledger /\ stored' = stored /\ everStored' = everStored
          /\ stage' = stage /\ reply' = reply /\ grants' = grants /\ runs' = runs
      BY <2>6 DEF Tick, TypeOK
    <3>2. /\ \A g \in grants \cup reply.grants : g.at <= now'
          /\ \A r \in runs : r.at <= now'
      BY <3>1 DEF ReportInv, TypeOK, GrantRecords, RunRecords
    <3>3. ASSUME NEW L \in {ledger, stored}, NEW S \in {runs, runs \cup RunsOf(reply.grants)},
                 Remembers(L, S), NEW r \in S
          PROVE  \/ L.ids[r.id] >= r.at
                 \/ r.at + IdentityWindow <= now'
                 \/ Crowded(S, r.id, r.at, now')
      <4>1. \A q \in S : q.at \in Nat /\ q.at <= now
        BY DEF ReportInv, RunsOf, TypeOK, GrantRecords, RunRecords
      <4>2. CASE Crowded(S, r.id, r.at, now)
        BY <3>1, <4>1, <4>2, CrowdedMonotone
      <4> QED
        BY <3>1, <3>3, <4>1, <4>2, ConstantsAssumption DEF Remembers
    <3>4. Remembers(ledger, runs \cup RunsOf(reply.grants))'
      BY <3>1, <3>3 DEF ReportInv, Remembers, Crowded, OthersRun, RunsOf
    <3>5. everStored' => Remembers(stored, runs)'
      BY <3>1, <3>3 DEF ReportInv, Remembers, Crowded, OthersRun
    <3> QED
      BY <3>1, <3>2, <3>4, <3>5 DEF ReportInv, Backed, RunsOf, RunsApart
  <2>7. CASE UNCHANGED vars
    BY <2>7 DEF vars, ReportInv, Remembers, Backed, RunsOf, RunsApart
  <2> QED
    BY <2>1, <2>2, <2>3, <2>4, <2>5, <2>6, <2>7 DEF Next, Ids
<1>3. ReportInv => SameReportSpacing
  BY DEF ReportInv, SameReportSpacing, RunsApart
<1> QED
  BY <1>1, <1>2, <1>3, TypeCorrect, PTL DEF Spec
-----------------------------------------------------------------------------
(* A 429 that was acknowledged halves the cap of its family.               *)

\* The ledger knows the family of a penalty, and halves it long enough.
Halves(L, P) ==
  \A p \in P : L.fam[p.fam].window.start # Never /\ p.until <= L.fam[p.fam].halvedUntil

\* A call allowed under a penalty has one of the first HalvedCap slots.
Halved(g, p) ==
  g.fam = p.fam /\ p.from < g.at /\ g.at < p.until => g.fslot <= HalvedCap

\* Memory and storage halve for every penalty a caller was told is noted; one
\* whose acknowledgement is under way is younger than every call.
BackoffInv ==
  /\ stage = "idle" => reply = NoReply
  /\ stage = "saved" => everStored /\ stored = ledger
  /\ ~everStored => penalties = {}
  /\ Halves(ledger, penalties \cup reply.penalties)
  /\ everStored => Halves(stored, penalties)
  /\ \A g \in grants \cup reply.grants : g.at <= now
  /\ \A p \in reply.penalties, g \in grants \cup reply.grants : g.at <= p.from
  /\ \A g \in grants \cup reply.grants, p \in penalties : Halved(g, p)

\* An answer with no penalty: the ledger still halves, and whatever call is
\* answered is of now and within the halved cap.
LEMMA AnswerHalves ==
  ASSUME TypeOK, BackoffInv, NEW r, Answer(r), r.penalties = {},
         Halves(ledger', penalties),
         \A g \in r.grants : g.at = now /\ \A p \in penalties : Halved(g, p)
  PROVE  BackoffInv'
<1>1. /\ stage = "idle" /\ stage' = "unsaved" /\ reply' = r
      /\ now' = now /\ stored' = stored /\ everStored' = everStored
      /\ grants' = grants /\ penalties' = penalties /\ now \in Nat
  BY DEF Answer, TypeOK
<1>2. penalties \cup r.penalties = penalties
  OBVIOUS
<1>3. \A g \in (grants \cup reply.grants)' : g.at <= now'
  BY <1>1 DEF BackoffInv
<1>4. \A g \in (grants \cup reply.grants)', p \in penalties' : Halved(g, p)
  BY <1>1 DEF BackoffInv
<1> QED
  BY <1>1, <1>2, <1>3, <1>4 DEF BackoffInv, Halves

\* A check never shortens a penalty, and never forgets a family.
LEMMA CheckHalves ==
  ASSUME TypeOK, BackoffInv, NEW f \in Families, NEW w \in Windows, stage = "idle",
         \/ ledger'.fam = ledger.fam
         \/ ledger'.fam = [ledger.fam EXCEPT ![f] = WithFamilyWindow(@, w)]
  PROVE  Halves(ledger', penalties)
<1>1. \A k \in Families :
        /\ ledger'.fam[k].halvedUntil = ledger.fam[k].halvedUntil
        /\ ledger.fam[k].window.start # Never => ledger'.fam[k].window.start # Never
  BY DEF WithFamilyWindow, TypeOK, Ledgers, FamilyStates, Windows, Never
<1>2. \A p \in penalties : p.fam \in Families
  BY DEF TypeOK, PenaltyRecords
<1> QED
  BY <1>1, <1>2 DEF BackoffInv, Halves

LEMMA DenyBackoff ==
  ASSUME TypeOK, BackoffInv, NEW f \in Families, NEW i \in Ids,
         DenySameReport(f, i) \/ DenyAggregate(f, i) \/ DenyFamily(f, i)
  PROVE  BackoffInv'
<1>1. PICK reason, ms : Answer(Denial(reason, ms))
  BY DEF DenySameReport, DenyAggregate, DenyFamily
<1>2. \/ ledger'.fam = ledger.fam
      \/ ledger'.fam = [ledger.fam EXCEPT ![f] = WithFamilyWindow(@, FamAtCheck(f))]
  BY DEF DenySameReport, DenyAggregate, DenyFamily
<1>3. Halves(ledger', penalties)
  BY <1>1, <1>2, FamAtCheckType, CheckHalves DEF Answer
<1>4. Denial(reason, ms).grants = {} /\ Denial(reason, ms).penalties = {}
  BY DEF Denial, NoReply
<1> QED
  BY <1>1, <1>3, <1>4, AnswerHalves

\* Under a penalty that lasts, a call is only granted below the halved cap.
LEMMA GrantBackoff ==
  ASSUME TypeOK, BackoffInv, NEW f \in Families, NEW i \in Ids, Grant(f, i)
  PROVE  BackoffInv'
<1> DEFINE new == GrantRecord(f, i, AggAtCheck, FamAtCheck(f))
           r == [NoReply EXCEPT !.verdict = "allowed", !.grants = {new}]
<1>1. PICK ids \in IdsAtCheck(i) :
        FamAtCheck(f).count < FamCap(f) /\ Answer(r) /\ ledger' = Charged(f, i, ids)
  BY DEF Grant
<1>2. r.penalties = {} /\ r.grants = {new}
  BY DEF NoReply
<1>3. new.at = now /\ new.fam = f /\ new.fslot = FamAtCheck(f).count + 1
  BY DEF GrantRecord
<1>4. ledger'.fam = [ledger.fam EXCEPT ![f] = WithFamilyWindow(@, OneMore(FamAtCheck(f)))]
  BY <1>1 DEF Charged
<1>5. FamAtCheck(f) \in Windows /\ OneMore(FamAtCheck(f)) \in Windows
  BY FamAtCheckType DEF OneMore, Windows
<1>6. Halves(ledger', penalties)
  BY <1>1, <1>4, <1>5, CheckHalves DEF Answer
<1>7. ASSUME NEW p \in penalties, p.fam = f, p.from < now, now < p.until
      PROVE  FamAtCheck(f).count + 1 <= HalvedCap
  <2>1. ledger.fam[f].window.start # Never /\ p.until <= ledger.fam[f].halvedUntil
    BY <1>7 DEF BackoffInv, Halves
  <2>2. p.until \in Nat /\ now \in Nat /\ ledger.fam[f].halvedUntil \in Nat
    BY <1>7 DEF TypeOK, PenaltyRecords, Ledgers, FamilyStates
  <2>3. FamCap(f) = HalvedCap
    BY <1>7, <2>1, <2>2 DEF FamCap, CapForFamily, GetFamily
  <2> QED
    BY <1>1, <1>5, <2>3, HalvedCapRange, ConstantsAssumption DEF Windows
<1> HIDE DEF new, r
<1>8. \A p \in penalties : Halved(new, p)
  BY <1>3, <1>7 DEF Halved
<1> QED
  BY <1>1, <1>2, <1>3, <1>6, <1>8, AnswerHalves

\* The new penalty is noted, and no earlier one is shortened.
LEMMA ApplyBackoffHalves ==
  ASSUME TypeOK, BackoffInv, NEW f \in Families, NEW s \in RetryAfters, ApplyBackoff(f, s)
  PROVE  BackoffInv'
<1> DEFINE new == [fam |-> f, from |-> now, until |-> PenaltyEnd(s)]
<1>1. /\ stage = "idle" /\ stage' = "unsaved" /\ now' = now /\ stored' = stored
      /\ everStored' = everStored /\ grants' = grants /\ penalties' = penalties
      /\ reply'.grants = {} /\ reply'.penalties = {new}
      /\ reply.grants = {} /\ reply.penalties = {}
  BY DEF ApplyBackoff, Answer, NoReply, BackoffInv
<1>2. ledger'.fam = [ledger.fam EXCEPT ![f] = Penalised(GetFamily(@, now), s)]
  BY DEF ApplyBackoff
<1>3. PenaltyEnd(s) \in Nat /\ now \in Nat
  BY ConstantsAssumption DEF PenaltyEnd, Later, TypeOK
<1>4. /\ ledger'.fam[f].window.start # Never
      /\ PenaltyEnd(s) <= ledger'.fam[f].halvedUntil
      /\ ledger.fam[f].window.start # Never =>
           ledger.fam[f].halvedUntil <= ledger'.fam[f].halvedUntil
  BY <1>2, <1>3
     DEF Penalised, Later, GetFamily, FreshWindow, TypeOK, Ledgers, FamilyStates, FamilyWindows, Never
<1>5. \A k \in Families \ {f} : ledger'.fam[k] = ledger.fam[k]
  BY <1>2 DEF TypeOK, Ledgers
<1>6. \A p \in penalties : p.until \in Nat /\ p.fam \in Families
  BY DEF TypeOK, PenaltyRecords
<1>7. \A k \in Families : ledger.fam[k].halvedUntil \in Nat /\ ledger'.fam[k].halvedUntil \in Nat
  <2>1. ledger' \in Ledgers
    BY ApplyBackoffType DEF TypeOK
  <2> QED
    BY <2>1 DEF TypeOK, Ledgers, FamilyStates
<1>8. Halves(ledger', penalties)
  BY <1>4, <1>5, <1>6, <1>7 DEF BackoffInv, Halves
<1>9. Halves(ledger', {new})
  BY <1>4 DEF Halves
<1>10. Halves(ledger, penalties \cup reply.penalties)'
  BY <1>1, <1>8, <1>9 DEF Halves
<1>11. everStored' => Halves(stored, penalties)'
  BY <1>1 DEF BackoffInv, Halves
<1>12. \A g \in (grants \cup reply.grants)' :
         g.at <= now' /\ \A p \in reply'.penalties : g.at <= p.from
  BY <1>1 DEF BackoffInv
<1>13. \A g \in (grants \cup reply.grants)', p \in penalties' : Halved(g, p)
  BY <1>1 DEF BackoffInv
<1> QED
  BY <1>1, <1>10, <1>11, <1>12, <1>13 DEF BackoffInv

\* What was in flight is told of.
LEMMA ReplyHalves ==
  ASSUME TypeOK, BackoffInv, Reply
  PROVE  BackoffInv'
<1>1. /\ stage = "saved" /\ stage' = "idle" /\ reply' = NoReply
      /\ reply'.grants = {} /\ reply'.penalties = {}
      /\ grants' = grants \cup reply.grants /\ penalties' = penalties \cup reply.penalties
      /\ now' = now /\ ledger' = ledger /\ stored' = stored /\ everStored' = everStored
  BY DEF Reply, NoReply
<1>2. everStored /\ stored = ledger
  BY <1>1 DEF BackoffInv
<1>3. Halves(ledger, penalties \cup reply.penalties)' /\ Halves(stored, penalties)'
  BY <1>1, <1>2 DEF BackoffInv, Halves
<1>4. \A g \in (grants \cup reply.grants)' : g.at <= now'
  BY <1>1 DEF BackoffInv
<1>5. ASSUME NEW g \in grants \cup reply.grants, NEW p \in penalties \cup reply.penalties
      PROVE  Halved(g, p)
  <2>1. CASE p \in penalties
    BY <1>5, <2>1 DEF BackoffInv
  <2>2. CASE p \in reply.penalties
    <3>1. g.at <= p.from /\ g.at \in Nat /\ p.from \in Nat
      BY <1>5, <2>2 DEF BackoffInv, TypeOK, GrantRecords, PenaltyRecords
    <3> QED
      BY <3>1 DEF Halved
  <2> QED
    BY <2>1, <2>2
<1> QED
  BY <1>1, <1>2, <1>3, <1>4, <1>5 DEF BackoffInv

\* Every penalty a caller was told is noted halves, in memory and in storage,
\* and no call allowed under it had a slot above the halved cap.
THEOREM Backoffs == Spec => []BackoffInv
<1>1. Init => BackoffInv
  BY DEF Init, NoReply, BackoffInv, Halves
<1>2. TypeOK /\ BackoffInv /\ [Next]_vars => BackoffInv'
  <2> SUFFICES ASSUME TypeOK, BackoffInv, [Next]_vars
               PROVE  BackoffInv'
    OBVIOUS
  <2>1. ASSUME NEW f \in Families, NEW i \in Ids, Check(f, i)
        PROVE  BackoffInv'
    BY <2>1, DenyBackoff, GrantBackoff DEF Check
  <2>2. ASSUME NEW f \in Families, NEW s \in RetryAfters, ApplyBackoff(f, s)
        PROVE  BackoffInv'
    BY <2>2, ApplyBackoffHalves
  <2>3. CASE PersistState
    BY <2>3 DEF PersistState, BackoffInv, Halves
  <2>4. CASE Reply
    BY <2>4, ReplyHalves
  <2>5. CASE Evict
    BY <2>5 DEF Evict, NoReply, BackoffInv, Halves
  <2>6. CASE Tick
    <3>1. \A g \in grants \cup reply.grants : g.at <= now'
      BY <2>6 DEF Tick, BackoffInv, TypeOK, GrantRecords
    <3> QED
      BY <2>6, <3>1 DEF Tick, BackoffInv, Halves
  <2>7. CASE UNCHANGED vars
    BY <2>7 DEF vars, BackoffInv, Halves
  <2> QED
    BY <2>1, <2>2, <2>3, <2>4, <2>5, <2>6, <2>7 DEF Next, Ids
<1> QED
  BY <1>1, <1>2, TypeCorrect, PTL DEF Spec

\* Of the calls allowed under an acknowledged penalty, no window of the family
\* holds more than the halved cap, whatever is evicted or reported meanwhile.
THEOREM BackoffHalves == Spec => []BackoffHonoured
<1>1. TypeOK /\ AccountingInv /\ BackoffInv => BackoffHonoured
  <2> SUFFICES ASSUME TypeOK, AccountingInv, BackoffInv, NEW p \in penalties, NEW w \in 0..MaxTime
               PROVE  Cardinality({g \in grants : /\ g.fam = p.fam /\ g.fwin = w
                                                  /\ p.from < g.at /\ g.at < p.until}) <= HalvedCap
    BY DEF BackoffHonoured
  <2> DEFINE S == {g \in grants : /\ g.fam = p.fam /\ g.fwin = w
                                  /\ p.from < g.at /\ g.at < p.until}
             num == [g \in S |-> g.fslot]
  <2>1. \A g \in S : g \in grants /\ g.fam = p.fam /\ g.fwin = w /\ g.fslot \in 1..FamilyCap
    BY DEF AccountingInv, WellPlaced
  <2>2. \A g \in S : g.fslot <= HalvedCap
    BY DEF BackoffInv, Halved
  <2>3. HalvedCap \in Nat
    BY HalvedCapRange, ConstantsAssumption
  <2>4. num \in [S -> 1..HalvedCap]
    BY <2>1, <2>2, <2>3, ConstantsAssumption
  <2>5. ASSUME NEW g \in S, NEW h \in S, num[g] = num[h]
        PROVE  g = h
    <3>1. g.fslot = h.fslot /\ g.fwin = h.fwin /\ w \in Nat
      BY <2>1, <2>5, ConstantsAssumption
    <3>2. ~Apart(g.fwin, g.fslot, h.fwin, h.fslot)
      BY <2>1, <3>1, ConstantsAssumption DEF Apart
    <3> QED
      BY <2>1, <3>2 DEF AccountingInv, Separate
  <2> HIDE DEF num, S
  <2> QED
    BY <2>3, <2>4, <2>5, Numbered DEF S
<1> QED
  BY <1>1, TypeCorrect, Accounting, Backoffs, PTL

-----------------------------------------------------------------------------
(* Callers (RateLimitGuard).                                               *)

Started == {c \in Callers : pc[c] # "idle"}
Kin(S, f) == {c \in S : FamilyOf[c] = f}

\* For each caller, the window in which it was given a slot, or Never.
Marks == [Callers -> Nat \cup {Never}]

\* How many of S were given a slot in the window that started at t, and how
\* many but c in windows that had ended by t.
Used(S, w, t) == Cardinality({d \in S : w[d] = t})
Past(S, c, w, t) == Cardinality({d \in S \ {c} : w[d] # Never /\ w[d] + Window <= t})

\* What a ledger counts are slots of started callers.
Covers(S, L, win, fwin) ==
  /\ L.agg.count <= Used(S, win, L.agg.start)
  /\ \A f \in Families :
       \/ L.fam[f].window.count = 0
       \/ /\ L.fam[f].window.start # Never
          /\ L.fam[f].window.count <= Used(Kin(S, f), fwin, L.fam[f].window.start)

\* Each wait was for a window of its own, full of other callers' slots.
Waited(S, c, n, t, win, fwin) ==
  \E a, b \in Nat :
    /\ n = a + b
    /\ AggregateCap * a <= Past(S, c, win, t)
    /\ HalvedCap * b <= Past(Kin(S, FamilyOf[c]), c, fwin, t)

Extends(w, w2) == \A d \in Callers : w[d] # Never => w2[d] = w[d]

-----------------------------------------------------------------------------
LEMMA KinOf ==
  ASSUME NEW S, IsFiniteSet(S), NEW f
  PROVE  Kin(S, f) \subseteq S /\ IsFiniteSet(Kin(S, f))
<1>1. Kin(S, f) \in SUBSET S
  BY DEF Kin
<1> QED
  BY <1>1, FS_Subset

LEMMA UsedGrows ==
  ASSUME NEW S \in SUBSET Callers, NEW T \in SUBSET Callers, S \subseteq T, IsFiniteSet(T),
         NEW w \in Marks, NEW w2 \in Marks, Extends(w, w2), NEW t, t # Never
  PROVE  /\ Used(S, w, t) \in Nat /\ Used(T, w2, t) \in Nat
         /\ Used(S, w, t) <= Used(T, w2, t)
<1> DEFINE A == {d \in S : w[d] = t}
           B == {d \in T : w2[d] = t}
<1>1. A \in SUBSET B /\ B \in SUBSET T
  BY DEF Extends
<1> HIDE DEF A, B
<1>2. IsFiniteSet(B)
  BY <1>1, FS_Subset
<1>3. IsFiniteSet(A) /\ Cardinality(A) <= Cardinality(B)
  BY <1>1, <1>2, FS_Subset
<1>4. Cardinality(A) \in Nat /\ Cardinality(B) \in Nat
  BY <1>2, <1>3, FS_CardinalityType
<1> QED
  BY <1>3, <1>4 DEF Used, A, B

LEMMA PastGrows ==
  ASSUME NEW S \in SUBSET Callers, NEW T \in SUBSET Callers, S \subseteq T, IsFiniteSet(T),
         NEW w \in Marks, NEW w2 \in Marks, Extends(w, w2), NEW c,
         NEW t \in Int, NEW t2 \in Int, t <= t2
  PROVE  /\ Past(S, c, w, t) \in Nat /\ Past(T, c, w2, t2) \in Nat
         /\ Past(S, c, w, t) <= Past(T, c, w2, t2)
<1> DEFINE A == {d \in S \ {c} : w[d] # Never /\ w[d] + Window <= t}
           B == {d \in T \ {c} : w2[d] # Never /\ w2[d] + Window <= t2}
<1>1. A \in SUBSET B /\ B \in SUBSET T
  <2>1. ASSUME NEW d \in A PROVE d \in B
    <3>1. d \in Callers /\ w[d] \in Nat /\ w2[d] = w[d]
      BY DEF Marks, Extends
    <3> QED
      BY <3>1, ConstantsAssumption
  <2> QED
    BY <2>1
<1> HIDE DEF A, B
<1>2. IsFiniteSet(B)
  BY <1>1, FS_Subset
<1>3. IsFiniteSet(A) /\ Cardinality(A) <= Cardinality(B)
  BY <1>1, <1>2, FS_Subset
<1>4. Cardinality(A) \in Nat /\ Cardinality(B) \in Nat
  BY <1>2, <1>3, FS_CardinalityType
<1> QED
  BY <1>3, <1>4 DEF Past, A, B

\* A slot given to a caller that had none is one more.
LEMMA OneUsed ==
  ASSUME NEW S \in SUBSET Callers, IsFiniteSet(S), NEW c \in S,
         NEW w \in Marks, w[c] = Never, NEW t, t # Never
  PROVE  /\ Used(S, w, t) \in Nat
         /\ Used(S, [w EXCEPT ![c] = t], t) = Used(S, w, t) + 1
<1> DEFINE A == {d \in S : w[d] = t}
           B == {d \in S : [w EXCEPT ![c] = t][d] = t}
<1>1. A \in SUBSET S /\ c \notin A
  OBVIOUS
<1>2. B = A \cup {c}
  BY DEF Marks
<1> HIDE DEF A, B
<1>3. IsFiniteSet(A)
  BY <1>1, FS_Subset
<1>4. Cardinality(B) = Cardinality(A) + 1 /\ Cardinality(A) \in Nat
  BY <1>1, <1>2, <1>3, FS_AddElement, FS_CardinalityType
<1> QED
  BY <1>4 DEF Used, A, B

\* A full window that had not ended at u, and has at u2, adds its cap.
LEMMA PastAdds ==
  ASSUME NEW S \in SUBSET Callers, IsFiniteSet(S), NEW c, NEW w \in Marks,
         NEW t \in Nat, NEW u \in Int, NEW u2 \in Int,
         c \in Callers => w[c] = Never, u < t + Window, t + Window <= u2
  PROVE  /\ Past(S, c, w, u) \in Nat /\ Used(S, w, t) \in Nat /\ Past(S, c, w, u2) \in Nat
         /\ Past(S, c, w, u) + Used(S, w, t) <= Past(S, c, w, u2)
<1> DEFINE A == {d \in S \ {c} : w[d] # Never /\ w[d] + Window <= u}
           B == {d \in S : w[d] = t}
           C == {d \in S \ {c} : w[d] # Never /\ w[d] + Window <= u2}
<1>1. \A d \in S : w[d] \in Int
  BY DEF Marks, Never
<1>2. t # Never
  BY DEF Never
<1>3. A \in SUBSET S /\ B \in SUBSET S /\ C \in SUBSET S
  OBVIOUS
<1>4. A \cap B = {}
  <2>1. \A d \in A : w[d] # t
    BY <1>1, ConstantsAssumption
  <2> QED
    BY <2>1
<1>5. A \cup B \subseteq C
  <2>1. \A d \in A : d \in C
    BY <1>1, ConstantsAssumption
  <2>2. \A d \in B : d \in C
    BY <1>1, <1>2
  <2> QED
    BY <2>1, <2>2
<1> HIDE DEF A, B, C
<1>6. IsFiniteSet(A) /\ IsFiniteSet(B) /\ IsFiniteSet(C)
  BY <1>3, FS_Subset
<1>7. /\ Cardinality(A) \in Nat /\ Cardinality(B) \in Nat /\ Cardinality(C) \in Nat
      /\ Cardinality(A \cap B) = 0
  BY <1>4, <1>6, FS_CardinalityType, FS_EmptySet
<1>8. Cardinality(A \cup B) = Cardinality(A) + Cardinality(B)
  <2>1. Cardinality(A \cup B) = Cardinality(A) + Cardinality(B) - Cardinality(A \cap B)
    BY <1>6, FS_Union
  <2> QED
    BY <1>7, <2>1
<1>9. Cardinality(A \cup B) <= Cardinality(C)
  BY <1>5, <1>6, FS_Subset
<1> QED
  BY <1>7, <1>8, <1>9 DEF Past, Used, A, B, C

\* There are no more of them than other callers.
LEMMA PastRest ==
  ASSUME NEW S, NEW T, S \subseteq T, IsFiniteSet(T), NEW c \in T, NEW w, NEW t
  PROVE  Cardinality(T) \in Nat /\ Past(S, c, w, t) <= Cardinality(T) - 1 /\ Past(S, c, w, t) \in Nat
<1> DEFINE A == {d \in S \ {c} : w[d] # Never /\ w[d] + Window <= t}
<1>1. A \in SUBSET (T \ {c})
  OBVIOUS
<1> HIDE DEF A
<1>2. IsFiniteSet(T \ {c}) /\ Cardinality(T \ {c}) = Cardinality(T) - 1 /\ Cardinality(T) \in Nat
  BY FS_RemoveElement, FS_CardinalityType
<1>3. IsFiniteSet(A) /\ Cardinality(A) <= Cardinality(T \ {c})
  BY <1>1, <1>2, FS_Subset
<1>4. Cardinality(A) \in Nat
  BY <1>3, FS_CardinalityType
<1> QED
  BY <1>2, <1>3, <1>4 DEF Past, A

LEMMA CoversGrows ==
  ASSUME NEW S \in SUBSET Callers, NEW T \in SUBSET Callers, S \subseteq T, IsFiniteSet(T),
         NEW win \in Marks, NEW win2 \in Marks, Extends(win, win2),
         NEW fwin \in Marks, NEW fwin2 \in Marks, Extends(fwin, fwin2),
         NEW L \in Ledgers, Covers(S, L, win, fwin)
  PROVE  Covers(T, L, win2, fwin2)
<1>1. L.agg.count <= Used(T, win2, L.agg.start)
  <2>1. L.agg.start # Never /\ L.agg.count \in Nat
    BY DEF Ledgers, Windows, Never
  <2> QED
    BY <2>1, UsedGrows DEF Covers
<1>2. ASSUME NEW f \in Families, L.fam[f].window.count # 0
      PROVE  /\ L.fam[f].window.start # Never
             /\ L.fam[f].window.count <= Used(Kin(T, f), fwin2, L.fam[f].window.start)
  <2>1. Kin(S, f) \subseteq Kin(T, f) /\ Kin(T, f) \subseteq T
    BY DEF Kin
  <2>2. IsFiniteSet(Kin(T, f))
    BY KinOf
  <2>3. /\ L.fam[f].window.count \in Nat /\ L.fam[f].window.start # Never
        /\ L.fam[f].window.count <= Used(Kin(S, f), fwin, L.fam[f].window.start)
    BY <1>2 DEF Covers, Ledgers, FamilyStates, FamilyWindows
  <2>4. Used(Kin(S, f), fwin, L.fam[f].window.start) <= Used(Kin(T, f), fwin2, L.fam[f].window.start)
        /\ Used(Kin(S, f), fwin, L.fam[f].window.start) \in Nat
        /\ Used(Kin(T, f), fwin2, L.fam[f].window.start) \in Nat
    BY <2>1, <2>2, <2>3, UsedGrows
  <2> QED
    BY <2>3, <2>4
<1> QED
  BY <1>1, <1>2 DEF Covers

\* Windows that stay or restart are covered.
LEMMA CoversRolled ==
  ASSUME NEW S \in SUBSET Callers, IsFiniteSet(S), NEW win \in Marks, NEW fwin \in Marks,
         NEW L, NEW M \in Ledgers, Covers(S, L, win, fwin),
         M.agg.count = 0 \/ M.agg = L.agg,
         \A f \in Families : M.fam[f].window.count = 0 \/ M.fam[f].window = L.fam[f].window
  PROVE  Covers(S, M, win, fwin)
<1>1. M.agg.start # Never
  BY DEF Ledgers, Windows, Never
<1>2. Used(S, win, M.agg.start) \in Nat
  BY <1>1, UsedGrows DEF Extends
<1> QED
  BY <1>2 DEF Covers

LEMMA WaitedGrows ==
  ASSUME NEW S \in SUBSET Callers, NEW T \in SUBSET Callers, S \subseteq T, IsFiniteSet(T),
         NEW win \in Marks, NEW win2 \in Marks, Extends(win, win2),
         NEW fwin \in Marks, NEW fwin2 \in Marks, Extends(fwin, fwin2),
         NEW c, NEW n, NEW t \in Int, Waited(S, c, n, t, win, fwin)
  PROVE  Waited(T, c, n, t, win2, fwin2)
<1>1. PICK a \in Nat, b \in Nat :
        /\ n = a + b
        /\ AggregateCap * a <= Past(S, c, win, t)
        /\ HalvedCap * b <= Past(Kin(S, FamilyOf[c]), c, fwin, t)
  BY DEF Waited
<1>2. /\ Kin(S, FamilyOf[c]) \subseteq Kin(T, FamilyOf[c])
      /\ Kin(S, FamilyOf[c]) \in SUBSET Callers /\ Kin(T, FamilyOf[c]) \in SUBSET Callers
  BY DEF Kin
<1>3. IsFiniteSet(Kin(T, FamilyOf[c]))
  BY KinOf
<1>4. /\ Past(S, c, win, t) \in Nat /\ Past(T, c, win2, t) \in Nat
      /\ Past(S, c, win, t) <= Past(T, c, win2, t)
  BY PastGrows
<1>5. /\ Past(Kin(S, FamilyOf[c]), c, fwin, t) \in Nat /\ Past(Kin(T, FamilyOf[c]), c, fwin2, t) \in Nat
      /\ Past(Kin(S, FamilyOf[c]), c, fwin, t) <= Past(Kin(T, FamilyOf[c]), c, fwin2, t)
  <2> DEFINE K == Kin(S, FamilyOf[c])
             J == Kin(T, FamilyOf[c])
  <2>1. K \in SUBSET Callers /\ J \in SUBSET Callers /\ K \subseteq J /\ IsFiniteSet(J) /\ t <= t
    BY <1>2, <1>3
  <2> HIDE DEF K, J
  <2>2. Past(K, c, fwin, t) \in Nat /\ Past(J, c, fwin2, t) \in Nat
        /\ Past(K, c, fwin, t) <= Past(J, c, fwin2, t)
    BY <2>1, PastGrows
  <2> QED
    BY <2>2 DEF K, J
<1>6. AggregateCap * a \in Int /\ HalvedCap * b \in Int
  BY HalvedCapRange, ConstantsAssumption
<1>7. AggregateCap * a <= Past(T, c, win2, t)
  BY <1>1, <1>4, <1>6
<1>8. HalvedCap * b <= Past(Kin(T, FamilyOf[c]), c, fwin2, t)
  BY <1>1, <1>5, <1>6
<1> QED
  BY <1>1, <1>7, <1>8 DEF Waited

\* A denial by a full window that ends later than the last wait did.
LEMMA WaitedForAggregate ==
  ASSUME NEW S \in SUBSET Callers, IsFiniteSet(S), NEW win \in Marks, NEW fwin \in Marks,
         NEW c \in Callers, win[c] = Never, NEW n \in Nat, NEW u \in Int, NEW u2 \in Int,
         Waited(S, c, n, u, win, fwin), NEW t \in Nat, u < t + Window, t + Window <= u2,
         AggregateCap <= Used(S, win, t)
  PROVE  Waited(S, c, n + 1, u2, win, fwin)
<1>1. PICK a \in Nat, b \in Nat :
        /\ n = a + b
        /\ AggregateCap * a <= Past(S, c, win, u)
        /\ HalvedCap * b <= Past(Kin(S, FamilyOf[c]), c, fwin, u)
  BY DEF Waited
<1>2. /\ Past(S, c, win, u) \in Nat /\ Past(S, c, win, u2) \in Nat /\ Used(S, win, t) \in Nat
      /\ Past(S, c, win, u) + Used(S, win, t) <= Past(S, c, win, u2)
  BY PastAdds
<1>3. AggregateCap * (a + 1) = AggregateCap * a + AggregateCap /\ AggregateCap * a \in Int
  BY ConstantsAssumption
<1>4. AggregateCap * (a + 1) <= Past(S, c, win, u2)
  BY <1>1, <1>2, <1>3, ConstantsAssumption
<1>5. Waited(S, c, b, u2, win, fwin)
  <2>1. Kin(S, FamilyOf[c]) \in SUBSET Callers /\ IsFiniteSet(Kin(S, FamilyOf[c]))
    BY KinOf
  <2>2. /\ Past(Kin(S, FamilyOf[c]), c, fwin, u) \in Nat
        /\ Past(Kin(S, FamilyOf[c]), c, fwin, u2) \in Nat
        /\ Past(Kin(S, FamilyOf[c]), c, fwin, u) <= Past(Kin(S, FamilyOf[c]), c, fwin, u2)
    BY <2>1, PastGrows, ConstantsAssumption DEF Extends
  <2>3. HalvedCap * b \in Int
    BY HalvedCapRange, ConstantsAssumption
  <2>4. HalvedCap * b <= Past(Kin(S, FamilyOf[c]), c, fwin, u2)
    BY <1>1, <2>2, <2>3
  <2>5. AggregateCap * 0 <= Past(S, c, win, u2) /\ b = 0 + b
    BY <1>2, ConstantsAssumption
  <2> QED
    BY <2>4, <2>5 DEF Waited
<1>6. HalvedCap * b <= Past(Kin(S, FamilyOf[c]), c, fwin, u2)
  <2>1. Kin(S, FamilyOf[c]) \in SUBSET Callers /\ IsFiniteSet(Kin(S, FamilyOf[c]))
    BY KinOf
  <2>2. /\ Past(Kin(S, FamilyOf[c]), c, fwin, u) \in Nat
        /\ Past(Kin(S, FamilyOf[c]), c, fwin, u2) \in Nat
        /\ Past(Kin(S, FamilyOf[c]), c, fwin, u) <= Past(Kin(S, FamilyOf[c]), c, fwin, u2)
    BY <2>1, PastGrows, ConstantsAssumption DEF Extends
  <2>3. HalvedCap * b \in Int
    BY HalvedCapRange, ConstantsAssumption
  <2> QED
    BY <1>1, <2>2, <2>3
<1>7. n + 1 = (a + 1) + b /\ a + 1 \in Nat
  BY <1>1
<1> QED
  BY <1>4, <1>6, <1>7 DEF Waited

LEMMA WaitedForFamily ==
  ASSUME NEW S \in SUBSET Callers, IsFiniteSet(S), NEW win \in Marks, NEW fwin \in Marks,
         NEW c \in Callers, fwin[c] = Never, NEW n \in Nat, NEW u \in Int, NEW u2 \in Int,
         Waited(S, c, n, u, win, fwin), NEW t \in Nat, u < t + Window, t + Window <= u2,
         HalvedCap <= Used(Kin(S, FamilyOf[c]), fwin, t)
  PROVE  Waited(S, c, n + 1, u2, win, fwin)
<1>1. PICK a \in Nat, b \in Nat :
        /\ n = a + b
        /\ AggregateCap * a <= Past(S, c, win, u)
        /\ HalvedCap * b <= Past(Kin(S, FamilyOf[c]), c, fwin, u)
  BY DEF Waited
<1>2. Kin(S, FamilyOf[c]) \in SUBSET Callers /\ IsFiniteSet(Kin(S, FamilyOf[c]))
  BY KinOf
<1>3. /\ Past(Kin(S, FamilyOf[c]), c, fwin, u) \in Nat
      /\ Past(Kin(S, FamilyOf[c]), c, fwin, u2) \in Nat
      /\ Used(Kin(S, FamilyOf[c]), fwin, t) \in Nat
      /\ Past(Kin(S, FamilyOf[c]), c, fwin, u) + Used(Kin(S, FamilyOf[c]), fwin, t)
           <= Past(Kin(S, FamilyOf[c]), c, fwin, u2)
  BY <1>2, PastAdds
<1>4. HalvedCap \in Nat /\ HalvedCap * (b + 1) = HalvedCap * b + HalvedCap /\ HalvedCap * b \in Int
  <2>1. HalvedCap \in Nat
    BY HalvedCapRange, ConstantsAssumption
  <2> HIDE DEF HalvedCap
  <2> QED
    BY <2>1
<1>5. HalvedCap * (b + 1) <= Past(Kin(S, FamilyOf[c]), c, fwin, u2)
  BY <1>1, <1>3, <1>4
<1>6. AggregateCap * a <= Past(S, c, win, u2)
  <2>1. Past(S, c, win, u) \in Nat /\ Past(S, c, win, u2) \in Nat
        /\ Past(S, c, win, u) <= Past(S, c, win, u2)
    BY PastGrows, ConstantsAssumption DEF Extends
  <2>2. AggregateCap * a \in Int
    BY ConstantsAssumption
  <2> QED
    BY <1>1, <2>1, <2>2
<1>7. n + 1 = a + (b + 1) /\ b + 1 \in Nat
  BY <1>1
<1> QED
  BY <1>5, <1>6, <1>7 DEF Waited

-----------------------------------------------------------------------------
(* The invariant of the callers. *)

Places == {"idle", "checking", "asleep", "cleared", "open", "reporting"} \cup Finished

GuardTypeOK ==
  /\ pc \in [Callers -> Places]
  /\ attempt \in [Callers -> Nat]
  /\ wakeAt \in [Callers -> Nat]
  /\ serving \in Callers \cup {NoCaller}
  /\ IsFiniteSet(Started)

\* The reply in flight, if it denies, is about a window that is full and ends
\* when the caller's wait will.
Full(c, w, cap) ==
  /\ cap <= w.count
  /\ wakeAt[c] < w.start + Window
  /\ w.start + Window <= now + reply.retryAfterMs
  /\ reply.retryAfterMs <= Window

Verdict(c) ==
  \/ pc[c] = "checking" /\ reply.verdict = "allowed"
  \/ pc[c] = "checking" /\ reply.verdict = "aggregate" /\ Full(c, ledger.agg, AggregateCap)
  \/ /\ pc[c] = "checking" /\ reply.verdict = "family"
     /\ Full(c, ledger.fam[FamilyOf[c]].window, HalvedCap)
  \/ pc[c] = "reporting" /\ reply.verdict = "ok"

InService ==
  /\ serving = NoCaller <=> stage = "idle"
  /\ \A c \in Callers : serving = c => Verdict(c)

\* A caller checks again only when its wait is over.
Ready == \A c \in Callers : pc[c] \in {"idle", "checking"} => wakeAt[c] <= now

Unspent(c) ==
  \/ pc[c] \in {"idle", "asleep"}
  \/ pc[c] = "checking" /\ (serving # c \/ reply.verdict # "allowed")

\* Slots can be attributed to callers so that what is counted, and what was
\* waited for, is theirs; a caller gets one.
Attributed(win, fwin) ==
  /\ \A c \in Callers : Unspent(c) => win[c] = Never /\ fwin[c] = Never
  /\ Covers(Started, ledger, win, fwin) /\ Covers(Started, stored, win, fwin)
  /\ \A c \in Callers : Waited(Started, c, attempt[c], wakeAt[c], win, fwin)

\* Whoever was refused was denied once more than it may wait.
TooMany(n) ==
  \E a, b \in Nat : /\ a + b > MaxPaceAttempts
                    /\ AggregateCap * a <= n
                    /\ HalvedCap * b <= n
RefusedForCause ==
  \A c \in Callers : pc[c] = "raised" => TooMany(Cardinality(Started) - 1)

GuardInv ==
  /\ GuardTypeOK /\ InService /\ Ready /\ RefusedForCause
  /\ \E win, fwin \in Marks : Attributed(win, fwin)

PlainCalls == \A c \in Callers : IdentityOf[c] = NoIdentity

Known == TypeOK /\ AccountingInv /\ GuardInv /\ PlainCalls

\* A ledger whose windows are another's, or restarted.
Rolled(M, L) ==
  /\ M.agg.count = 0 \/ M.agg = L.agg
  /\ \A f \in Families : M.fam[f].window.count = 0 \/ M.fam[f].window = L.fam[f].window

LEMMA StartedGrows ==
  ASSUME GuardTypeOK, NEW c \in Callers, NEW to, to # "idle", pc' = [pc EXCEPT ![c] = to]
  PROVE  /\ Started' = Started \cup {c} /\ Started' \subseteq Callers
         /\ IsFiniteSet(Started)'
<1>1. Started' = Started \cup {c} /\ Started' \subseteq Callers
  BY DEF GuardTypeOK, Started
<1>2. IsFiniteSet(Started \cup {c})
  BY FS_AddElement DEF GuardTypeOK
<1> QED
  BY <1>1, <1>2

LEMMA TooManyStays ==
  ASSUME NEW n \in Int, NEW m \in Int, n <= m, TooMany(n)
  PROVE  TooMany(m)
<1>1. PICK a \in Nat, b \in Nat : /\ a + b > MaxPaceAttempts
                                 /\ AggregateCap * a <= n
                                 /\ HalvedCap * b <= n
  BY DEF TooMany
<1>2. AggregateCap * a \in Int /\ HalvedCap * b \in Int
  BY HalvedCapRange, ConstantsAssumption
<1> QED
  BY <1>1, <1>2 DEF TooMany

LEMMA RefusedStays ==
  ASSUME GuardInv, Started \subseteq Started', IsFiniteSet(Started)',
         \A c \in Callers : pc'[c] = "raised" => pc[c] = "raised"
  PROVE  RefusedForCause'
<1>1. /\ IsFiniteSet(Started) /\ IsFiniteSet(Started')
      /\ Cardinality(Started) \in Nat /\ Cardinality(Started') \in Nat
  BY FS_CardinalityType DEF GuardInv, GuardTypeOK
<1>2. Cardinality(Started) <= Cardinality(Started')
  BY <1>1, FS_Subset
<1>3. TooMany(Cardinality(Started) - 1) => TooMany(Cardinality(Started') - 1)
  BY <1>1, <1>2, TooManyStays
<1>4. TooMany(Cardinality(Started) - 1)' <=> TooMany(Cardinality(Started') - 1)
  BY DEF TooMany
<1> QED
  BY <1>3, <1>4 DEF GuardInv, RefusedForCause

LEMMA CoversStay ==
  ASSUME NEW S \in SUBSET Callers, NEW T \in SUBSET Callers, S \subseteq T, IsFiniteSet(T),
         NEW win \in Marks, NEW fwin \in Marks,
         NEW L \in Ledgers, NEW M \in Ledgers, Covers(S, L, win, fwin), Rolled(M, L)
  PROVE  Covers(T, M, win, fwin)
<1>1. Covers(T, L, win, fwin)
  BY CoversGrows DEF Extends
<1> QED
  BY <1>1, CoversRolled DEF Rolled

\* Nobody gets a slot or has waited.
LEMMA AttributedStays ==
  ASSUME TypeOK, TypeOK', GuardInv, Started \subseteq Started', Started' \subseteq Callers,
         IsFiniteSet(Started'), UNCHANGED <<attempt, wakeAt>>,
         \A c \in Callers : Unspent(c)' => Unspent(c),
         Rolled(ledger', ledger) \/ Rolled(ledger', stored),
         Rolled(stored', ledger) \/ Rolled(stored', stored),
         NEW win \in Marks, NEW fwin \in Marks, Attributed(win, fwin)
  PROVE  \E w, fw \in Marks : Attributed(w, fw)'
<1>1. Covers(Started', ledger', win, fwin) /\ Covers(Started', stored', win, fwin)
  BY CoversStay DEF Attributed, TypeOK, Started
<1>2. \A c \in Callers : Waited(Started', c, attempt[c], wakeAt[c], win, fwin)
  <2>1. \A c \in Callers : wakeAt[c] \in Int /\ Waited(Started, c, attempt[c], wakeAt[c], win, fwin)
    BY DEF GuardInv, GuardTypeOK, Attributed
  <2> QED
    BY <2>1, WaitedGrows DEF Started, Extends
<1>3. Covers(Started, ledger, win, fwin)' /\ Covers(Started, stored, win, fwin)'
  BY <1>1
<1>4. \A c \in Callers : Waited(Started, c, attempt[c], wakeAt[c], win, fwin)'
  BY <1>2
<1>5. Attributed(win, fwin)'
  BY <1>3, <1>4 DEF Attributed
<1> QED
  BY <1>5

LEMMA AtCheck ==
  ASSUME TypeOK, AccountingInv, NEW f \in Families
  PROVE  /\ AggAtCheck \in Windows /\ FamAtCheck(f) \in Windows
         /\ AggAtCheck.count = 0 \/ AggAtCheck = ledger.agg
         /\ FamAtCheck(f).count = 0 \/ FamAtCheck(f) = ledger.fam[f].window
         /\ AggAtCheck.start <= now /\ now < AggAtCheck.start + Window
         /\ FamAtCheck(f).start <= now /\ now < FamAtCheck(f).start + Window
<1>1. /\ ledger.agg \in Windows /\ ledger.agg.start <= now /\ now \in Nat
      /\ ledger.fam[f].window \in FamilyWindows /\ ledger.fam[f].window.start <= now
  BY DEF TypeOK, Ledgers, FamilyStates, AccountingInv, WithinBudget
<1>2. AggAtCheck.start <= now /\ now < AggAtCheck.start + Window
  BY <1>1, ConstantsAssumption DEF AggAtCheck, RollWindow, FreshWindow, Windows
<1>3. FamAtCheck(f).start <= now /\ now < FamAtCheck(f).start + Window
  BY <1>1, ConstantsAssumption
     DEF FamAtCheck, GetFamily, RollWindow, FreshWindow, FamilyWindows, Never
<1> QED
  BY <1>2, <1>3, AggAtCheckType, FamAtCheckType

\* The parts of the invariant that a check does not put at risk.
LEMMA CheckKeeps ==
  ASSUME Known, NEW c \in Callers, serving = NoCaller, serving' = c, pc[c] \in {"idle", "checking"},
         pc' = [pc EXCEPT ![c] = "checking"], UNCHANGED <<now, attempt, wakeAt>>
  PROVE  /\ GuardTypeOK' /\ Ready' /\ RefusedForCause'
         /\ Started \subseteq Started' /\ Started' \subseteq Callers /\ IsFiniteSet(Started')
         /\ Started' = Started \cup {c}
<1>1. /\ Started' = Started \cup {c} /\ Started' \subseteq Callers /\ IsFiniteSet(Started)'
  BY StartedGrows DEF Known, GuardInv
<1>2. GuardTypeOK' /\ Ready'
  BY <1>1 DEF Known, GuardInv, GuardTypeOK, Ready, Places
<1>3. RefusedForCause'
  <2>1. \A d \in Callers : pc'[d] = "raised" => pc[d] = "raised"
    BY DEF Known, GuardInv, GuardTypeOK
  <2> QED
    BY <1>1, <2>1, RefusedStays DEF Known
<1> QED
  BY <1>1, <1>2, <1>3

LEMMA CheckDenies ==
  ASSUME Known, TypeOK', NEW c \in Callers, serving = NoCaller, serving' = c,
         pc[c] \in {"idle", "checking"}, pc' = [pc EXCEPT ![c] = "checking"],
         UNCHANGED <<attempt, wakeAt>>,
         DenyAggregate(FamilyOf[c], NoIdentity) \/ DenyFamily(FamilyOf[c], NoIdentity)
  PROVE  GuardInv'
<1> DEFINE f == FamilyOf[c]
<1>1. f \in Families /\ wakeAt[c] <= now /\ wakeAt[c] \in Nat /\ now \in Nat /\ pc'[c] = "checking"
  BY GuardAssumption DEF Known, GuardInv, GuardTypeOK, Ready, TypeOK
<1>2. /\ AggAtCheck \in Windows /\ FamAtCheck(f) \in Windows
      /\ AggAtCheck.count = 0 \/ AggAtCheck = ledger.agg
      /\ FamAtCheck(f).count = 0 \/ FamAtCheck(f) = ledger.fam[f].window
      /\ AggAtCheck.start <= now /\ now < AggAtCheck.start + Window
      /\ FamAtCheck(f).start <= now /\ now < FamAtCheck(f).start + Window
  BY <1>1, AtCheck DEF Known
<1>3. /\ stage' = "unsaved" /\ UNCHANGED <<now, stored>>
      /\ reply'.verdict \in {"aggregate", "family"}
  BY DEF DenyAggregate, DenyFamily, Answer, Denial, NoReply
<1>4. Rolled(ledger', ledger)
  <2>1. CASE DenyAggregate(f, NoIdentity)
    BY <1>2, <2>1 DEF DenyAggregate, Rolled
  <2>2. CASE DenyFamily(f, NoIdentity)
    <3>1. /\ ledger'.agg = AggAtCheck
          /\ ledger'.fam = [ledger.fam EXCEPT ![f] = WithFamilyWindow(@, FamAtCheck(f))]
      BY <2>2 DEF DenyFamily
    <3>2. \A g \in Families : ledger'.fam[g].window =
                                IF g = f THEN FamAtCheck(f) ELSE ledger.fam[g].window
      BY <3>1 DEF WithFamilyWindow, Known, TypeOK, Ledgers
    <3> QED
      BY <1>2, <3>1, <3>2 DEF Rolled
  <2> QED
    BY <2>1, <2>2
<1>5. Verdict(c)'
  <2>1. CASE DenyAggregate(f, NoIdentity)
    <3>1. /\ reply'.verdict = "aggregate" /\ reply'.retryAfterMs = Remaining(AggAtCheck)
          /\ ledger'.agg = AggAtCheck /\ AggregateCap <= AggAtCheck.count
      BY <1>2, <2>1, ConstantsAssumption DEF DenyAggregate, Answer, Denial, NoReply, Windows
    <3>2. Full(c, ledger.agg, AggregateCap)'
      BY <1>1, <1>2, <1>3, <3>1, ConstantsAssumption DEF Full, Remaining, AtLeast1, Windows
    <3> QED
      BY <1>1, <3>1, <3>2 DEF Verdict
  <2>2. CASE DenyFamily(f, NoIdentity)
    <3>1. /\ reply'.verdict = "family" /\ reply'.retryAfterMs = Remaining(FamAtCheck(f))
          /\ FamCap(f) <= FamAtCheck(f).count
          /\ ledger'.fam = [ledger.fam EXCEPT ![f] = WithFamilyWindow(@, FamAtCheck(f))]
      <4>1. FamCap(f) \in Int
        BY HalvedCapRange, ConstantsAssumption DEF FamCap, CapForFamily
      <4> QED
        BY <1>2, <2>2, <4>1 DEF DenyFamily, Answer, Denial, NoReply, Windows
    <3>2. ledger'.fam[f].window = FamAtCheck(f)
      BY <1>1, <3>1 DEF WithFamilyWindow, Known, TypeOK, Ledgers
    <3>3. HalvedCap <= FamAtCheck(f).count
      BY <1>2, <3>1, HalvedCapRange, ConstantsAssumption DEF FamCap, CapForFamily, Windows
    <3>4. Full(c, ledger.fam[f].window, HalvedCap)'
      BY <1>1, <1>2, <1>3, <3>1, <3>2, <3>3, ConstantsAssumption DEF Full, Remaining, AtLeast1, Windows
    <3> QED
      BY <1>1, <3>1, <3>4 DEF Verdict
  <2> QED
    BY <2>1, <2>2
<1>6. InService'
  BY <1>3, <1>5, GuardAssumption DEF InService
<1>7. /\ GuardTypeOK' /\ Ready' /\ RefusedForCause'
      /\ Started \subseteq Started' /\ Started' \subseteq Callers /\ IsFiniteSet(Started')
  BY <1>3, CheckKeeps
<1>8. \A d \in Callers : Unspent(d)' => Unspent(d)
  BY GuardAssumption DEF Unspent, Known, GuardInv, GuardTypeOK
<1>9. Rolled(stored', stored)
  BY <1>3 DEF Rolled
<1>10. \E w, fw \in Marks : Attributed(w, fw)'
  <2>1. PICK w \in Marks, fw \in Marks : Attributed(w, fw)
    BY DEF Known, GuardInv
  <2> QED
    BY <1>4, <1>7, <1>8, <1>9, <2>1, AttributedStays DEF Known
<1> QED
  BY <1>6, <1>7, <1>10 DEF GuardInv

\* One more slot, and it is the caller's.
LEMMA CoversGrant ==
  ASSUME NEW T \in SUBSET Callers, IsFiniteSet(T), NEW c \in T,
         NEW win \in Marks, NEW fwin \in Marks, win[c] = Never, fwin[c] = Never,
         NEW L \in Ledgers, NEW M \in Ledgers, Covers(T, L, win, fwin),
         NEW aw \in Windows, NEW fw \in Windows,
         aw.count = 0 \/ aw = L.agg, fw.count = 0 \/ fw = L.fam[FamilyOf[c]].window,
         M.agg = OneMore(aw),
         \A g \in Families : M.fam[g].window =
                               IF g = FamilyOf[c] THEN OneMore(fw) ELSE L.fam[g].window
  PROVE  Covers(T, M, [win EXCEPT ![c] = aw.start], [fwin EXCEPT ![c] = fw.start])
<1> DEFINE f == FamilyOf[c]
           win2 == [win EXCEPT ![c] = aw.start]
           fwin2 == [fwin EXCEPT ![c] = fw.start]
<1>1. /\ aw.start \in Nat /\ fw.start \in Nat /\ aw.start # Never /\ fw.start # Never
      /\ aw.count \in Nat /\ fw.count \in Nat /\ c \in Callers /\ f \in Families
  BY GuardAssumption DEF Windows, Never
<1>2. win2 \in Marks /\ fwin2 \in Marks /\ Extends(win, win2) /\ Extends(fwin, fwin2)
  BY <1>1 DEF Marks, Extends
<1>3. Covers(T, L, win2, fwin2)
  BY <1>2, CoversGrows
<1>4. /\ Used(T, win, aw.start) \in Nat
      /\ Used(T, win2, aw.start) = Used(T, win, aw.start) + 1
  BY <1>1, OneUsed
<1>5. aw.count <= Used(T, win, aw.start)
  BY <1>1, <1>4 DEF Covers
<1>6. M.agg.count <= Used(T, win2, M.agg.start)
  BY <1>1, <1>4, <1>5 DEF OneMore
<1>7. c \in Kin(T, f) /\ Kin(T, f) \in SUBSET Callers /\ IsFiniteSet(Kin(T, f))
  <2>1. IsFiniteSet(Kin(T, f))
    BY KinOf
  <2> QED
    BY <2>1 DEF Kin
<1>8. /\ Used(Kin(T, f), fwin, fw.start) \in Nat
      /\ Used(Kin(T, f), fwin2, fw.start) = Used(Kin(T, f), fwin, fw.start) + 1
  BY <1>1, <1>7, OneUsed
<1>9. fw.count <= Used(Kin(T, f), fwin, fw.start)
  BY <1>1, <1>8 DEF Covers
<1>10. M.fam[f].window = OneMore(fw) /\ M.fam[f].window.start # Never
  BY <1>1 DEF OneMore
<1>11. M.fam[f].window.count <= Used(Kin(T, f), fwin2, M.fam[f].window.start)
  BY <1>1, <1>8, <1>9, <1>10 DEF OneMore
<1>12. ASSUME NEW g \in Families
       PROVE  \/ M.fam[g].window.count = 0
              \/ /\ M.fam[g].window.start # Never
                 /\ M.fam[g].window.count <= Used(Kin(T, g), fwin2, M.fam[g].window.start)
  <2>1. CASE g = f
    BY <2>1, <1>10, <1>11
  <2>2. CASE g # f
    <3>1. M.fam[g].window = L.fam[g].window
      BY <2>2
    <3> HIDE DEF fwin2
    <3> QED
      BY <1>3, <3>1 DEF Covers
  <2> QED
    BY <2>1, <2>2
<1> HIDE DEF win2, fwin2
<1>13. Covers(T, M, win2, fwin2)
  BY <1>6, <1>12 DEF Covers
<1> QED
  BY <1>13 DEF win2, fwin2

LEMMA CheckGrants ==
  ASSUME Known, TypeOK', NEW c \in Callers, serving = NoCaller, serving' = c,
         pc[c] \in {"idle", "checking"}, pc' = [pc EXCEPT ![c] = "checking"],
         UNCHANGED <<attempt, wakeAt>>, Grant(FamilyOf[c], NoIdentity)
  PROVE  GuardInv'
<1> DEFINE f == FamilyOf[c]
           aw == AggAtCheck
           fw == FamAtCheck(f)
<1>1. f \in Families /\ pc'[c] = "checking" /\ c # NoCaller
  BY GuardAssumption DEF Known, GuardInv, GuardTypeOK
<1>2. /\ aw \in Windows /\ fw \in Windows
      /\ aw.count = 0 \/ aw = ledger.agg
      /\ fw.count = 0 \/ fw = ledger.fam[f].window
  BY <1>1, AtCheck DEF Known
<1>3. /\ stage' = "unsaved" /\ UNCHANGED <<now, stored>> /\ reply'.verdict = "allowed"
      /\ ledger'.agg = OneMore(aw)
      /\ ledger'.fam = [ledger.fam EXCEPT ![f] = WithFamilyWindow(@, OneMore(fw))]
  BY DEF Grant, Answer, NoReply, Charged
<1>4. \A g \in Families : ledger'.fam[g].window =
                            IF g = f THEN OneMore(fw) ELSE ledger.fam[g].window
  BY <1>3 DEF WithFamilyWindow, Known, TypeOK, Ledgers
<1>5. /\ GuardTypeOK' /\ Ready' /\ RefusedForCause'
      /\ Started \subseteq Started' /\ Started' \subseteq Callers /\ IsFiniteSet(Started')
      /\ c \in Started'
  BY <1>3, CheckKeeps
<1>6. InService'
  BY <1>1, <1>3 DEF InService, Verdict
<1>7. PICK win \in Marks, fwin \in Marks : Attributed(win, fwin)
  BY DEF Known, GuardInv
<1>8. Unspent(c) /\ win[c] = Never /\ fwin[c] = Never
  BY <1>1, <1>7 DEF Attributed, Unspent
<1>a. [win EXCEPT ![c] = aw.start] \in Marks /\ [fwin EXCEPT ![c] = fw.start] \in Marks
  BY <1>2 DEF Marks, Windows
<1>b. PICK win2 \in Marks, fwin2 \in Marks :
        win2 = [win EXCEPT ![c] = aw.start] /\ fwin2 = [fwin EXCEPT ![c] = fw.start]
  BY <1>a
<1>9. Extends(win, win2) /\ Extends(fwin, fwin2)
  BY <1>8, <1>b DEF Marks, Extends
<1>10. Started \in SUBSET Callers
  BY DEF Started
<1>11. Covers(Started', ledger', win2, fwin2)
  <2>1. Covers(Started', ledger, win, fwin)
    BY <1>5, <1>7, <1>10, CoversGrows DEF Attributed, Extends, Known, TypeOK
  <2> HIDE DEF aw, fw
  <2>2. ledger \in Ledgers /\ ledger' \in Ledgers
    BY DEF Known, TypeOK
  <2> QED
    BY <1>2, <1>3, <1>4, <1>5, <1>8, <1>b, <2>1, <2>2, CoversGrant
<1> HIDE DEF aw, fw
<1>12. Covers(Started', stored', win2, fwin2)
  <2>1. stored \in Ledgers /\ Covers(Started, stored, win, fwin)
    BY <1>7 DEF Attributed, Known, TypeOK
  <2>2. Covers(Started', stored, win2, fwin2)
    BY <1>5, <1>9, <1>10, <2>1, CoversGrows
  <2> QED
    BY <1>3, <2>2
<1>13. \A d \in Callers : Waited(Started', d, attempt[d], wakeAt[d], win2, fwin2)
  <2>1. \A d \in Callers : wakeAt[d] \in Int /\ Waited(Started, d, attempt[d], wakeAt[d], win, fwin)
    BY <1>7 DEF Known, GuardInv, GuardTypeOK, Attributed
  <2> QED
    BY <1>5, <1>9, <1>10, <2>1, WaitedGrows
<1>14. ASSUME NEW d \in Callers, Unspent(d)'
       PROVE  win2[d] = Never /\ fwin2[d] = Never
  <2>1. d # c
    BY <1>1, <1>3, <1>14 DEF Unspent
  <2>2. Unspent(d)
    BY <1>14, <2>1, GuardAssumption DEF Unspent, Known, GuardInv, GuardTypeOK
  <2>3. win[d] = Never /\ fwin[d] = Never
    BY <1>7, <2>2 DEF Attributed
  <2> QED
    BY <1>b, <2>1, <2>3 DEF Marks
<1>15. Attributed(win2, fwin2)'
  <2>1. Covers(Started, ledger, win2, fwin2)' /\ Covers(Started, stored, win2, fwin2)'
    BY <1>11, <1>12
  <2>2. \A d \in Callers : Waited(Started, d, attempt[d], wakeAt[d], win2, fwin2)'
    BY <1>13
  <2> QED
    BY <1>14, <2>1, <2>2 DEF Attributed
<1>16. \E w, u \in Marks : Attributed(w, u)'
  BY <1>15
<1> QED
  BY <1>5, <1>6, <1>16 DEF GuardInv

LEMMA CheckStep ==
  ASSUME Known, TypeOK', NEW c \in Callers, serving = NoCaller, serving' = c,
         pc[c] \in {"idle", "checking"}, pc' = [pc EXCEPT ![c] = "checking"],
         UNCHANGED <<attempt, wakeAt>>, Check(FamilyOf[c], IdentityOf[c])
  PROVE  GuardInv'
<1>1. IdentityOf[c] = NoIdentity
  BY DEF Known, PlainCalls
<1>2. ~DenySameReport(FamilyOf[c], NoIdentity)
  BY DEF DenySameReport, SeenRecently
<1> QED
  BY <1>1, <1>2, CheckDenies, CheckGrants DEF Check

LEMMA BackoffStep ==
  ASSUME Known, TypeOK', NEW c \in Callers, serving = NoCaller, serving' = c,
         pc[c] = "reporting", NEW r \in RetryAfters, ApplyBackoff(FamilyOf[c], r),
         UNCHANGED <<pc, attempt, wakeAt>>
  PROVE  GuardInv'
<1>1. /\ stage' = "unsaved" /\ UNCHANGED <<now, stored>> /\ reply'.verdict = "ok"
      /\ ledger'.agg = ledger.agg
      /\ ledger'.fam = [ledger.fam EXCEPT ![FamilyOf[c]] = Penalised(GetFamily(@, now), r)]
  BY DEF ApplyBackoff, Answer, NoReply
<1>2. Rolled(ledger', ledger) /\ Rolled(stored', stored)
  BY <1>1 DEF Rolled, Penalised, GetFamily, FreshWindow, Known, TypeOK, Ledgers
<1>3. Started' = Started /\ Started' \subseteq Callers /\ IsFiniteSet(Started')
  BY DEF Started, Known, GuardInv, GuardTypeOK
<1>4. GuardTypeOK' /\ Ready' /\ RefusedForCause'
  BY <1>1, <1>3, RefusedStays DEF Known, GuardInv, GuardTypeOK, Ready
<1>5. InService'
  BY <1>1, GuardAssumption DEF InService, Verdict
<1>6. \A d \in Callers : Unspent(d)' => Unspent(d)
  BY GuardAssumption DEF Unspent
<1>7. \E w, fw \in Marks : Attributed(w, fw)'
  <2>1. PICK w \in Marks, fw \in Marks : Attributed(w, fw)
    BY DEF Known, GuardInv
  <2> QED
    BY <1>2, <1>3, <1>6, <2>1, AttributedStays DEF Known
<1> QED
  BY <1>4, <1>5, <1>7 DEF GuardInv

\* A denial that is delivered is one more wait in full windows.
LEMMA Denied ==
  ASSUME Known, NEW c \in Callers, serving = c, reply.verdict \notin {"allowed", "ok"},
         NEW win \in Marks, NEW fwin \in Marks, Attributed(win, fwin),
         NEW u \in Int, now + reply.retryAfterMs <= u
  PROVE  Waited(Started, c, attempt[c] + 1, u, win, fwin)
<1>1. /\ IsFiniteSet(Started) /\ Started \in SUBSET Callers
      /\ attempt[c] \in Nat /\ wakeAt[c] \in Int /\ now \in Nat /\ reply.retryAfterMs \in Nat
      /\ FamilyOf[c] \in Families /\ ledger \in Ledgers
  BY GuardAssumption DEF Known, GuardInv, GuardTypeOK, TypeOK, Started
<1>2. Verdict(c) /\ pc[c] = "checking"
  BY DEF Known, GuardInv, InService, Verdict
<1>3. win[c] = Never /\ fwin[c] = Never
  BY <1>2 DEF Attributed, Unspent
<1>4. Waited(Started, c, attempt[c], wakeAt[c], win, fwin)
  BY DEF Attributed
<1>5. CASE reply.verdict = "aggregate"
  <2>1. Full(c, ledger.agg, AggregateCap)
    BY <1>2, <1>5 DEF Verdict
  <2>2. ledger.agg.start \in Nat /\ ledger.agg.count \in Nat
    BY <1>1 DEF Ledgers, Windows
  <2>3. Used(Started, win, ledger.agg.start) \in Nat
    BY <1>1, <2>2, UsedGrows DEF Extends, Never
  <2>4. AggregateCap <= Used(Started, win, ledger.agg.start)
    BY <2>1, <2>2, <2>3, ConstantsAssumption DEF Full, Attributed, Covers
  <2>5. wakeAt[c] < ledger.agg.start + Window /\ ledger.agg.start + Window <= u
    BY <1>1, <2>1, <2>2, ConstantsAssumption DEF Full
  <2> QED
    BY <1>1, <1>3, <1>4, <2>2, <2>4, <2>5, WaitedForAggregate
<1>6. CASE reply.verdict = "family"
  <2> DEFINE w == ledger.fam[FamilyOf[c]].window
             K == Kin(Started, FamilyOf[c])
  <2>1. Full(c, w, HalvedCap)
    BY <1>2, <1>6 DEF Verdict
  <2>2. w.start \in Nat \cup {Never} /\ w.count \in Nat
    BY <1>1 DEF Ledgers, FamilyStates, FamilyWindows
  <2>3. HalvedCap \in Nat /\ HalvedCap >= 1
    BY HalvedCapRange, ConstantsAssumption
  <2>4. HalvedCap <= w.count
    BY <2>1 DEF Full
  <2>5. w.start # Never /\ w.count <= Used(K, fwin, w.start)
    <3>1. w.count # 0
      BY <2>2, <2>3, <2>4
    <3> QED
      BY <1>1, <3>1 DEF Attributed, Covers
  <2>6. K \in SUBSET Callers /\ IsFiniteSet(K)
    <3>1. IsFiniteSet(K)
      BY <1>1, KinOf
    <3> QED
      BY <1>1, <3>1 DEF Kin
  <2>7. Used(K, fwin, w.start) \in Nat
    <3> HIDE DEF K, w
    <3> QED
      BY <2>5, <2>6, UsedGrows DEF Extends
  <2>8. HalvedCap <= Used(K, fwin, w.start)
    <3> HIDE DEF K, w
    <3> QED
      BY <2>2, <2>3, <2>4, <2>5, <2>7
  <2>9. wakeAt[c] < w.start + Window /\ w.start + Window <= u
    BY <1>1, <2>1, <2>2, <2>5, ConstantsAssumption DEF Full
  <2> QED
    BY <1>1, <1>3, <1>4, <2>2, <2>5, <2>8, <2>9, WaitedForFamily
<1> QED
  BY <1>2, <1>5, <1>6 DEF Verdict

\* Being delivered puts only the caller's own record at risk.
LEMMA DeliverKeeps ==
  ASSUME Known, NEW c \in Callers, serving = c, Reply, serving' = NoCaller,
         NEW to \in {"cleared", "asleep", "raised", "limited"}, pc' = [pc EXCEPT ![c] = to],
         to = "asleep" => reply.verdict \notin {"allowed", "ok"},
         attempt' \in [Callers -> Nat], wakeAt' \in [Callers -> Nat],
         \A d \in Callers \ {c} : wakeAt'[d] = wakeAt[d]
  PROVE  /\ GuardTypeOK' /\ InService' /\ Ready'
         /\ Started' = Started /\ Started' \subseteq Callers /\ IsFiniteSet(Started')
         /\ \A d \in Callers : Unspent(d)' => Unspent(d)
<1>1. stage' = "idle" /\ UNCHANGED <<now, ledger, stored>>
  BY DEF Reply
<1>2. pc[c] \in {"checking", "reporting"}
  BY DEF Known, GuardInv, InService, Verdict
<1>3. Started' = Started /\ Started' \subseteq Callers /\ IsFiniteSet(Started')
  BY <1>2 DEF Started, Known, GuardInv, GuardTypeOK
<1>4. GuardTypeOK' /\ Ready'
  BY <1>1, <1>3 DEF Known, GuardInv, GuardTypeOK, Ready, Places, Finished
<1>5. InService'
  BY <1>1, GuardAssumption DEF InService
<1>6. ASSUME NEW d \in Callers, Unspent(d)'
      PROVE  Unspent(d)
  <2>1. CASE d = c
    <3>1. pc'[c] = to /\ Verdict(c)
      BY DEF Known, GuardInv, GuardTypeOK, InService
    <3>2. to = "asleep"
      BY <1>6, <2>1, <3>1 DEF Unspent
    <3> QED
      BY <2>1, <3>1, <3>2 DEF Unspent, Verdict
  <2>2. CASE d # c
    BY <1>6, <2>2 DEF Unspent, Known, GuardInv, GuardTypeOK
  <2> QED
    BY <2>1, <2>2
<1> QED
  BY <1>3, <1>4, <1>5, <1>6

LEMMA PaceStep ==
  ASSUME Known, TypeOK', NEW c \in Callers, Reply, serving = c, serving' = NoCaller, Pace(c)
  PROVE  GuardInv'
<1>1. PICK j \in Jitters : wakeAt' = [wakeAt EXCEPT ![c] = now + reply.retryAfterMs + j]
  BY DEF Pace
<1>2. /\ pc' = [pc EXCEPT ![c] = "asleep"] /\ attempt' = [attempt EXCEPT ![c] = @ + 1]
      /\ reply.verdict \notin {"allowed", "ok"}
  BY DEF Pace, Go
<1>3. /\ j \in Nat /\ now \in Nat /\ reply.retryAfterMs \in Nat
      /\ attempt \in [Callers -> Nat] /\ wakeAt \in [Callers -> Nat]
  BY GuardAssumption DEF Known, GuardInv, GuardTypeOK, TypeOK
<1>4. attempt' \in [Callers -> Nat] /\ wakeAt' \in [Callers -> Nat]
  BY <1>1, <1>2, <1>3
<1>5. /\ GuardTypeOK' /\ InService' /\ Ready'
      /\ Started' = Started /\ Started' \subseteq Callers /\ IsFiniteSet(Started')
      /\ \A d \in Callers : Unspent(d)' => Unspent(d)
  BY <1>1, <1>2, <1>3, <1>4, DeliverKeeps
<1>6. RefusedForCause'
  <2>1. \A d \in Callers : pc'[d] = "raised" => pc[d] = "raised"
    BY <1>2 DEF Known, GuardInv, GuardTypeOK
  <2> QED
    BY <1>5, <2>1, RefusedStays DEF Known
<1>7. PICK win \in Marks, fwin \in Marks : Attributed(win, fwin)
  BY DEF Known, GuardInv
<1>8. \A d \in Callers : Waited(Started', d, attempt'[d], wakeAt'[d], win, fwin)
  <2>1. ASSUME NEW d \in Callers, d # c
        PROVE  Waited(Started', d, attempt'[d], wakeAt'[d], win, fwin)
    BY <1>1, <1>2, <1>3, <1>5, <1>7, <2>1 DEF Attributed
  <2>2. /\ attempt'[c] = attempt[c] + 1 /\ wakeAt'[c] = now + reply.retryAfterMs + j
        /\ now + reply.retryAfterMs + j \in Int
        /\ now + reply.retryAfterMs <= now + reply.retryAfterMs + j
    BY <1>1, <1>2, <1>3
  <2>3. Waited(Started, c, attempt[c] + 1, now + reply.retryAfterMs + j, win, fwin)
    BY <1>2, <1>7, <2>2, Denied
  <2> QED
    BY <1>5, <2>1, <2>2, <2>3
<1>9. Attributed(win, fwin)'
  <2>1. Covers(Started, ledger, win, fwin)' /\ Covers(Started, stored, win, fwin)'
    BY <1>5, <1>7 DEF Reply, Attributed
  <2>2. \A d \in Callers : Waited(Started, d, attempt[d], wakeAt[d], win, fwin)'
    BY <1>8
  <2> QED
    BY <1>5, <1>7, <2>1, <2>2 DEF Attributed
<1>10. \E w, fw \in Marks : Attributed(w, fw)'
  BY <1>9
<1> QED
  BY <1>5, <1>6, <1>10 DEF GuardInv

LEMMA RaisedForCause ==
  ASSUME Known, NEW c \in Callers, serving = c, Raise(c)
  PROVE  TooMany(Cardinality(Started) - 1)
<1> DEFINE u == now + reply.retryAfterMs
           K == Kin(Started, FamilyOf[c])
<1>1. PICK win \in Marks, fwin \in Marks : Attributed(win, fwin)
  BY DEF Known, GuardInv
<1>2. u \in Int /\ u <= u
  BY DEF Known, TypeOK
<1>3. Waited(Started, c, attempt[c] + 1, u, win, fwin)
  BY <1>1, <1>2, Denied DEF Raise
<1>4. PICK a \in Nat, b \in Nat :
        /\ attempt[c] + 1 = a + b
        /\ AggregateCap * a <= Past(Started, c, win, u)
        /\ HalvedCap * b <= Past(K, c, fwin, u)
  BY <1>3 DEF Waited
<1>5. pc[c] = "checking" /\ c \in Started /\ IsFiniteSet(Started) /\ K \subseteq Started
  BY DEF Known, GuardInv, InService, Verdict, Raise, GuardTypeOK, Started, Kin
<1>6. attempt[c] + 1 > MaxPaceAttempts
  <2>1. reply.verdict # "same_report_within_window" /\ reply.retryAfterMs <= Window
    BY DEF Known, GuardInv, InService, Verdict, Full, Raise
  <2>2. reply.retryAfterMs \in Nat /\ attempt[c] \in Nat
    BY DEF Known, GuardInv, GuardTypeOK, TypeOK
  <2>3. reply.retryAfterMs <= MaxPaceWait
    BY <2>1, <2>2, GuardAssumption, ConstantsAssumption
  <2> QED
    BY <2>1, <2>2, <2>3, GuardAssumption DEF Raise, Paceable
<1> HIDE DEF u, K
<1>7. /\ Cardinality(Started) \in Nat
      /\ Past(Started, c, win, u) \in Nat /\ Past(Started, c, win, u) <= Cardinality(Started) - 1
      /\ Past(K, c, fwin, u) \in Nat /\ Past(K, c, fwin, u) <= Cardinality(Started) - 1
  BY <1>5, PastRest
<1>8. AggregateCap * a \in Int /\ HalvedCap * b \in Int
  BY HalvedCapRange, ConstantsAssumption
<1>9. AggregateCap * a <= Cardinality(Started) - 1 /\ HalvedCap * b <= Cardinality(Started) - 1
  BY <1>4, <1>7, <1>8
<1>10. a + b > MaxPaceAttempts
  BY <1>4, <1>6
<1> QED
  BY <1>9, <1>10 DEF TooMany

LEMMA DeliverStep ==
  ASSUME Known, TypeOK', NEW c \in Callers, Deliver(c)
  PROVE  GuardInv'
<1>1. Reply /\ serving = c /\ serving' = NoCaller /\ UNCHANGED <<now, ledger, stored>>
  BY DEF Deliver, Reply
<1>2. CASE Pace(c)
  BY <1>1, <1>2, PaceStep
<1>3. CASE Allowed(c) \/ Raise(c) \/ Reported(c)
  <2>1. PICK to \in {"cleared", "raised", "limited"} :
          /\ pc' = [pc EXCEPT ![c] = to] /\ UNCHANGED <<attempt, wakeAt>>
          /\ to = "raised" => Raise(c)
    BY <1>3 DEF Allowed, Raise, Reported, Go
  <2>2. attempt' \in [Callers -> Nat] /\ wakeAt' \in [Callers -> Nat]
    BY <2>1 DEF Known, GuardInv, GuardTypeOK
  <2>3. /\ GuardTypeOK' /\ InService' /\ Ready'
        /\ Started' = Started /\ Started' \subseteq Callers /\ IsFiniteSet(Started')
        /\ \A d \in Callers : Unspent(d)' => Unspent(d)
    BY <1>1, <2>1, <2>2, DeliverKeeps
  <2>4. RefusedForCause'
    <3>1. CASE to = "raised"
      <4>1. TooMany(Cardinality(Started) - 1)
        BY <1>1, <2>1, <3>1, RaisedForCause
      <4>2. TooMany(Cardinality(Started) - 1)'
        BY <2>3, <4>1 DEF TooMany
      <4> QED
        BY <4>2 DEF RefusedForCause
    <3>2. CASE to # "raised"
      <4>1. \A d \in Callers : pc'[d] = "raised" => pc[d] = "raised"
        BY <2>1, <3>2 DEF Known, GuardInv, GuardTypeOK
      <4> QED
        BY <2>3, <4>1, RefusedStays DEF Known
    <3> QED
      BY <3>1, <3>2
  <2>5. Rolled(ledger', ledger) /\ Rolled(stored', stored)
    BY <1>1 DEF Rolled
  <2>6. \E w, fw \in Marks : Attributed(w, fw)'
    <3>1. PICK w \in Marks, fw \in Marks : Attributed(w, fw)
      BY DEF Known, GuardInv
    <3> QED
      BY <2>1, <2>3, <2>5, <3>1, AttributedStays DEF Known
  <2> QED
    BY <2>3, <2>4, <2>6 DEF GuardInv
<1> QED
  BY <1>2, <1>3 DEF Deliver

\* The object's own steps.
LEMMA PersistStep ==
  ASSUME Known, TypeOK', Persist
  PROVE  GuardInv'
<1>1. /\ stage = "unsaved" /\ stage' = "saved" /\ stored' = ledger
      /\ UNCHANGED <<now, ledger, reply, pc, attempt, wakeAt, serving>>
  BY DEF Persist, PersistState, guardVars
<1>2. Started' = Started /\ Started' \subseteq Callers /\ IsFiniteSet(Started')
  BY <1>1 DEF Started, Known, GuardInv, GuardTypeOK
<1>3. GuardTypeOK' /\ Ready' /\ InService'
  BY <1>1, <1>2
     DEF Known, GuardInv, GuardTypeOK, Ready, InService, Verdict, Full
<1>4. RefusedForCause'
  BY <1>1, <1>2, RefusedStays DEF Known
<1>5. \A d \in Callers : Unspent(d)' => Unspent(d)
  BY <1>1 DEF Unspent
<1>6. Rolled(ledger', ledger) /\ Rolled(stored', ledger)
  BY <1>1 DEF Rolled
<1>7. \E w, fw \in Marks : Attributed(w, fw)'
  <2>1. PICK w \in Marks, fw \in Marks : Attributed(w, fw)
    BY DEF Known, GuardInv
  <2> QED
    BY <1>1, <1>2, <1>5, <1>6, <2>1, AttributedStays DEF Known
<1> QED
  BY <1>3, <1>4, <1>7 DEF GuardInv

LEMMA EvictRolls ==
  ASSUME Evict
  PROVE  /\ UNCHANGED <<now, stored>> /\ stage' = "idle"
         /\ Rolled(ledger', stored) /\ Rolled(stored', stored)
<1>1. UNCHANGED <<now, stored>> /\ stage' = "idle"
  BY DEF Evict
<1>2. Rolled(NewLedger(now), stored)
  BY DEF Rolled, NewLedger, FreshWindow
<1>3. Rolled(stored, stored)
  BY DEF Rolled
<1> QED
  BY <1>1, <1>2, <1>3 DEF Evict

\* A caller moves, and nothing else does.
LEMMA MovesAlone ==
  ASSUME Known, TypeOK', NEW c \in Callers, serving # c,
         NEW to \in Places \ {"idle", "raised"}, pc' = [pc EXCEPT ![c] = to],
         UNCHANGED <<now, ledger, stored, stage, reply, attempt, wakeAt, serving>>,
         to = "asleep" => Unspent(c),
         to = "checking" => Unspent(c) /\ wakeAt[c] <= now
  PROVE  GuardInv'
<1>1. /\ Started' = Started \cup {c} /\ Started' \subseteq Callers /\ IsFiniteSet(Started)'
  BY StartedGrows DEF Known, GuardInv
<1>2. GuardTypeOK' /\ Ready'
  BY <1>1 DEF Known, GuardInv, GuardTypeOK, Ready
<1>3. InService'
  BY DEF Known, GuardInv, GuardTypeOK, InService, Verdict, Full
<1>4. RefusedForCause'
  <2>1. \A d \in Callers : pc'[d] = "raised" => pc[d] = "raised"
    BY DEF Known, GuardInv, GuardTypeOK
  <2> QED
    BY <1>1, <2>1, RefusedStays DEF Known
<1>5. \A d \in Callers : Unspent(d)' => Unspent(d)
  BY DEF Unspent, Known, GuardInv, GuardTypeOK
<1>6. Rolled(ledger', ledger) /\ Rolled(stored', stored)
  BY DEF Rolled
<1>7. \E w, fw \in Marks : Attributed(w, fw)'
  <2>1. PICK w \in Marks, fw \in Marks : Attributed(w, fw)
    BY DEF Known, GuardInv
  <2> QED
    BY <1>1, <1>5, <1>6, <2>1, AttributedStays DEF Known
<1> QED
  BY <1>2, <1>3, <1>4, <1>7 DEF GuardInv

LEMMA EvictServingStep ==
  ASSUME Known, TypeOK', NEW c \in Callers, EvictWhileServing(c)
  PROVE  GuardInv'
<1>1. PICK to \in {"open", "limited"} : pc' = [pc EXCEPT ![c] = to]
  BY DEF EvictWhileServing, Exception, Go
<1>2. /\ serving = c /\ serving' = NoCaller /\ stage' = "idle"
      /\ UNCHANGED <<now, stored, attempt, wakeAt>>
      /\ Rolled(ledger', stored) /\ Rolled(stored', stored)
  BY EvictRolls DEF EvictWhileServing
<1>3. /\ Started' = Started \cup {c} /\ Started' \subseteq Callers /\ IsFiniteSet(Started)'
  BY <1>1, StartedGrows DEF Known, GuardInv
<1>4. GuardTypeOK' /\ Ready'
  BY <1>1, <1>2, <1>3 DEF Known, GuardInv, GuardTypeOK, Ready, Places, Finished
<1>5. InService'
  BY <1>2, GuardAssumption DEF InService
<1>6. RefusedForCause'
  <2>1. \A d \in Callers : pc'[d] = "raised" => pc[d] = "raised"
    BY <1>1 DEF Known, GuardInv, GuardTypeOK
  <2> QED
    BY <1>3, <2>1, RefusedStays DEF Known
<1>7. \A d \in Callers : Unspent(d)' => Unspent(d)
  BY <1>1, <1>2 DEF Unspent, Known, GuardInv, GuardTypeOK
<1>8. \E w, fw \in Marks : Attributed(w, fw)'
  <2>1. PICK w \in Marks, fw \in Marks : Attributed(w, fw)
    BY DEF Known, GuardInv
  <2> QED
    BY <1>2, <1>3, <1>7, <2>1, AttributedStays DEF Known
<1> QED
  BY <1>4, <1>5, <1>6, <1>8 DEF GuardInv

\* The clock, an eviction while nobody is served, and stuttering.
LEMMA BesidesCallers ==
  ASSUME Known, TypeOK', EvictIdle \/ Pass \/ UNCHANGED allVars
  PROVE  GuardInv'
<1>1. UNCHANGED <<pc, attempt, wakeAt, serving>>
  BY DEF EvictIdle, Pass, guardVars, allVars
<1>2. Started' = Started /\ Started' \subseteq Callers /\ IsFiniteSet(Started')
  BY <1>1 DEF Started, Known, GuardInv, GuardTypeOK
<1>3. now' \in Nat /\ now \in Nat /\ now <= now' /\ reply.retryAfterMs \in Nat
  BY DEF EvictIdle, Evict, Pass, Tick, allVars, vars, Known, TypeOK
<1>4. GuardTypeOK' /\ Ready'
  BY <1>1, <1>2, <1>3 DEF Known, GuardInv, GuardTypeOK, Ready
<1>5. InService'
  <2>1. CASE EvictIdle
    BY <1>1, <2>1, EvictRolls, GuardAssumption DEF EvictIdle, Known, GuardInv, InService
  <2>2. CASE UNCHANGED <<ledger, stage, reply>>
    <3>1. ASSUME NEW c \in Callers, serving = c
          PROVE  Verdict(c)'
      <4>1. Verdict(c) /\ FamilyOf[c] \in Families
        BY <3>1, GuardAssumption DEF Known, GuardInv, InService
      <4>2. ledger.agg.start \in Int /\ ledger.fam[FamilyOf[c]].window.start \in Int
        BY <4>1 DEF Known, TypeOK, Ledgers, Windows, FamilyStates, FamilyWindows, Never
      <4> QED
        BY <1>1, <1>3, <2>2, <4>1, <4>2, ConstantsAssumption DEF Verdict, Full
    <3> QED
      BY <1>1, <2>2, <3>1 DEF Known, GuardInv, InService
  <2> QED
    BY <2>1, <2>2 DEF Pass, Tick, allVars, vars
<1>6. RefusedForCause'
  BY <1>1, <1>2, RefusedStays DEF Known
<1>7. \A d \in Callers : Unspent(d)' => Unspent(d)
  BY <1>1, GuardAssumption DEF Unspent, EvictIdle, Pass, Tick, allVars, vars
<1>8. (Rolled(ledger', ledger) \/ Rolled(ledger', stored)) /\ Rolled(stored', stored)
  <2>1. CASE EvictIdle
    BY <2>1, EvictRolls DEF EvictIdle
  <2>2. CASE UNCHANGED <<ledger, stored>>
    BY <2>2 DEF Rolled
  <2> QED
    BY <2>1, <2>2 DEF Pass, Tick, allVars, vars
<1>9. \E w, fw \in Marks : Attributed(w, fw)'
  <2>1. PICK w \in Marks, fw \in Marks : Attributed(w, fw)
    BY DEF Known, GuardInv
  <2> QED
    BY <1>1, <1>2, <1>7, <1>8, <2>1, AttributedStays DEF Known
<1> QED
  BY <1>4, <1>5, <1>6, <1>9 DEF GuardInv

LEMMA GuardStep ==
  ASSUME Known, TypeOK', [GuardNext]_allVars
  PROVE  GuardInv'
<1>1. ASSUME NEW c \in Callers, Start(c) PROVE GuardInv'
  BY <1>1, CheckStep DEF Start, Go
<1>2. ASSUME NEW c \in Callers, Serve(c) PROVE GuardInv'
  <2>1. CASE pc[c] = "checking" /\ Check(FamilyOf[c], IdentityOf[c])
    <3>1. pc' = [pc EXCEPT ![c] = "checking"]
      BY <1>2, <2>1 DEF Serve, Known, GuardInv, GuardTypeOK
    <3> QED
      BY <1>2, <2>1, <3>1, CheckStep DEF Serve
  <2>2. ASSUME NEW r \in RetryAfters, pc[c] = "reporting", ApplyBackoff(FamilyOf[c], r)
        PROVE  GuardInv'
    BY <1>2, <2>2, BackoffStep DEF Serve
  <2> QED
    BY <1>2, <2>1, <2>2 DEF Serve
<1>3. ASSUME NEW c \in Callers, Deliver(c) PROVE GuardInv'
  BY <1>3, DeliverStep
<1>4. ASSUME NEW c \in Callers, Wake(c) \/ CallServiceTitan(c) \/ Unreachable(c) PROVE GuardInv'
  <2>1. PICK to \in Places \ {"idle", "raised", "asleep"} :
          /\ pc' = [pc EXCEPT ![c] = to]
          /\ to = "checking" => pc[c] = "asleep" /\ wakeAt[c] <= now
    <3>1. now \in Nat /\ wakeAt[c] \in Nat
      BY DEF Known, GuardInv, GuardTypeOK, TypeOK
    <3> QED
      BY <1>4, <3>1 DEF Wake, CallServiceTitan, Unreachable, Exception, Go, Places, Finished
  <2>2. serving # c
    BY <1>4 DEF Wake, CallServiceTitan, Unreachable, Known, GuardInv, InService, Verdict
  <2>3. UNCHANGED <<now, ledger, stored, stage, reply, attempt, wakeAt, serving>>
    BY <1>4 DEF Wake, CallServiceTitan, Unreachable, vars
  <2>4. to = "checking" => Unspent(c)
    BY <2>1 DEF Unspent
  <2> QED
    BY <2>1, <2>2, <2>3, <2>4, MovesAlone
<1>5. ASSUME NEW c \in Callers, EvictWhileServing(c) PROVE GuardInv'
  BY <1>5, EvictServingStep
<1>6. CASE Persist
  BY <1>6, PersistStep
<1>7. CASE EvictIdle \/ Pass \/ UNCHANGED allVars
  BY <1>7, BesidesCallers
<1> QED
  BY <1>1, <1>2, <1>3, <1>4, <1>5, <1>6, <1>7 DEF GuardNext, Step

LEMMA GuardStarts ==
  ASSUME GuardInit PROVE GuardInv
<1>1. Started = {}
  BY DEF GuardInit, Started
<1>2. GuardTypeOK /\ Ready /\ RefusedForCause
  BY <1>1, FS_EmptySet DEF GuardInit, Init, GuardTypeOK, Ready, RefusedForCause, Places
<1>3. InService
  BY GuardAssumption DEF GuardInit, Init, InService
<1> DEFINE none == [c \in Callers |-> Never]
<1>4. none \in Marks
  BY DEF Marks
<1>5. Covers({}, NewLedger(0), none, none)
  <2>1. Used({}, none, 0) \in Nat
    BY <1>4, FS_EmptySet, UsedGrows DEF Extends, Never
  <2> QED
    BY <2>1 DEF Covers, NewLedger, FreshWindow
<1>6. ASSUME NEW c \in Callers PROVE Waited({}, c, 0, 0, none, none)
  <2>1. Past({}, c, none, 0) \in Nat /\ Kin({}, FamilyOf[c]) = {}
    BY <1>4, FS_EmptySet, PastGrows DEF Extends, Kin
  <2>2. AggregateCap * 0 = 0 /\ HalvedCap * 0 = 0 /\ 0 = 0 + 0
    BY HalvedCapRange, ConstantsAssumption
  <2> HIDE DEF none
  <2> QED
    BY <2>1, <2>2 DEF Waited
<1>7. Attributed(none, none)
  BY <1>1, <1>5, <1>6 DEF Attributed, GuardInit, Init
<1> QED
  BY <1>2, <1>3, <1>4, <1>7 DEF GuardInv

-----------------------------------------------------------------------------
\* The callers use the object as it is specified: every theorem about it holds
\* of them and it together.
THEOREM GuardUsesLimiter == GuardSpec => Spec
<1>1. GuardInit => Init
  BY DEF GuardInit
<1>2. [GuardNext]_allVars => [Next]_vars
  <2> SUFFICES ASSUME GuardNext PROVE [Next]_vars
    BY DEF allVars
  <2>1. \A c \in Callers : FamilyOf[c] \in Families /\ IdentityOf[c] \in Identities \cup {NoIdentity}
    BY GuardAssumption
  <2>2. ASSUME NEW c \in Callers, Start(c) \/ Serve(c) PROVE Next
    BY <2>1, <2>2 DEF Start, Serve, Next
  <2>3. ASSUME NEW c \in Callers, Deliver(c) \/ EvictWhileServing(c) PROVE Next
    BY <2>3 DEF Deliver, EvictWhileServing, Next
  <2>4. ASSUME NEW c \in Callers, Wake(c) \/ CallServiceTitan(c) \/ Unreachable(c) PROVE UNCHANGED vars
    BY <2>4 DEF Wake, CallServiceTitan, Unreachable
  <2>5. Persist \/ EvictIdle \/ Pass => Next
    BY DEF Persist, EvictIdle, Pass, Next
  <2> QED
    BY <2>2, <2>3, <2>4, <2>5 DEF GuardNext, Step
<1> QED
  BY <1>1, <1>2, PTL DEF GuardSpec, Spec

\* The callers' slots and waits can be attributed: nobody waits but for full
\* windows of other callers' slots, one window a wait.
THEOREM WaitsAreEarned == GuardSpec => [](PlainCalls => GuardInv)
<1>1. GuardInit => (PlainCalls => GuardInv)
  BY GuardStarts
<1>2. TypeOK /\ TypeOK' /\ AccountingInv /\ (PlainCalls => GuardInv) /\ [GuardNext]_allVars
        => (PlainCalls => GuardInv)'
  BY GuardStep DEF Known, PlainCalls
<1> QED
  BY <1>1, <1>2, GuardUsesLimiter, TypeCorrect, Accounting, PTL DEF GuardSpec

LEMMA Multiples ==
  ASSUME NEW k \in Nat \ {0}, NEW a \in Nat, NEW n \in Int, k * a <= n
  PROVE  a <= n \div k
  OBVIOUS

\* "a SHORT budget denial is waited out, not raised": while the callers that
\* have started are too few to fill a window for each wait and the last try,
\* nobody is refused, penalties and evictions included.
THEOREM FanOutIsAbsorbed == GuardSpec => []FanOutAbsorbed
<1>1. (PlainCalls => GuardInv) => FanOutAbsorbed
  <2> DEFINE n == Cardinality(Started) - 1
  <2> SUFFICES ASSUME GuardInv, (n \div HalvedCap) + (n \div AggregateCap) <= MaxPaceAttempts,
                      NEW c \in Callers, pc[c] = "raised"
               PROVE  FALSE
    BY DEF FanOutAbsorbed, PlainCalls, Started
  <2>1. n \in Int
    BY FS_CardinalityType DEF GuardInv, GuardTypeOK
  <2>2. PICK a \in Nat, b \in Nat : a + b > MaxPaceAttempts /\ AggregateCap * a <= n /\ HalvedCap * b <= n
    BY DEF GuardInv, RefusedForCause, TooMany
  <2>3. AggregateCap \in Nat \ {0} /\ HalvedCap \in Nat \ {0} /\ MaxPaceAttempts \in Nat
    BY HalvedCapRange, ConstantsAssumption, GuardAssumption
  <2> HIDE DEF n
  <2>4. a <= n \div AggregateCap /\ b <= n \div HalvedCap
    BY <2>1, <2>2, <2>3, Multiples
  <2>5. n \div AggregateCap \in Int /\ n \div HalvedCap \in Int
    BY <2>1, <2>3
  <2> QED
    BY <2>2, <2>3, <2>4, <2>5
<1> QED
  BY <1>1, WaitsAreEarned, PTL
=============================================================================
