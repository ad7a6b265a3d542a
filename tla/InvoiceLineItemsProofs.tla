----------------------- MODULE InvoiceLineItemsProofs -----------------------
(* Proofs about InvoiceLineItems: what "verified" vouches for, when lag     *)
(* raises no alarm and what the errors name, for any plan and any invoice.  *)
EXTENDS InvoiceLineItems, FiniteSetTheorems, TLAPS

Stopped == {"partial", "thrown"}
Alarms == {"silent_noop", "amount_mismatch", "update_mismatch"}
Ended == Alarms \cup {"verified", "verify_unavailable"}

TypeOK ==
  /\ plan \in Plans
  /\ pc \in {"reading", "writing", "verifying"} \cup Stopped \cup Ended
  /\ next \in 1..Len(plan) + 1
  /\ {invoice, replica, baseline, observed} \subseteq Invoices
  /\ maker \in [Ids -> 0..Len(plan)]
  /\ attempt \in Nat /\ others \in 0..MaxOthers

(* The PATCHes sent so far, the one that failed included. *)
Tried == IF pc \in Stopped THEN next ELSE next - 1

Progress ==
  /\ pc = "reading" => next = 1
  /\ pc \in {"writing"} \cup Stopped => next <= Len(plan)
  /\ pc \in {"verifying"} \cup Ended => next = Len(plan) + 1

(* Each PATCH and each other writer adds one item at most. *)
Room == Cardinality(Present(invoice)) <= Cardinality(Present(Before)) + others + Tried

Grows == Present(Before) \cup Present(baseline) \subseteq Present(invoice)

(* An item the call created was on no row before, and is its line's only one. *)
Makers ==
  \A i \in Ids : maker[i] # 0 =>
    /\ i \in Present(invoice) /\ i \notin Present(Before) \cup Present(baseline)
    /\ maker[i] \in Appends /\ maker[i] <= Tried
    /\ \A j \in Ids : maker[j] = maker[i] => j = i

(* A row that was read shows items of the invoice; created ones do not change. *)
Shows(row) ==
  /\ Present(row) \subseteq Present(invoice)
  /\ \A i \in Present(row) : maker[i] # 0 => row[i] = invoice[i]

(* When nobody else writes, what is new is the call's. *)
Alone ==
  others = 0 =>
    /\ pc = "reading" => invoice = Before /\ replica = Before
    /\ pc # "reading" => baseline = Before
    /\ \A i \in Present(invoice) : i \in Present(Before) \/ maker[i] # 0

(* An item that was there shows its old amount or its present one. *)
OldOrNew ==
  UpdatesTell =>
    \A i \in Present(Before) :
      /\ replica[i] \in {Before[i], invoice[i]}
      /\ observed[i] \in {Before[i], invoice[i], Absent}
      /\ (\A k \in Updates : plan[k].id = i => Tried < k) => invoice[i] = Before[i]

(* A row without the last line's item may be late; one with it is not. *)
Lag ==
  others = 0 /\ plan[Len(plan)].id = NoId =>
    replica = invoice \/ \A i \in Present(replica) : maker[i] # Len(plan)

Counted(row) == Cardinality(NewItems(row)) = Cardinality(Appends)

Judged ==
  /\ pc = "verified" => /\ Counted(observed) /\ AppendedTotalMatches(observed)
                        /\ \A k \in Updates : UpdateLanded(observed, plan[k])
  /\ pc = "silent_noop" => ~Counted(observed)
  /\ pc = "amount_mismatch" => ~AppendedTotalMatches(observed) /\ named = NewItems(observed)
  /\ pc = "update_mismatch" => \E k \in Updates : ~UpdateLanded(observed, plan[k])
  /\ pc \in {"partial", "silent_noop"} => ComparedWithBaseline \subseteq named

(* A verdict that is not one of lag is on the invoice as it is. *)
Timely ==
  /\ pc \in Alarms /\ others = 0 /\ plan[Len(plan)].id = NoId
  /\ ~missed /\ CaughtUpBy <= Attempts
  => observed = invoice

LineInv ==
  /\ TypeOK /\ Progress /\ Room /\ Grows /\ Makers /\ Shows(replica) /\ Shows(observed)
  /\ Alone /\ OldOrNew /\ Lag /\ Judged /\ Timely

-----------------------------------------------------------------------------
(* Lines and items. *)

LEMMA Items ==
  ASSUME NEW row
  PROVE  Present(row) \subseteq Ids /\ IsFiniteSet(Present(row)) /\ Cardinality(Present(row)) \in Nat
<1>1. Present(row) \in SUBSET Ids /\ IsFiniteSet(Ids)
  BY LineItemsAssumption DEF Present
<1>2. IsFiniteSet(Present(row))
  BY <1>1, FS_Subset
<1> QED
  BY <1>1, <1>2, FS_CardinalityType

LEMMA LinesOf ==
  ASSUME TypeOK
  PROVE  /\ Len(plan) \in Nat \ {0} /\ next \in Nat /\ MaxOthers \in Nat /\ others \in Nat
         /\ \A k \in 1..Len(plan) : IsLine(plan[k])
         /\ Appends \subseteq 1..Len(plan) /\ Updates \subseteq 1..Len(plan)
         /\ Appends \cup Updates = 1..Len(plan)
         /\ Tried \in Nat
<1>1. /\ Len(plan) \in Nat \ {0} /\ \A k \in 1..Len(plan) : IsLine(plan[k])
      /\ MaxOthers \in Nat /\ next \in 1..Len(plan) + 1 /\ others \in 0..MaxOthers
  BY LineItemsAssumption DEF TypeOK
<1>2. next \in Nat \ {0} /\ others \in Nat
  BY <1>1
<1>3. Tried \in Nat
  BY <1>2 DEF Tried
<1> QED
  BY <1>1, <1>2, <1>3 DEF Appends, Updates

(* The invoice has room for one more item. *)
LEMMA Free ==
  ASSUME LineInv, pc = "writing" \/ (pc \in {"reading", "verifying"} /\ others < MaxOthers)
  PROVE  FreeId \in Ids /\ invoice[FreeId] = Absent
<1>1. /\ Len(plan) \in Nat \ {0} /\ MaxOthers \in Nat /\ next \in 1..Len(plan) + 1
      /\ others \in 0..MaxOthers
      /\ Cardinality(Present(Before)) + Len(plan) + MaxOthers <= Cardinality(Ids)
  BY LineItemsAssumption DEF LineInv, TypeOK
<1>2. Cardinality(Present(invoice)) <= Cardinality(Present(Before)) + others + (next - 1)
  <2>1. Tried = next - 1
    BY DEF Tried, Stopped
  <2> QED
    BY <2>1 DEF LineInv, Room
<1>3. pc = "writing" => next <= Len(plan)
  BY DEF LineInv, Progress
<1>4. others < MaxOthers \/ next <= Len(plan)
  BY <1>3
<1>5. /\ Cardinality(Present(Before)) \in Nat /\ Cardinality(Present(invoice)) \in Nat
      /\ Cardinality(Ids) \in Nat
  BY Items, LineItemsAssumption, FS_CardinalityType
<1>6. Cardinality(Present(invoice)) < Cardinality(Ids)
  BY <1>1, <1>2, <1>4, <1>5
<1>7. Present(invoice) # Ids
  BY <1>5, <1>6
<1>8. \E i \in Ids : invoice[i] = Absent
  BY <1>7 DEF Present
<1> QED
  BY <1>8 DEF FreeId

(* What a PATCH of the next line may leave. *)
LEMMA NextLine ==
  ASSUME LineInv, pc = "writing"
  PROVE  /\ next \in 1..Len(plan) /\ Tried = next - 1
         /\ Line.id \in Present(Before) \cup {NoId}
         /\ Line.id = NoId => next \in Appends
         /\ Line.id # NoId => next \in Updates
         /\ AmountsKept \subseteq Amounts
<1>1. next \in 1..Len(plan)
  <2>1. next \in 1..Len(plan) + 1 /\ next <= Len(plan) /\ Len(plan) \in Nat
    BY LinesOf DEF LineInv, TypeOK, Progress
  <2> QED
    BY <2>1
<1>2. IsLine(Line)
  BY <1>1, LinesOf DEF LineInv, Line
<1>3. Tried = next - 1
  BY DEF Tried, Stopped
<1>4. AmountsKept \subseteq Amounts
  <2> DEFINE old == IF Line.id = NoId THEN [price |-> 0, cost |-> 0] ELSE invoice[Line.id]
  <2>1. old \in Amounts
    <3>1. CASE Line.id = NoId
      BY <3>1 DEF Amounts
    <3>2. CASE Line.id # NoId
      <4>1. Line.id \in Present(invoice) /\ invoice \in Invoices
        BY <1>2, <3>2 DEF IsLine, LineInv, Grows, TypeOK
      <4> QED
        BY <3>2, <4>1 DEF Present, Invoices
    <3> QED
      BY <3>1, <3>2
  <2>2. AmountsKept = [price : Kept(Line.price, old.price), cost : Kept(Line.cost, old.cost)]
    BY DEF AmountsKept
  <2> HIDE DEF old
  <2>3. Kept(Line.price, old.price) \subseteq Int
    BY <1>2, <2>1 DEF IsLine, Kept, Amounts
  <2>4. Kept(Line.cost, old.cost) \subseteq Int
    BY <1>2, <2>1 DEF IsLine, Kept, Amounts
  <2> QED
    BY <2>2, <2>3, <2>4 DEF Amounts
<1> QED
  BY <1>1, <1>2, <1>3, <1>4 DEF IsLine, Appends, Updates, Line

-----------------------------------------------------------------------------
(* The invariant, action by action. *)

OnInvoice ==
  Room /\ Grows /\ Makers /\ Shows(replica) /\ Shows(observed) /\ Alone /\ OldOrNew /\ Lag

LEMMA NothingPresent == Nothing \in Invoices /\ Present(Nothing) = {}
  BY DEF Nothing, Present, Invoices

LEMMA LineInit == Init => LineInv
<1> SUFFICES ASSUME Init PROVE LineInv
  OBVIOUS
<1>1. TypeOK
  <2>1. maker \in [Ids -> 0..Len(plan)] /\ next \in 1..Len(plan) + 1
    BY LineItemsAssumption DEF Init
  <2>2. 0 \in 0..MaxOthers
    BY LineItemsAssumption
  <2> QED
    BY <2>1, <2>2, NothingPresent, LineItemsAssumption DEF Init, TypeOK
<1>2. Tried = 0
  BY DEF Init, Tried, Stopped
<1>3. Room
  BY <1>2, Items DEF Init, Room
<1>4. Grows /\ Makers /\ Shows(replica) /\ Shows(observed)
  BY NothingPresent DEF Init, Grows, Makers, Shows
<1>5. Alone /\ Lag
  BY DEF Init, Alone, Lag
<1>6. OldOrNew
  BY DEF Init, OldOrNew, Nothing, Present
<1>7. Progress /\ Judged /\ Timely
  BY DEF Init, Progress, Judged, Timely, Stopped, Ended, Alarms
<1> QED
  BY <1>1, <1>3, <1>4, <1>5, <1>6, <1>7 DEF LineInv

LEMMA PatchDropped ==
  ASSUME LineInv, pc = "writing", pc' # "reading", Tried' = next, Dropped,
         UNCHANGED <<plan, baseline, replica, observed, others>>
  PROVE  invoice' \in Invoices /\ maker' \in [Ids -> 0..Len(plan)] /\ OnInvoice'
<1>1. Tried = next - 1 /\ next \in Nat /\ others \in Nat
  BY NextLine, LinesOf DEF LineInv
<1>2. invoice' = invoice /\ maker' = maker /\ TypeOK
  BY DEF Dropped, LineInv
<1>3. Room'
  <2>1. Cardinality(Present(Before)) \in Nat /\ Cardinality(Present(invoice)) \in Nat
    BY Items
  <2> QED
    BY <1>1, <1>2, <2>1 DEF LineInv, Room
<1>4. Makers'
  <2>1. \A n \in Nat : n <= Tried => n <= Tried'
    BY <1>1
  <2>2. \A i \in Ids : maker[i] \in Nat
    BY <1>2, LinesOf DEF TypeOK
  <2> QED
    BY <1>2, <2>1, <2>2 DEF LineInv, Makers, Appends
<1>5. OldOrNew'
  <2>1. \A k \in Updates : Tried' < k => Tried < k
    BY <1>1, <1>2, LinesOf
  <2>2. UpdatesTell' = UpdatesTell /\ Updates' = Updates
    BY DEF UpdatesTell, Updates, Sent
  <2> QED
    BY <1>2, <2>1, <2>2 DEF LineInv, OldOrNew
<1>6. Grows' /\ Shows(replica)' /\ Shows(observed)' /\ Alone' /\ Lag'
  BY <1>2 DEF LineInv, Grows, Shows, Alone, Lag
<1> QED
  BY <1>2, <1>3, <1>4, <1>5, <1>6 DEF TypeOK, OnInvoice

LEMMA PatchCreated ==
  ASSUME LineInv, pc = "writing", pc' # "reading", Tried' = next,
         NEW amounts \in AmountsKept, Created(amounts),
         UNCHANGED <<plan, baseline, replica, observed, others>>
  PROVE  invoice' \in Invoices /\ maker' \in [Ids -> 0..Len(plan)] /\ OnInvoice'
<1> DEFINE id == FreeId
<1>1. /\ Tried = next - 1 /\ next \in 1..Len(plan) /\ others \in Nat /\ Len(plan) \in Nat
      /\ next \in Appends /\ amounts \in Amounts /\ TypeOK
  BY NextLine, LinesOf DEF LineInv, Created
<1>2. id \in Ids /\ invoice[id] = Absent
  BY Free
<1> HIDE DEF id
<1>3. /\ invoice' = [invoice EXCEPT ![id] = amounts] /\ maker' = [maker EXCEPT ![id] = next]
      /\ invoice \in Invoices /\ maker \in [Ids -> 0..Len(plan)]
  BY <1>1 DEF Created, id, TypeOK
<1>4. /\ invoice' \in Invoices /\ maker' \in [Ids -> 0..Len(plan)]
      /\ invoice'[id] = amounts /\ maker'[id] = next
      /\ \A i \in Ids \ {id} : invoice'[i] = invoice[i] /\ maker'[i] = maker[i]
  BY <1>1, <1>2, <1>3 DEF Invoices
<1>5. Present(invoice)' = Present(invoice) \cup {id} /\ id \notin Present(invoice)
  BY <1>1, <1>2, <1>4, LineItemsAssumption DEF Present
<1>6. Room'
  <2>1. /\ Cardinality(Present(Before)) \in Nat /\ Cardinality(Present(invoice)) \in Nat
        /\ IsFiniteSet(Present(invoice))
    BY Items
  <2>2. Cardinality(Present(invoice)') = Cardinality(Present(invoice)) + 1
    BY <1>5, <2>1, FS_AddElement
  <2> QED
    BY <1>1, <2>1, <2>2 DEF LineInv, Room
<1>7. Grows'
  BY <1>5 DEF LineInv, Grows
<1>8. \A i \in Ids : maker[i] \in Nat /\ (maker[i] # 0 => i \in Present(invoice) /\ maker[i] <= next - 1)
  BY <1>1, <1>3 DEF LineInv, Makers
<1>9. \A i \in Ids : maker[i] < next /\ maker[i] # next
  BY <1>1, <1>8
<1>10. Makers'
  <2> SUFFICES ASSUME NEW i \in Ids, maker'[i] # 0
               PROVE  /\ i \in Present(invoice)' /\ i \notin Present(Before) \cup Present(baseline)
                      /\ maker'[i] \in Appends /\ maker'[i] <= next
                      /\ \A j \in Ids : maker'[j] = maker'[i] => j = i
    BY DEF Makers, Appends
  <2>1. CASE i = id
    <3>1. i \notin Present(Before) \cup Present(baseline)
      BY <1>5, <2>1 DEF LineInv, Grows
    <3> QED
      BY <1>1, <1>4, <1>5, <1>9, <2>1, <3>1
  <2>2. CASE i # id
    <3>1. /\ i \in Present(invoice) /\ i \notin Present(Before) \cup Present(baseline)
          /\ maker[i] \in Appends /\ maker[i] = maker'[i]
          /\ \A j \in Ids : maker[j] = maker[i] => j = i
      BY <1>4, <2>2 DEF LineInv, Makers
    <3>2. maker[i] <= next
      BY <1>1, <1>8, <1>9
    <3> QED
      BY <1>4, <1>5, <1>9, <3>1, <3>2
  <2> QED
    BY <2>1, <2>2
<1>11. ASSUME NEW row, Shows(row) PROVE \A i \in Present(row) : maker'[i] = maker[i] /\ invoice'[i] = invoice[i]
  BY <1>4, <1>5, <1>11, Items DEF Shows
<1>12. Shows(replica)' /\ Shows(observed)'
  <2>1. Shows(replica) /\ Shows(observed)
    BY DEF LineInv
  <2> QED
    BY <1>5, <1>11, <2>1 DEF Shows
<1>13. Alone'
  BY <1>1, <1>4, <1>5, Items DEF LineInv, Alone
<1>14. OldOrNew'
  <2>1. \A k \in Updates : Tried' < k => Tried < k
    BY <1>1, LinesOf
  <2>2. UpdatesTell' = UpdatesTell /\ Updates' = Updates
    BY DEF UpdatesTell, Updates, Sent
  <2>3. \A i \in Present(Before) : invoice'[i] = invoice[i]
    BY <1>4, <1>5, Items DEF LineInv, Grows
  <2> QED
    BY <2>1, <2>2, <2>3 DEF LineInv, OldOrNew
<1>15. Lag'
  <2>1. \A i \in Present(replica) : maker'[i] # Len(plan)
    <3>1. \A i \in Present(replica) : i \in Ids /\ maker'[i] = maker[i]
      BY <1>11, Items DEF LineInv
    <3>2. \A i \in Ids : maker[i] # Len(plan)
      BY <1>1, <1>8, <1>9
    <3> QED
      BY <3>1, <3>2
  <2> QED
    BY <2>1 DEF Lag
<1> QED
  BY <1>4, <1>6, <1>7, <1>10, <1>12, <1>13, <1>14, <1>15 DEF OnInvoice

LEMMA PatchChanged ==
  ASSUME LineInv, pc = "writing", pc' # "reading", Tried' = next,
         NEW amounts \in AmountsKept, Changed(amounts),
         UNCHANGED <<plan, baseline, replica, observed, others>>
  PROVE  invoice' \in Invoices /\ maker' \in [Ids -> 0..Len(plan)] /\ OnInvoice'
<1> DEFINE id == Line.id
<1>1. /\ Tried = next - 1 /\ next \in 1..Len(plan) /\ others \in Nat /\ Len(plan) \in Nat
      /\ next \in Updates /\ amounts \in Amounts /\ TypeOK /\ id \in Present(Before)
  BY NextLine, LinesOf DEF LineInv, Changed
<1>2. id \in Ids /\ id \in Present(invoice) /\ plan[next].id = id
  BY <1>1, Items DEF LineInv, Grows, Line
<1> HIDE DEF id
<1>3. /\ invoice' = [invoice EXCEPT ![id] = amounts] /\ maker' = maker
      /\ invoice \in Invoices /\ maker \in [Ids -> 0..Len(plan)]
  BY <1>1 DEF Changed, id, TypeOK
<1>4. /\ invoice' \in Invoices /\ invoice'[id] = amounts
      /\ \A i \in Ids \ {id} : invoice'[i] = invoice[i]
  BY <1>1, <1>2, <1>3 DEF Invoices
<1>5. Present(invoice)' = Present(invoice)
  BY <1>1, <1>2, <1>4, LineItemsAssumption DEF Present
<1>6. Room'
  <2>1. Cardinality(Present(Before)) \in Nat /\ Cardinality(Present(invoice)) \in Nat
    BY Items
  <2> QED
    BY <1>1, <1>5, <2>1 DEF LineInv, Room
<1>7. \A i \in Ids : maker[i] \in Nat /\ (maker[i] # 0 => maker[i] <= next - 1)
  BY <1>1, <1>3 DEF LineInv, Makers
<1>8. Makers'
  <2>1. \A i \in Ids : maker[i] <= Tried' \/ maker[i] = 0
    BY <1>1, <1>7
  <2> QED
    BY <1>3, <1>5, <2>1 DEF LineInv, Makers, Appends
<1>9. maker[id] = 0
  BY <1>1, <1>2 DEF LineInv, Makers
<1>10. Shows(replica)' /\ Shows(observed)'
  <2>1. Shows(replica) /\ Shows(observed)
    BY DEF LineInv
  <2> QED
    BY <1>3, <1>4, <1>5, <1>9, <2>1, Items DEF Shows
<1>11. OldOrNew'
  <2>1. UpdatesTell' = UpdatesTell /\ Updates' = Updates
    BY DEF UpdatesTell, Updates, Sent
  <2> SUFFICES ASSUME UpdatesTell, NEW i \in Present(Before)
               PROVE  /\ replica[i] \in {Before[i], invoice'[i]}
                      /\ observed[i] \in {Before[i], invoice'[i], Absent}
                      /\ (\A k \in Updates : plan[k].id = i => next < k) => invoice'[i] = Before[i]
    BY <2>1 DEF OldOrNew
  <2>2. /\ replica[i] \in {Before[i], invoice[i]}
        /\ observed[i] \in {Before[i], invoice[i], Absent}
        /\ (\A k \in Updates : plan[k].id = i => Tried < k) => invoice[i] = Before[i]
    BY DEF LineInv, OldOrNew
  <2>3. CASE i = id
    <3>1. \A k \in Updates : plan[k].id = id => k = next
      BY <1>1, <1>2 DEF UpdatesTell
    <3>2. Tried < next /\ ~(next < next)
      BY <1>1
    <3>3. invoice[i] = Before[i]
      BY <2>2, <2>3, <3>1, <3>2
    <3>4. ~\A k \in Updates : plan[k].id = i => next < k
      BY <1>1, <1>2, <2>3, <3>2
    <3> QED
      BY <2>2, <3>3, <3>4
  <2>4. CASE i # id
    <3>1. \A k \in Updates : next < k => Tried < k
      BY <1>1, LinesOf
    <3>2. invoice'[i] = invoice[i]
      BY <1>4, <2>4, Items
    <3> QED
      BY <2>2, <3>1, <3>2
  <2> QED
    BY <2>3, <2>4
<1>12. Lag'
  <2>1. \A i \in Ids : maker[i] # Len(plan)
    BY <1>1, <1>7
  <2>2. \A i \in Present(replica) : maker'[i] # Len(plan)
    BY <1>3, <2>1, Items
  <2> QED
    BY <2>2 DEF Lag
<1>13. Grows' /\ Alone'
  BY <1>3, <1>5 DEF LineInv, Grows, Alone
<1> QED
  BY <1>3, <1>4, <1>6, <1>8, <1>10, <1>11, <1>12, <1>13 DEF OnInvoice

LEMMA Patched ==
  ASSUME LineInv, pc = "writing", pc' # "reading", Tried' = next, MaybeApplied,
         UNCHANGED <<plan, baseline, replica, observed, others>>
  PROVE  invoice' \in Invoices /\ maker' \in [Ids -> 0..Len(plan)] /\ OnInvoice'
  BY PatchDropped, PatchCreated, PatchChanged DEF MaybeApplied

LEMMA ReadBaselineStep == LineInv /\ ReadBaseline => LineInv'
<1> SUFFICES ASSUME LineInv, ReadBaseline PROVE LineInv'
  OBVIOUS
<1>1. Tried = 0 /\ Tried' = 0 /\ TypeOK
  BY DEF LineInv, Progress, ReadBaseline, Tried, Stopped
<1>2. \A i \in Ids : maker[i] = 0
  <2>1. \A i \in Ids : maker[i] \in Nat
    BY LinesOf DEF LineInv, TypeOK
  <2> QED
    BY <1>1, <2>1 DEF LineInv, Makers
<1>3. TypeOK'
  BY <1>1 DEF TypeOK, ReadBaseline, Stopped, readVars
<1>4. Progress'
  BY <1>1, LinesOf DEF LineInv, Progress, ReadBaseline, Stopped, Ended, Alarms
<1>5. Room'
  BY <1>1 DEF LineInv, Room, ReadBaseline
<1>6. Grows' /\ Makers' /\ Shows(replica)' /\ Shows(observed)'
  BY <1>2 DEF LineInv, Grows, Makers, Shows, ReadBaseline, readVars
<1>7. Alone' /\ Lag'
  BY DEF LineInv, Alone, Lag, ReadBaseline
<1>8. OldOrNew'
  <2>1. UpdatesTell' = UpdatesTell /\ Updates' = Updates
    BY DEF UpdatesTell, Updates, Sent, ReadBaseline
  <2> QED
    BY <1>1, <2>1 DEF LineInv, OldOrNew, ReadBaseline, readVars
<1>9. Judged' /\ Timely'
  BY DEF ReadBaseline, Judged, Timely, Alarms
<1> QED
  BY <1>3, <1>4, <1>5, <1>6, <1>7, <1>8, <1>9 DEF LineInv

LEMMA PatchOkStep == LineInv /\ PatchOk => LineInv'
<1> SUFFICES ASSUME LineInv, PatchOk PROVE LineInv'
  OBVIOUS
<1>1. /\ TypeOK /\ next \in 1..Len(plan) /\ Len(plan) \in Nat \ {0}
      /\ pc' \in {"writing", "verifying"} /\ next' = next + 1
  BY NextLine, LinesOf DEF LineInv, PatchOk
<1>2. Tried' = next
  <2>1. Tried' = next' - 1
    BY <1>1 DEF Tried, Stopped
  <2> QED
    BY <1>1, <2>1
<1>3. invoice' \in Invoices /\ maker' \in [Ids -> 0..Len(plan)] /\ OnInvoice'
  <2>1. pc' # "reading" /\ pc = "writing" /\ MaybeApplied
    BY <1>1 DEF PatchOk
  <2>2. UNCHANGED <<plan, baseline, replica, observed, others>>
    BY DEF PatchOk, readVars
  <2> QED
    BY <1>2, <2>1, <2>2, Patched
<1>4. TypeOK'
  BY <1>1, <1>3 DEF TypeOK, PatchOk, readVars
<1>5. Progress'
  BY <1>1 DEF Progress, PatchOk, Stopped, Ended, Alarms
<1>6. Judged' /\ Timely'
  BY <1>1 DEF Judged, Timely, Alarms
<1> QED
  BY <1>3, <1>4, <1>5, <1>6 DEF LineInv, OnInvoice

LEMMA PatchFailsStep == LineInv /\ (PatchRefused \/ PatchThrows) => LineInv'
<1> SUFFICES ASSUME LineInv, PatchRefused \/ PatchThrows PROVE LineInv'
  OBVIOUS
<1>1. /\ TypeOK /\ next \in 1..Len(plan) /\ Len(plan) \in Nat \ {0}
      /\ pc' \in Stopped /\ next' = next /\ pc = "writing" /\ MaybeApplied
      /\ UNCHANGED <<plan, baseline, replica, observed, others, attempt>>
  BY NextLine, LinesOf DEF LineInv, PatchRefused, PatchThrows, Stopped, readVars
<1>2. Tried' = next
  BY <1>1 DEF Tried
<1>3. invoice' \in Invoices /\ maker' \in [Ids -> 0..Len(plan)] /\ OnInvoice'
  BY <1>1, <1>2, Patched DEF Stopped
<1>4. TypeOK'
  BY <1>1, <1>3 DEF TypeOK
<1>5. Progress'
  BY <1>1 DEF Progress, Stopped, Ended, Alarms
<1>6. Judged' /\ Timely'
  <2>1. pc' = "partial" => ComparedWithBaseline' \subseteq named'
    <3>1. ComparedWithBaseline' = ComparedWithBaseline
      BY <1>1 DEF ComparedWithBaseline
    <3> QED
      BY <3>1 DEF PatchRefused, PatchThrows, PartialReport
  <2> QED
    BY <1>1, <2>1 DEF Judged, Timely, Stopped, Alarms
<1> QED
  BY <1>3, <1>4, <1>5, <1>6 DEF LineInv, OnInvoice

LEMMA CatchUpStep == LineInv /\ CatchUp => LineInv'
<1> SUFFICES ASSUME LineInv, CatchUp PROVE LineInv'
  OBVIOUS
<1>1. UNCHANGED <<plan, baseline, next, written, maker, attempt, missed, observed, named, pc,
                  invoice, others>> /\ replica' = invoice
  BY DEF CatchUp, callVars, readVars
<1>2. Tried' = Tried
  BY <1>1 DEF Tried
<1>3. TypeOK' /\ Progress'
  BY <1>1 DEF LineInv, TypeOK, Progress
<1>4. Room' /\ Grows' /\ Makers'
  BY <1>1, <1>2 DEF LineInv, Room, Grows, Makers, Appends
<1>5. Shows(replica)' /\ Shows(observed)' /\ Alone' /\ Lag'
  BY <1>1 DEF LineInv, Shows, Alone, Lag
<1>6. OldOrNew'
  BY <1>1, <1>2 DEF LineInv, OldOrNew, UpdatesTell, Updates, Sent
<1>7. Judged' /\ Timely'
  BY <1>1 DEF LineInv, Judged, Timely, Counted, NewItems, Appends, Updates, UpdateLanded, RestKept,
              AppendedTotalMatches, SentTotal, Sent, ComparedWithBaseline
<1> QED
  BY <1>3, <1>4, <1>5, <1>6, <1>7 DEF LineInv

LEMMA OtherAppendsStep == LineInv /\ OtherAppends => LineInv'
<1> SUFFICES ASSUME LineInv, OtherAppends PROVE LineInv'
  OBVIOUS
<1> DEFINE id == FreeId
<1>1. /\ UNCHANGED <<plan, baseline, next, written, maker, attempt, missed, observed, named, pc,
                     replica>>
      /\ invoice' = [invoice EXCEPT ![id] = OtherAmounts] /\ others' = others + 1
      /\ others < MaxOthers /\ pc \in {"reading", "writing", "verifying"}
  BY DEF OtherAppends, callVars, readVars
<1>2. id \in Ids /\ invoice[id] = Absent
  BY <1>1, Free
<1> HIDE DEF id
<1>3. /\ TypeOK /\ others \in Nat /\ others' \in 0..MaxOthers /\ others' # 0
      /\ Tried' = Tried /\ Tried \in Nat /\ OtherAmounts \in Amounts
  <2>1. others \in Nat /\ MaxOthers \in Nat /\ Tried \in Nat /\ TypeOK
    BY LinesOf DEF LineInv
  <2> QED
    BY <1>1, <2>1, LineItemsAssumption DEF Tried
<1>4. /\ invoice' \in Invoices /\ invoice'[id] = OtherAmounts
      /\ \A i \in Ids \ {id} : invoice'[i] = invoice[i]
  BY <1>1, <1>2, <1>3 DEF TypeOK, Invoices
<1>5. Present(invoice)' = Present(invoice) \cup {id} /\ id \notin Present(invoice)
  BY <1>2, <1>3, <1>4, LineItemsAssumption DEF Present
<1>6. TypeOK' /\ Progress'
  BY <1>1, <1>3, <1>4 DEF LineInv, TypeOK, Progress
<1>7. Room'
  <2>1. /\ Cardinality(Present(Before)) \in Nat /\ Cardinality(Present(invoice)) \in Nat
        /\ IsFiniteSet(Present(invoice))
    BY Items
  <2>2. Cardinality(Present(invoice)') = Cardinality(Present(invoice)) + 1
    BY <1>5, <2>1, FS_AddElement
  <2> QED
    BY <1>1, <1>3, <2>1, <2>2 DEF LineInv, Room
<1>8. Grows' /\ Makers'
  BY <1>1, <1>3, <1>5 DEF LineInv, Grows, Makers, Appends
<1>9. Shows(replica)' /\ Shows(observed)'
  <2>1. Shows(replica) /\ Shows(observed)
    BY DEF LineInv
  <2>2. \A i \in Present(invoice) : invoice'[i] = invoice[i]
    BY <1>4, <1>5, Items
  <2> QED
    BY <1>1, <1>5, <2>1, <2>2 DEF Shows
<1>10. Alone' /\ Lag' /\ Timely'
  BY <1>3 DEF Alone, Lag, Timely
<1>11. OldOrNew'
  <2>1. \A i \in Present(Before) : invoice'[i] = invoice[i]
    BY <1>4, <1>5, Items DEF LineInv, Grows
  <2>2. UpdatesTell' = UpdatesTell /\ Updates' = Updates
    BY <1>1 DEF UpdatesTell, Updates, Sent
  <2> QED
    BY <1>1, <1>3, <2>1, <2>2 DEF LineInv, OldOrNew
<1>12. Judged'
  BY <1>1 DEF Judged
<1> QED
  BY <1>6, <1>7, <1>8, <1>9, <1>10, <1>11, <1>12 DEF LineInv

(* A row without the last line's item shows too few new ones. *)
LEMMA TooFew ==
  ASSUME LineInv, others = 0, pc = "verifying", plan[Len(plan)].id = NoId,
         \A i \in Present(replica) : maker[i] # Len(plan)
  PROVE  ~Accept(replica)
<1> DEFINE last == Len(plan)
           S == NewItems(replica)
           T == Appends \ {last}
           f == [i \in S |-> maker[i]]
<1>1. TypeOK /\ last \in 1..Len(plan) /\ last \in Appends /\ IsFiniteSet(Appends)
      /\ Cardinality(Appends) \in Nat
  <2>1. TypeOK /\ Len(plan) \in Nat \ {0}
    BY LinesOf DEF LineInv
  <2>2. last \in 1..Len(plan) /\ last \in Appends
    BY <2>1 DEF Appends
  <2>3. IsFiniteSet(1..Len(plan))
    BY <2>1, FS_Interval
  <2>4. IsFiniteSet(Appends)
    BY <2>3, FS_Subset DEF Appends
  <2> QED
    BY <2>1, <2>2, <2>4, FS_CardinalityType
<1>2. IsFiniteSet(T) /\ Cardinality(T) = Cardinality(Appends) - 1
  BY <1>1, FS_RemoveElement
<1>3. \A i \in S : i \in Ids /\ maker[i] # 0 /\ maker[i] \in T
  <2>1. S = Present(replica) \ Present(Before)
    BY DEF NewItems, LineInv, Alone
  <2>2. \A i \in S : maker[i] # 0 /\ i \in Ids
    BY <2>1, Items DEF LineInv, Shows, Alone
  <2> QED
    BY <2>1, <2>2 DEF LineInv, Makers
<1>4. f \in [S -> T] /\ IsInjective(f)
  <2>1. f \in [S -> T]
    BY <1>3
  <2>2. \A i, j \in S : maker[i] = maker[j] => i = j
    BY <1>3 DEF LineInv, Makers
  <2> QED
    BY <2>1, <2>2 DEF IsInjective
<1> HIDE DEF f, T
<1>5. f \in Injection(S, T)
  BY <1>4 DEF Injection
<1>6. Cardinality(S) <= Cardinality(T) /\ Cardinality(S) \in Nat
  <2>1. IsFiniteSet(S) /\ Cardinality(S) <= Cardinality(T)
    BY <1>2, <1>5, FS_Injection
  <2> QED
    BY <2>1, FS_CardinalityType
<1> QED
  BY <1>1, <1>2, <1>6 DEF Accept

(* A verdict is about the row it was given. *)
LEMMA Verdict ==
  ASSUME NEW row, Judge(row), observed' = row, plan' = plan, baseline' = baseline
  PROVE  Judged' /\ pc' \in Alarms \cup {"verified"}
<1>1. /\ NewItems(observed)' = NewItems(row) /\ Appends' = Appends /\ Updates' = Updates
      /\ ComparedWithBaseline' = ComparedWithBaseline
  BY DEF NewItems, Appends, Updates, ComparedWithBaseline
<1>2. AppendedTotalMatches(observed)' = AppendedTotalMatches(row)
  BY <1>1 DEF AppendedTotalMatches, SentTotal, Sent
<1>3. \A k : UpdateLanded(observed, plan[k])' = UpdateLanded(row, plan[k])
  BY DEF UpdateLanded, RestKept
<1>4. Counted(observed)' <=> Cardinality(NewItems(row)) = Cardinality(Appends)
  BY <1>1 DEF Counted
<1> QED
  BY <1>1, <1>2, <1>3, <1>4 DEF Judge, Judged, Alarms, Listed

LEMMA VerifyStep == LineInv /\ (VerifyRead \/ VerifyReadBare \/ VerifyReadFails) => LineInv'
<1> SUFFICES ASSUME LineInv, VerifyRead \/ VerifyReadBare \/ VerifyReadFails PROVE LineInv'
  OBVIOUS
<1>1. /\ UNCHANGED <<plan, baseline, next, written, maker, invoice, replica, others>>
      /\ pc = "verifying" /\ attempt' = attempt + 1 /\ TypeOK
  BY DEF LineInv, VerifyRead, VerifyReadBare, VerifyReadFails, callVars
<1>2. Judged' /\ pc' \in {"verifying"} \cup Ended
  <2>1. CASE pc' \in {"verifying", "verify_unavailable"}
    BY <2>1 DEF Judged, Ended, Alarms
  <2>2. ASSUME NEW row, Judge(row), observed' = row PROVE Judged' /\ pc' \in {"verifying"} \cup Ended
    BY <1>1, <2>2, Verdict DEF Ended
  <2>3. CASE VerifyRead
    BY <1>1, <2>1, <2>2, <2>3 DEF VerifyRead
  <2>4. CASE VerifyReadBare
    BY <1>1, <2>1, <2>4 DEF VerifyReadBare
  <2>5. CASE VerifyReadFails
    BY <1>1, <2>1, <2>2, <2>5 DEF VerifyReadFails
  <2> QED
    BY <2>3, <2>4, <2>5
<1>3. observed' \in {replica, Nothing, observed}
  BY DEF VerifyRead, VerifyReadBare, VerifyReadFails
<1>4. Tried' = Tried
  BY <1>1, <1>2 DEF Tried, Stopped, Ended, Alarms
<1>5. TypeOK'
  <2>1. observed' \in Invoices
    BY <1>1, <1>3, NothingPresent DEF TypeOK
  <2>2. attempt' \in Nat
    BY <1>1 DEF TypeOK
  <2> QED
    BY <1>1, <1>2, <2>1, <2>2 DEF TypeOK
<1>6. Progress'
  BY <1>1, <1>2 DEF LineInv, Progress, Stopped, Ended, Alarms
<1>7. Room' /\ Grows' /\ Makers'
  BY <1>1, <1>4 DEF LineInv, Room, Grows, Makers, Appends
<1>8. Shows(replica)' /\ Shows(observed)'
  BY <1>1, <1>3, NothingPresent DEF LineInv, Shows
<1>9. Alone' /\ Lag'
  BY <1>1, <1>2 DEF LineInv, Alone, Lag, Ended, Alarms
<1>10. OldOrNew'
  <2>1. UpdatesTell' = UpdatesTell /\ Updates' = Updates
    BY <1>1 DEF UpdatesTell, Updates, Sent
  <2>2. \A i \in Present(Before) : Nothing[i] = Absent
    BY Items DEF Nothing
  <2> QED
    BY <1>1, <1>3, <1>4, <2>1, <2>2 DEF LineInv, OldOrNew
<1>11. Timely'
  <2> SUFFICES ASSUME pc' \in Alarms, others = 0, plan[Len(plan)].id = NoId, ~missed',
                      CaughtUpBy <= Attempts
               PROVE  observed' = invoice
    BY <1>1 DEF Timely
  <2>1. VerifyRead /\ (Accept(replica) \/ IsLast) /\ observed' = replica
    BY <1>1 DEF VerifyRead, VerifyReadBare, VerifyReadFails, Alarms
  <2>2. CASE IsLast
    <3>1. attempt + 1 >= CaughtUpBy
      BY <2>2, LineItemsAssumption DEF IsLast
    <3> QED
      BY <2>1, <3>1 DEF VerifyRead
  <2>3. CASE Accept(replica)
    BY <1>1, <2>1, <2>3, TooFew DEF LineInv, Lag
  <2> QED
    BY <2>1, <2>2, <2>3
<1> QED
  BY <1>2, <1>5, <1>6, <1>7, <1>8, <1>9, <1>10, <1>11 DEF LineInv

LEMMA LineStutters == LineInv /\ UNCHANGED vars => LineInv'
<1> SUFFICES ASSUME LineInv, UNCHANGED vars PROVE LineInv'
  OBVIOUS
<1>1. UNCHANGED <<plan, pc, next, invoice, replica, baseline, written,
                  attempt, missed, observed, named, maker, others>>
  BY DEF vars
<1>2. Tried' = Tried
  BY <1>1 DEF Tried
<1>3. TypeOK' /\ Progress'
  BY <1>1 DEF LineInv, TypeOK, Progress
<1>4. Room' /\ Grows' /\ Makers'
  BY <1>1, <1>2 DEF LineInv, Room, Grows, Makers, Appends
<1>5. Shows(replica)' /\ Shows(observed)' /\ Alone' /\ Lag'
  BY <1>1 DEF LineInv, Shows, Alone, Lag
<1>6. OldOrNew'
  BY <1>1, <1>2 DEF LineInv, OldOrNew, UpdatesTell, Updates, Sent
<1>7. Judged' /\ Timely'
  BY <1>1 DEF LineInv, Judged, Timely, Counted, NewItems, Appends, Updates, UpdateLanded, RestKept,
              AppendedTotalMatches, SentTotal, Sent, ComparedWithBaseline
<1> QED
  BY <1>3, <1>4, <1>5, <1>6, <1>7 DEF LineInv

-----------------------------------------------------------------------------
(* Theorems. *)

(* Every created item is one line's, was on no row before, and is shown as  *)
(* it is by any row that has it; a verdict is about the row last read, and  *)
(* one that is not of lag is about the invoice as it is.                    *)
THEOREM LineItemsCorrect == Spec => []LineInv
<1>1. LineInv /\ [Next]_vars => LineInv'
  BY ReadBaselineStep, PatchOkStep, PatchFailsStep, CatchUpStep, OtherAppendsStep, VerifyStep,
     LineStutters DEF Next
<1> QED
  BY <1>1, LineInit, PTL DEF Spec

(* "HTTP 200 is not proof": when nobody else writes, a call that answers    *)
(* verified has its lines on the invoice at the prices it sent, and what    *)
(* its updates left out as it was, whatever was dropped or zeroed and       *)
(* however late the replica.  Costs that were sent are not vouched for.     *)
THEOREM VerifiedMeansLanded == Spec => []VerifiedIsTrue
<1>1. LineInv => VerifiedIsTrue
  <2> SUFFICES ASSUME LineInv, pc = "verified", others = 0, UpdatesTell \/ observed = invoice
               PROVE  Landed
    BY DEF VerifiedIsTrue
  <2> DEFINE new == Present(invoice) \ Present(Before)
             shown == Present(observed) \ Present(Before)
  <2>1. /\ TypeOK /\ baseline = Before /\ Cardinality(shown) = Cardinality(Appends)
        /\ SumFunction([i \in shown |-> observed[i].price]) = SentTotal
        /\ \A k \in Updates : UpdateLanded(observed, plan[k])
    BY DEF LineInv, Alone, Judged, Counted, NewItems, AppendedTotalMatches
  <2>2. shown \subseteq new
    BY DEF LineInv, Shows
  <2>3. IsFiniteSet(Appends) /\ Cardinality(Appends) \in Nat
    <3>1. Len(plan) \in Nat \ {0} /\ Appends \subseteq 1..Len(plan)
      BY <2>1, LinesOf
    <3>2. IsFiniteSet(1..Len(plan))
      BY <3>1, FS_Interval
    <3>3. IsFiniteSet(Appends)
      BY <3>1, <3>2, FS_Subset
    <3> QED
      BY <3>3, FS_CardinalityType
  <2>4. \A i \in new : i \in Ids /\ maker[i] # 0 /\ maker[i] \in Appends
    BY Items DEF LineInv, Alone, Makers
  <2>5. IsFiniteSet(new) /\ Cardinality(new) <= Cardinality(Appends)
    <3> DEFINE f == [i \in new |-> maker[i]]
    <3>1. f \in [new -> Appends]
      BY <2>4
    <3>2. \A i, j \in new : maker[i] = maker[j] => i = j
      BY <2>4 DEF LineInv, Makers
    <3>3. IsInjective(f)
      BY <3>2 DEF IsInjective
    <3> HIDE DEF f, new
    <3>4. f \in Injection(new, Appends)
      BY <3>1, <3>3 DEF Injection
    <3> QED
      BY <2>3, <3>4, FS_Injection
  <2>6. shown = new
    <3> HIDE DEF shown, new
    <3>1. Cardinality(shown) <= Cardinality(new) /\ Cardinality(new) \in Nat
      BY <2>2, <2>5, FS_Subset, FS_CardinalityType
    <3>2. Cardinality(shown) = Cardinality(new)
      BY <2>1, <2>3, <2>5, <3>1
    <3> QED
      BY <2>2, <2>5, <3>2, FS_Subset
  <2>7. \A i \in new : observed[i] = invoice[i]
    BY <2>4, <2>6 DEF LineInv, Shows
  <2>8. [i \in shown |-> observed[i].price] = [i \in new |-> invoice[i].price]
    BY <2>6, <2>7
  <2>9. ASSUME NEW k \in Updates
        PROVE  /\ Sent(k) # Omitted => invoice[plan[k].id].price = Sent(k)
               /\ RestKept(invoice, Before, plan[k])
    <3>1. UpdateLanded(observed, plan[k]) /\ baseline = Before
      BY <2>1, <2>9
    <3>2. observed[plan[k].id] = invoice[plan[k].id]
      <4>1. CASE observed = invoice
        BY <4>1
      <4>2. CASE UpdatesTell
        <5>1. Sent(k) # Omitted /\ Sent(k) # Before[plan[k].id].price
          BY <2>9, <4>2 DEF UpdatesTell
        <5>2. plan[k].id \in Present(Before)
          <6>1. IsLine(plan[k]) /\ plan[k].id # NoId
            BY <2>1, <2>9, LinesOf DEF Updates
          <6> QED
            BY <6>1 DEF IsLine
        <5>3. observed[plan[k].id] \in {Before[plan[k].id], invoice[plan[k].id], Absent}
          BY <4>2, <5>2 DEF LineInv, OldOrNew
        <5>4. observed[plan[k].id] # Absent /\ observed[plan[k].id].price = Sent(k)
          BY <3>1, <5>1 DEF UpdateLanded, Sent
        <5> QED
          BY <5>1, <5>3, <5>4
      <4> QED
        BY <4>1, <4>2
    <3> QED
      BY <3>1, <3>2 DEF UpdateLanded, RestKept, Sent
  <2>10. Cardinality(new) = Cardinality(Appends)
    BY <2>1, <2>6
  <2>11. SumFunction([i \in new |-> invoice[i].price]) = SentTotal
    BY <2>1, <2>8
  <2> QED
    BY <2>9, <2>10, <2>11 DEF Landed
<1> QED
  BY <1>1, LineItemsCorrect, PTL

(* Lag alone raises no alarm (reReadInvoiceForVerify): lines that landed    *)
(* get no verdict against them, when nobody else writes, the last of them   *)
(* is an append, every verify-read answers and the replica catches up in    *)
(* time.                                                                    *)
THEOREM LagRaisesNoAlarm == Spec => []LagIsNoAlarm
<1>1. LineInv => LagIsNoAlarm
  <2> SUFFICES ASSUME LineInv, Landed, others = 0, plan[Len(plan)].id = NoId, ~missed,
                      CaughtUpBy <= Attempts, pc \in Alarms
               PROVE  FALSE
    BY DEF LagIsNoAlarm, Alarms
  <2>1. observed = invoice /\ baseline = Before
    BY DEF LineInv, Timely, Alone, Alarms
  <2>2. NewItems(observed) = Present(invoice) \ Present(Before)
    BY <2>1 DEF NewItems
  <2>3. Counted(observed) /\ AppendedTotalMatches(observed)
    BY <2>1, <2>2 DEF Landed, Counted, AppendedTotalMatches
  <2>4. \A k \in Updates : UpdateLanded(observed, plan[k])
    <3> SUFFICES ASSUME NEW k \in Updates PROVE UpdateLanded(observed, plan[k])
      OBVIOUS
    <3>1. /\ Sent(k) # Omitted => invoice[plan[k].id].price = Sent(k)
          /\ RestKept(invoice, Before, plan[k])
      BY DEF Landed
    <3>2. plan[k].id \in Present(invoice)
      <4>1. IsLine(plan[k]) /\ plan[k].id # NoId
        BY LinesOf DEF LineInv, Updates
      <4> QED
        BY <4>1 DEF IsLine, LineInv, Grows
    <3> QED
      BY <2>1, <3>1, <3>2 DEF UpdateLanded, RestKept, Sent, Present
  <2> QED
    BY <2>3, <2>4 DEF LineInv, Judged, Alarms
<1> QED
  BY <1>1, LineItemsCorrect, PTL

(* "The error names their item ids for cleanup": every item the call        *)
(* created, the failed PATCH's included, can be found from a partial        *)
(* failure's error and from the verdicts on the appends.                    *)
THEOREM FailuresNameItems == Spec => []FailuresNameWhatLanded
<1>1. LineInv => FailuresNameWhatLanded
  <2> SUFFICES ASSUME LineInv, NEW i \in CreatedBy(1..Len(plan))
               PROVE  /\ pc \in {"partial", "silent_noop"} => i \in named
                      /\ pc = "amount_mismatch" /\ observed = invoice => i \in named
    BY DEF FailuresNameWhatLanded
  <2>1. i \in Ids /\ maker[i] # 0
    BY LinesOf DEF LineInv, CreatedBy
  <2>2. i \in Present(invoice) /\ i \notin Present(baseline)
    BY <2>1 DEF LineInv, Makers
  <2> QED
    BY <2>1, <2>2 DEF LineInv, Judged, ComparedWithBaseline, NewItems
<1> QED
  BY <1>1, LineItemsCorrect, PTL
=============================================================================
