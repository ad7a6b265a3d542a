---------------------------- MODULE ApInboxProofs ----------------------------
(***************************************************************************)
(* What a verdict of the accounts-payable tools stands for, for every      *)
(* inbox, page size, window and bill: that "clear" has looked at every     *)
(* document, that a duplicate is of another one, that a bill that          *)
(* reconciles is posted as charged.                                        *)
(***************************************************************************)
EXTENDS ApInbox, FiniteSetTheorems, TLAPS

Places == {"absent", "pending", "created", "deleted"}
Entries == [doc : Docs, status : {"pending", "created"}, enriched : BOOLEAN]
Fields == {"phase", "at", "page", "total", "rows", "listed", "cursor", "next", "number", "blurred"}

\* The documents that have the status being listed.
Listing == {d \in Docs : inbox[d] = Statuses[call.at]}
Arrived == {d \in Docs : inbox[d] # "absent"}

IsCall == DOMAIN call = Fields /\ call = [f \in Fields |-> call[f]]

TypeOK ==
    /\ inbox \in [Docs -> Places]
    /\ IsCall
    /\ call.phase \in {"none", "paging", "failed", "answered"}
    /\ call.at \in {1, 2} /\ call.total \in Int /\ call.blurred \in BOOLEAN
    /\ call.rows \subseteq Arrived
    /\ call.listed \subseteq [doc : Arrived, status : {"pending", "created"}]
    /\ merged \subseteq [doc : Arrived, status : {"pending", "created"}, enriched : BOOLEAN]
    /\ always \subseteq {d \in Docs : inbox[d] \in {"pending", "created"}}
    /\ stirred \in Nat

\* The total holds the rows of the first page and of the list as it was then:
\* as long as the list changed once at most, either every row read is still
\* listed, or one has left and the total still counts it.
TotalTells ==
    call.phase = "paging" =>
        /\ call.total = NoTotal => call.rows = {}
        /\ stirred = 0 => /\ call.rows \subseteq Listing
                          /\ call.total # NoTotal => Cardinality(Listing) <= call.total
        /\ stirred = 1 => \/ call.rows \subseteq Listing
                          \/ \E d \in Docs : /\ call.rows \subseteq Listing \union {d}
                                             /\ Cardinality(Listing) < call.total

HasRow(d, rows) == \E r \in rows : r.doc = d

\* Whoever was there all along is in the list of pending documents, or will be
\* in that of filed ones; then in the answer.
NobodySlips ==
    ~call.blurred =>
        /\ call.phase = "paging" /\ call.at = 2 =>
              \A d \in always : inbox[d] = "created" \/ HasRow(d, call.listed)
        /\ call.phase = "answered" => \A d \in always : HasRow(d, merged)

-----------------------------------------------------------------------------
(* What one page of the list says.                                          *)

\* A subset of a finite set that is as large as it is all of it.
LEMMA SameSize ==
    ASSUME NEW S, IsFiniteSet(S), NEW T, T \subseteq S, Cardinality(T) >= Cardinality(S)
    PROVE  T = S
<1>1. /\ Cardinality(T) <= Cardinality(S) /\ IsFiniteSet(T)
      /\ Cardinality(S) = Cardinality(T) => S = T
  BY FS_Subset
<1>2. Cardinality(S) \in Nat /\ Cardinality(T) \in Nat
  BY <1>1, FS_CardinalityType
<1> QED BY <1>1, <1>2

\* A page that was not refused holds documents of the status being listed, all
\* of them are served, and the total did not move since the first page.
LEMMA PageIsOfTheList ==
    ASSUME TypeOK, NEW response, NEW honoured \in BOOLEAN, Received(response, honoured)
    PROVE  /\ batch(honoured) \subseteq Listing
           /\ Listing \subseteq served(honoured)
           /\ served(honoured) \subseteq Arrived
           /\ rowsWith(honoured) \subseteq Arrived
           /\ IsFiniteSet(served(honoured)) /\ IsFiniteSet(Listing)
           /\ Cardinality(served(honoured)) \in Nat /\ Cardinality(Listing) \in Nat
           /\ Cardinality(Listing) <= Cardinality(served(honoured))
           /\ call.total # NoTotal => call.total = Cardinality(served(honoured))
<1>1. Statuses[call.at] \in {"pending", "created"} /\ Range(Statuses) = {"pending", "created"}
  BY SMT DEF TypeOK, Statuses, Range
<1>2. batch(honoured) \subseteq served(honoured)
  BY DEF batch, pageOf
<1>3. served(honoured) \subseteq Arrived /\ Listing \subseteq served(honoured)
  BY <1>1, SMT DEF served, Arrived, Listing
<1>4. batch(honoured) \subseteq Listing
  BY <1>2, <1>3 DEF Received, refusesPage, Listing, Arrived
<1>5. rowsWith(honoured) \subseteq Arrived
  BY <1>2, <1>3 DEF rowsWith, TypeOK
<1>6. IsFiniteSet(served(honoured)) /\ IsFiniteSet(Listing)
      /\ Cardinality(Listing) <= Cardinality(served(honoured))
  <2>1. served(honoured) \subseteq Docs /\ IsFiniteSet(Docs)
    BY ApInboxAssumption DEF served
  <2>2. IsFiniteSet(served(honoured))
    BY <2>1, FS_Subset
  <2> QED BY <2>2, <1>3, FS_Subset
<1>7. Cardinality(served(honoured)) \in Nat /\ Cardinality(Listing) \in Nat
  BY <1>6, FS_CardinalityType
<1>8. call.total # NoTotal => call.total = Cardinality(served(honoured))
  BY DEF Received, refusesPage
<1> QED BY <1>3, <1>4, <1>5, <1>6, <1>7, <1>8

\* A list that ends, and changed once at most since its first page, was read to
\* its end.
LEMMA ReadToTheEnd ==
    ASSUME TypeOK, TotalTells, NEW response, NEW honoured \in BOOLEAN,
           Received(response, honoured), complete(honoured), stirred <= 1
    PROVE  Listing \subseteq rowsWith(honoured)
<1> DEFINE all == served(honoured)
           rows == rowsWith(honoured)
<1>1. /\ batch(honoured) \subseteq Listing /\ Listing \subseteq all
      /\ IsFiniteSet(all) /\ IsFiniteSet(Listing)
      /\ Cardinality(all) \in Nat /\ Cardinality(Listing) \in Nat
      /\ Cardinality(Listing) <= Cardinality(all)
      /\ call.total # NoTotal => call.total = Cardinality(all)
  BY PageIsOfTheList
<1>2. Cardinality(rows) >= Cardinality(all) /\ rows = call.rows \union batch(honoured)
  BY DEF complete, rowsWith
<1>3. CASE call.rows \subseteq Listing
  <2>1. rows \subseteq Listing /\ IsFiniteSet(rows)
    BY <1>1, <1>2, <1>3, FS_Subset
  <2>2. Cardinality(rows) \in Nat
    BY <2>1, FS_CardinalityType
  <2> QED BY <1>1, <1>2, <2>1, <2>2, SameSize
<1>4. CASE ~(call.rows \subseteq Listing)
  <2>1. /\ call.phase = "paging" /\ stirred \in Nat
        /\ call.total # NoTotal
    BY <1>4 DEF Received, TypeOK, TotalTells
  <2>2. PICK d \in Docs : /\ call.rows \subseteq Listing \union {d}
                          /\ Cardinality(Listing) < call.total
    BY <1>4, <2>1 DEF TotalTells
  <2>3. /\ rows \subseteq Listing \union {d}
        /\ IsFiniteSet(Listing \union {d})
        /\ Cardinality(Listing \union {d}) <= Cardinality(Listing) + 1
    <3>1. rows \subseteq Listing \union {d}
      BY <1>1, <1>2, <2>2
    <3>2. /\ IsFiniteSet(Listing \union {d})
          /\ Cardinality(Listing \union {d}) =
                IF d \in Listing THEN Cardinality(Listing) ELSE Cardinality(Listing) + 1
      BY <1>1, FS_AddElement
    <3> HIDE DEF rows
    <3> QED BY <1>1, <3>1, <3>2
  <2>4. Cardinality(Listing \union {d}) \in Nat /\ IsFiniteSet(rows)
    BY <2>3, FS_CardinalityType, FS_Subset
  <2>5. Cardinality(rows) \in Nat
    BY <2>4, FS_CardinalityType
  <2>6. Cardinality(rows) >= Cardinality(Listing \union {d})
    BY <1>1, <1>2, <2>1, <2>2, <2>3, <2>4, <2>5
  <2> QED BY <2>3, <2>6, SameSize
<1> QED BY <1>3, <1>4

\* Merging windows loses no document of the newer answer, and makes up none.
LEMMA MergeKeepsAll ==
    ASSUME NEW old, NEW new, NEW result \in merges(old, new)
    PROVE  /\ result \subseteq old \union new
           /\ \A r \in new : HasRow(r.doc, result)
<1>1. CASE old = {}
  BY <1>1 DEF merges, HasRow
<1>2. CASE old # {}
  <2> DEFINE all == old \union new
             best(d) == IF \E r \in all : r.doc = d /\ r.enriched
                        THEN {r \in all : r.doc = d /\ r.enriched}
                        ELSE {r \in all : r.doc = d}
  <2>1. /\ result \in SUBSET UNION {best(r.doc) : r \in all}
        /\ \A r \in all : Cardinality({s \in result : s.doc = r.doc}) = 1
    BY <1>2 DEF merges
  <2>2. \A d : best(d) \subseteq all
    OBVIOUS
  <2>3. result \subseteq all
    <3> HIDE DEF best, all
    <3> QED BY <2>1, <2>2
  <2>4. ASSUME NEW r \in new PROVE HasRow(r.doc, result)
    <3>1. {s \in result : s.doc = r.doc} # {}
      BY <2>1, FS_EmptySet
    <3> QED BY <3>1 DEF HasRow
  <2> QED BY <2>3, <2>4
<1> QED BY <1>1, <1>2

-----------------------------------------------------------------------------
(* Every step keeps what is known of the list.                              *)

ListInv == TypeOK /\ TotalTells /\ NobodySlips

LEMMA InitListInv == Init => ListInv
<1> SUFFICES ASSUME Init PROVE ListInv
  OBVIOUS
<1>1. TypeOK
  <2>1. IsCall
    BY DEF Init, NoCall, IsCall, Fields
  <2> QED BY <2>1 DEF Init, TypeOK, Places, NoCall, NoTotal, Arrived
<1>2. TotalTells /\ NobodySlips
  BY DEF Init, TotalTells, NobodySlips, NoCall
<1> QED BY <1>1, <1>2 DEF ListInv

\* What is known of the list does not depend on the verdicts.
LEMMA SameListKeepsInv ==
    ASSUME ListInv, UNCHANGED <<inbox, call, merged, always, stirred>>
    PROVE  ListInv'
<1>1. IsCall' /\ Arrived' = Arrived /\ Listing' = Listing
  BY DEF ListInv, TypeOK, IsCall, Arrived, Listing
<1>2. TypeOK'
  BY <1>1 DEF ListInv, TypeOK
<1> QED BY <1>1, <1>2 DEF ListInv, TotalTells, NobodySlips, HasRow

\* A change of the inbox: a document that arrives, is filed or is deleted is one
\* change of a list, and the only document that can leave it.
LEMMA MoveKeepsTotal ==
    ASSUME ListInv, NEW d \in Docs, NEW place \in {"pending", "created", "deleted"},
           Move(d, place)
    PROVE  TotalTells'
<1> SUFFICES ASSUME call.phase = "paging" PROVE TotalTells'
  BY DEF Move, TotalTells
<1> DEFINE status == Statuses[call.at]
<1>1. /\ status \in {"pending", "created"} /\ stirred \in Nat
      /\ inbox \in [Docs -> Places] /\ call.total \in Int
  BY SMT DEF ListInv, TypeOK, Statuses
<1>2. /\ inbox[d] # place /\ inbox' = [inbox EXCEPT ![d] = place] /\ call' = call
      /\ stirred' = IF status \in {inbox[d], place} THEN stirred + 1 ELSE stirred
  BY DEF Move
<1>3. /\ call.total = NoTotal => call.rows = {}
      /\ stirred = 0 => /\ call.rows \subseteq Listing
                        /\ call.total # NoTotal => Cardinality(Listing) <= call.total
      /\ stirred = 1 => \/ call.rows \subseteq Listing
                        \/ \E e \in Docs : /\ call.rows \subseteq Listing \union {e}
                                           /\ Cardinality(Listing) < call.total
  BY DEF ListInv, TotalTells
<1>4. CASE status \notin {inbox[d], place}
  <2>1. Listing' = Listing /\ stirred' = stirred
    BY <1>1, <1>2, <1>4 DEF Listing
  <2> QED BY <1>2, <1>3, <2>1 DEF TotalTells
<1>5. CASE status = place /\ stirred = 0
  <2>1. Listing \subseteq Listing' /\ stirred' = 1
    BY <1>1, <1>2, <1>5 DEF Listing
  <2> QED BY <1>2, <1>3, <1>5, <2>1 DEF TotalTells
<1>6. CASE status = inbox[d] /\ stirred = 0
  <2>1. Listing' = Listing \ {d} /\ d \in Listing /\ stirred' = 1
    BY <1>1, <1>2, <1>6 DEF Listing
  <2>2. CASE d \notin call.rows
    BY <1>2, <1>3, <1>6, <2>1, <2>2 DEF TotalTells
  <2>3. CASE d \in call.rows
    <3>1. call.total # NoTotal /\ Cardinality(Listing) <= call.total
      BY <1>3, <1>6, <2>3
    <3>2. IsFiniteSet(Listing)
      BY ApInboxAssumption, FS_Subset DEF Listing
    <3>3. Cardinality(Listing) \in Nat
      BY <3>2, FS_CardinalityType
    <3>4. Cardinality(Listing \ {d}) = Cardinality(Listing) - 1
      BY <3>2, <2>1, FS_RemoveElement
    <3>5. /\ call'.rows \subseteq Listing' \union {d}
          /\ Cardinality(Listing') < call'.total
      BY <1>1, <1>2, <1>3, <1>6, <2>1, <3>1, <3>3, <3>4
    <3> QED BY <1>2, <1>3, <2>1, <3>5 DEF TotalTells
  <2> QED BY <2>2, <2>3
<1>7. CASE status \in {inbox[d], place} /\ stirred # 0
  BY <1>1, <1>2, <1>3, <1>7 DEF TotalTells
<1> QED BY <1>4, <1>5, <1>6, <1>7

LEMMA MoveKeepsList ==
    ASSUME ListInv, NEW d \in Docs, NEW place \in {"pending", "created", "deleted"},
           Move(d, place)
    PROVE  ListInv'
<1> USE DEF ListInv
<1>1. TotalTells'
  BY MoveKeepsTotal
<1>2. /\ inbox \in [Docs -> Places] /\ inbox' = [inbox EXCEPT ![d] = place]
      /\ \/ inbox[d] = "absent" /\ place = "pending"
         \/ inbox[d] = "pending" /\ place = "created"
         \/ inbox[d] \in {"pending", "created"} /\ place = "deleted"
      /\ UNCHANGED <<call, merged>>
      /\ always' = IF place = "deleted" THEN always \ {d} ELSE always
  BY DEF Move, TypeOK
<1>3. Arrived \subseteq Arrived'
  BY <1>2 DEF Arrived
<1>4. TypeOK'
  <2>1. inbox' \in [Docs -> Places]
    BY <1>2 DEF Places
  <2>2. /\ call'.rows \subseteq Arrived'
        /\ call'.listed \subseteq [doc : Arrived', status : {"pending", "created"}]
        /\ merged' \subseteq [doc : Arrived', status : {"pending", "created"}, enriched : BOOLEAN]
    BY <1>2, <1>3 DEF TypeOK
  <2>3. always' \subseteq {e \in Docs : inbox'[e] \in {"pending", "created"}}
    BY <1>2 DEF TypeOK
  <2>4. stirred' \in Nat
    BY DEF Move, TypeOK
  <2>5. IsCall' /\ call' = call
    BY <1>2 DEF TypeOK, IsCall
  <2> QED BY <2>1, <2>2, <2>3, <2>4, <2>5 DEF TypeOK
<1>5. NobodySlips'
  <2> SUFFICES ASSUME ~call.blurred, NEW e \in always'
               PROVE  /\ call.phase = "paging" /\ call.at = 2 =>
                            inbox'[e] = "created" \/ HasRow(e, call.listed)
                      /\ call.phase = "answered" => HasRow(e, merged)
    BY <1>2 DEF NobodySlips, HasRow
  <2>1. e \in always /\ e \in Docs /\ (e = d => place # "deleted")
    BY <1>2 DEF TypeOK
  <2>2. inbox[e] = "created" => inbox'[e] = "created"
    BY <1>2, <2>1
  <2> QED BY <2>1, <2>2 DEF NobodySlips
<1> QED BY <1>1, <1>4, <1>5

LEMMA StartCallKeepsList ==
    ASSUME ListInv, NEW cursor, StartCall(cursor)
    PROVE  ListInv'
<1> USE DEF ListInv
<1>1. /\ UNCHANGED <<inbox, merged, always>> /\ stirred' = 0
      /\ call' = [NoCall EXCEPT !.phase = "paging", !.cursor = cursor,
                                !.number = call.number + 1, !.blurred = call.blurred]
  BY DEF StartCall
<1>2. Arrived' = Arrived
  BY <1>1 DEF Arrived
<1>3. TypeOK'
  <2>1. IsCall'
    BY <1>1 DEF NoCall, IsCall, Fields
  <2>2. /\ call'.phase = "paging" /\ call'.at = 1 /\ call'.total = NoTotal
        /\ call'.rows = {} /\ call'.listed = {} /\ call'.blurred = call.blurred
    BY <1>1 DEF NoCall
  <2> QED BY <1>1, <1>2, <2>1, <2>2 DEF TypeOK, NoTotal
<1>4. TotalTells' /\ NobodySlips'
  BY <1>1 DEF NoCall, TotalTells, NobodySlips
<1> QED BY <1>3, <1>4

LEMMA ThrowKeepsList ==
    ASSUME ListInv, Throw, UNCHANGED <<inbox, merged, always, stirred>>
    PROVE  ListInv'
<1> USE DEF ListInv
<1>1. Arrived' = Arrived
  BY DEF Arrived
<1>2. TypeOK'
  <2>1. IsCall'
    BY DEF Throw, NoCall, IsCall, Fields
  <2>2. /\ call'.phase = "failed" /\ call'.at = 1 /\ call'.total = NoTotal
        /\ call'.rows = {} /\ call'.listed = {} /\ call'.blurred = call.blurred
    BY DEF Throw, NoCall
  <2> QED BY <1>1, <2>1, <2>2 DEF TypeOK, NoTotal
<1>3. TotalTells' /\ NobodySlips'
  BY DEF Throw, NoCall, TotalTells, NobodySlips
<1> QED BY <1>2, <1>3

LEMMA NextPageKeepsList ==
    ASSUME ListInv, NEW response, NEW honoured \in BOOLEAN, NextPage(response, honoured),
           UNCHANGED <<inbox, always>>
    PROVE  ListInv'
<1> USE DEF ListInv
<1> DEFINE all == Cardinality(served(honoured))
<1>1. /\ Received(response, honoured) /\ UNCHANGED <<merged, stirred>>
      /\ call' = [call EXCEPT !.page = @ + 1, !.total = all, !.rows = rowsWith(honoured)]
  BY DEF NextPage
<1>2. /\ batch(honoured) \subseteq Listing /\ rowsWith(honoured) \subseteq Arrived
      /\ all \in Nat /\ Cardinality(Listing) \in Nat /\ Cardinality(Listing) <= all
      /\ call.total # NoTotal => call.total = all
  BY <1>1, PageIsOfTheList
<1>3. /\ IsCall'
      /\ call'.phase = call.phase /\ call'.at = call.at /\ call'.total = all
      /\ call'.blurred = call.blurred /\ call'.rows = rowsWith(honoured)
      /\ call'.listed = call.listed
  <2> HIDE DEF all
  <2>1. IsCall
    BY DEF TypeOK
  <2> QED BY <1>1, <2>1 DEF IsCall, Fields
<1>4. Arrived' = Arrived /\ Listing' = Listing
  BY <1>3 DEF Arrived, Listing
<1>5. TypeOK'
  BY <1>1, <1>2, <1>3, <1>4 DEF TypeOK
<1>6. TotalTells'
  <2> HIDE DEF all
  <2>1. call.phase = "paging" /\ call'.total # NoTotal
    BY <1>1, <1>2, <1>3 DEF Received, NoTotal
  <2>2. stirred = 0 => call'.rows \subseteq Listing /\ Cardinality(Listing) <= call'.total
    BY <1>2, <1>3, <2>1 DEF TotalTells, rowsWith
  <2>3. ASSUME stirred = 1
        PROVE  \/ call'.rows \subseteq Listing
               \/ \E d \in Docs : /\ call'.rows \subseteq Listing \union {d}
                                  /\ Cardinality(Listing) < call'.total
    <3>1. CASE call.rows \subseteq Listing
      BY <1>2, <1>3, <3>1 DEF rowsWith
    <3>2. CASE ~(call.rows \subseteq Listing)
      <4>1. call.total = all
        BY <1>2, <2>1, <3>2 DEF TotalTells
      <4> QED BY <1>2, <1>3, <2>1, <2>3, <3>2, <4>1 DEF TotalTells, rowsWith
    <3> QED BY <3>1, <3>2
  <2> QED BY <1>1, <1>4, <2>1, <2>2, <2>3 DEF TotalTells
<1>7. NobodySlips'
  BY <1>1, <1>3 DEF NobodySlips
<1> QED BY <1>5, <1>6, <1>7

\* The rows of a status that was read to its end, with those before it.
LEMMA ListedWithIsTyped ==
    ASSUME TypeOK, NEW response, NEW honoured \in BOOLEAN, Received(response, honoured)
    PROVE  /\ call.listed \subseteq listedWith(honoured)
           /\ listedWith(honoured) \subseteq [doc : Arrived, status : {"pending", "created"}]
           /\ \A d \in rowsWith(honoured) : HasRow(d, listedWith(honoured))
<1>1. Statuses[call.at] \in {"pending", "created"}
  BY SMT DEF TypeOK, Statuses
<1>2. rowsWith(honoured) \subseteq Arrived
  BY PageIsOfTheList
<1>3. ASSUME NEW d \in rowsWith(honoured) PROVE HasRow(d, listedWith(honoured))
  <2>1. [doc |-> d, status |-> Statuses[call.at]] \in listedWith(honoured)
    BY DEF listedWith
  <2> QED BY <2>1 DEF HasRow
<1> QED BY <1>1, <1>2, <1>3 DEF listedWith, TypeOK

LEMMA NextStatusKeepsList ==
    ASSUME ListInv, NEW response, NEW honoured \in BOOLEAN, NextStatus(response, honoured),
           UNCHANGED <<inbox, always>>
    PROVE  ListInv'
<1> USE DEF ListInv
<1>1. /\ Received(response, honoured) /\ complete(honoured) /\ call.at < Len(Statuses)
      /\ stirred' = 0 /\ merged' = merged
      /\ call' = [call EXCEPT !.at = @ + 1, !.page = 1, !.total = NoTotal, !.rows = {},
                              !.listed = listedWith(honoured), !.blurred = @ \/ stirred > 1]
  BY DEF NextStatus
<1>2. /\ call.listed \subseteq listedWith(honoured)
      /\ listedWith(honoured) \subseteq [doc : Arrived, status : {"pending", "created"}]
      /\ \A d \in rowsWith(honoured) : HasRow(d, listedWith(honoured))
  BY <1>1, ListedWithIsTyped
<1>3. call.at = 1
  BY <1>1, SMT DEF TypeOK, Statuses
<1>4. /\ IsCall'
      /\ call'.phase = call.phase /\ call'.at = 2 /\ call'.total = NoTotal
      /\ call'.rows = {} /\ call'.listed = listedWith(honoured)
      /\ call'.blurred = (call.blurred \/ stirred > 1)
  <2>1. IsCall /\ call.blurred \in BOOLEAN
    BY DEF TypeOK
  <2>2. IsCall'
    BY <1>1, <2>1 DEF IsCall, Fields
  <2>3. call'.blurred = (call.blurred \/ stirred > 1)
    BY <1>1, <2>1 DEF IsCall, Fields
  <2>4. /\ call'.phase = call.phase /\ call'.at = call.at + 1 /\ call'.total = NoTotal
        /\ call'.rows = {} /\ call'.listed = listedWith(honoured)
    BY <1>1, <2>1 DEF IsCall, Fields
  <2> QED BY <1>3, <2>2, <2>3, <2>4
<1>5. TypeOK'
  <2>1. Arrived' = Arrived
    BY DEF Arrived
  <2> QED BY <1>1, <1>2, <1>4, <2>1 DEF TypeOK, NoTotal
<1>6. TotalTells'
  BY <1>1, <1>4 DEF TotalTells
<1>7. NobodySlips'
  <2> SUFFICES ASSUME ~call.blurred, stirred <= 1, NEW d \in always
               PROVE  inbox[d] = "created" \/ HasRow(d, listedWith(honoured))
    <3>1. stirred > 1 \/ stirred <= 1
      BY DEF TypeOK
    <3>2. call'.phase # "answered"
      BY <1>1, <1>4 DEF Received
    <3> QED BY <1>4, <3>1, <3>2 DEF NobodySlips
  <2>1. d \in Docs /\ inbox[d] \in {"pending", "created"}
    BY DEF TypeOK
  <2>2. Listing \subseteq rowsWith(honoured)
    BY <1>1, ReadToTheEnd
  <2>3. inbox[d] = "pending" => d \in Listing
    BY <1>3, <2>1 DEF Listing, Statuses
  <2> QED BY <1>2, <2>1, <2>2, <2>3
<1> QED BY <1>5, <1>6, <1>7

LEMMA EnrichedIsTyped ==
    ASSUME NEW S, NEW listed, listed \subseteq [doc : S, status : {"pending", "created"}], NEW read
    PROVE  enrichedRows(listed, read)
              \subseteq [doc : S, status : {"pending", "created"}, enriched : BOOLEAN]
<1>1. ASSUME NEW r \in listed
      PROVE  [doc |-> r.doc, status |-> r.status, enriched |-> r \in read]
                \in [doc : S, status : {"pending", "created"}, enriched : BOOLEAN]
  <2>1. r.doc \in S /\ r.status \in {"pending", "created"}
    OBVIOUS
  <2>2. (r \in read) \in BOOLEAN
    OBVIOUS
  <2> QED BY <2>1, <2>2, Zenon
<1>2. ASSUME NEW e \in enrichedRows(listed, read)
      PROVE  e \in [doc : S, status : {"pending", "created"}, enriched : BOOLEAN]
  <2>1. PICK r \in listed : e = [doc |-> r.doc, status |-> r.status, enriched |-> r \in read]
    BY <1>2, Zenon DEF enrichedRows
  <2> QED BY <1>1, <2>1, Zenon
<1> QED BY <1>2, Zenon

LEMMA AnswerKeepsList ==
    ASSUME ListInv, NEW response, NEW honoured \in BOOLEAN, Answer(response, honoured),
           UNCHANGED <<inbox, always>>
    PROVE  ListInv'
<1> USE DEF ListInv
<1> DEFINE listed == listedWith(honoured)
<1>1. /\ Received(response, honoured) /\ complete(honoured) /\ call.at = Len(Statuses)
      /\ stirred' = stirred
  BY DEF Answer
<1>2. PICK next, read : /\ call' = [call EXCEPT !.phase = "answered", !.listed = listed,
                                       !.rows = {}, !.next = next, !.blurred = @ \/ stirred > 1]
                        /\ merged' \in merges(merged, enrichedRows(listed, read))
  BY DEF Answer
<1>3. /\ call.listed \subseteq listed
      /\ listed \subseteq [doc : Arrived, status : {"pending", "created"}]
      /\ \A d \in rowsWith(honoured) : HasRow(d, listed)
  BY <1>1, ListedWithIsTyped
<1>4. call.at = 2
  BY <1>1, SMT DEF Statuses
<1>5. /\ IsCall'
      /\ call'.phase = "answered" /\ call'.at = call.at /\ call'.total = call.total
      /\ call'.rows = {} /\ call'.listed = listed
      /\ call'.blurred = (call.blurred \/ stirred > 1)
  <2> HIDE DEF listed
  <2>1. IsCall /\ call.blurred \in BOOLEAN
    BY DEF TypeOK
  <2> QED BY <1>2, <2>1 DEF IsCall, Fields
<1>6. /\ merged' \subseteq merged \union enrichedRows(listed, read)
      /\ \A r \in enrichedRows(listed, read) : HasRow(r.doc, merged')
  BY <1>2, MergeKeepsAll
<1>7. TypeOK'
  <2> HIDE DEF listed
  <2>1. Arrived' = Arrived
    BY DEF Arrived
  <2>2. enrichedRows(listed, read)
           \subseteq [doc : Arrived, status : {"pending", "created"}, enriched : BOOLEAN]
    BY <1>3, EnrichedIsTyped
  <2> QED BY <1>1, <1>3, <1>5, <1>6, <2>1, <2>2 DEF TypeOK
<1>8. TotalTells'
  BY <1>5 DEF TotalTells
<1>9. NobodySlips'
  <2> SUFFICES ASSUME ~call.blurred, stirred <= 1, NEW d \in always
               PROVE  HasRow(d, merged')
    <3>1. stirred > 1 \/ stirred <= 1
      BY DEF TypeOK
    <3> QED BY <1>5, <3>1 DEF NobodySlips
  <2>1. d \in Docs /\ inbox[d] \in {"pending", "created"}
    BY DEF TypeOK
  <2>2. Listing \subseteq rowsWith(honoured)
    BY <1>1, ReadToTheEnd
  <2>3. HasRow(d, listed)
    <3>1. CASE inbox[d] = "created"
      BY <1>3, <1>4, <2>1, <2>2, <3>1 DEF Listing, Statuses
    <3>2. CASE inbox[d] # "created"
      BY <1>1, <1>3, <1>4, <3>2 DEF NobodySlips, Received, HasRow
    <3> QED BY <3>1, <3>2
  <2>4. PICK r \in listed : r.doc = d
    BY <2>3 DEF HasRow
  <2>5. [doc |-> r.doc, status |-> r.status, enriched |-> r \in read] \in enrichedRows(listed, read)
    BY DEF enrichedRows
  <2> QED BY <1>6, <2>4, <2>5
<1> QED BY <1>7, <1>8, <1>9

-----------------------------------------------------------------------------
(* The duplicate check.                                                     *)

\* A row can be read only when its window was enriched; it then shows what is
\* printed on its document.
LEMMA ReadableIsPrinted ==
    ASSUME NEW x, NEW reading, ~unreadable(asRow(x, reading))
    PROVE  /\ asRow(x, reading).number = reading[x.doc].number
           /\ asRow(x, reading).vendor_id = reading[x.doc].vendor_id
           /\ asRow(x, reading).vendor_name = reading[x.doc].vendor_name
           /\ normalizeInvoiceNumber(reading[x.doc].number) # ""
           /\ reading[x.doc].amount # Unread
<1>1. normalizeInvoiceNumber(NoNumber) = ""
  BY DEF NoNumber, normalizeInvoiceNumber
<1>2. /\ asRow(x, reading).number = IF x.enriched THEN reading[x.doc].number ELSE NoNumber
      /\ asRow(x, reading).vendor_id = IF x.enriched THEN reading[x.doc].vendor_id ELSE 0
      /\ asRow(x, reading).vendor_name = reading[x.doc].vendor_name
      /\ asRow(x, reading).amount = reading[x.doc].amount
  BY DEF asRow
<1>3. /\ normalizeInvoiceNumber(asRow(x, reading).number) # ""
      /\ asRow(x, reading).amount # Unread
  BY DEF unreadable
<1>4. asRow(x, reading).number # NoNumber
  BY <1>1, <1>3
<1> QED BY <1>2, <1>3, <1>4

LEMMA DedupIsRight ==
    ASSUME ListInv, NEW r, NEW sets \in SUBSET {"created", "pending"}, NEW reading,
           Dedup(r, sets, reading)
    PROVE  ClearMeansNoTwin' /\ DuplicateIsAnotherDocument'
<1> DEFINE rows == [s \in {"created", "pending"} |->
                       {asRow(x, reading) : x \in {y \in merged : y.status = s}}]
           candidate == asRow(r, reading)
           given == UNION {rows[s] : s \in sets}
           hits == sameNumber(given, candidate)
           matched == {m \in hits : agrees(m, candidate)}
           result == dedupCheck(candidate, sets, rows)
<1>1. /\ call.phase = "answered" /\ r \in merged
      /\ UNCHANGED <<inbox, always>>
      /\ answer' = [candidate |-> r.doc, verdict |-> result.verdict, reading |-> reading,
                    matched |-> {m.doc : m \in result.matched}, blurred |-> call.blurred]
  BY DEF Dedup
<1>2. /\ answer'.candidate = r.doc /\ answer'.verdict = result.verdict
      /\ answer'.reading = reading /\ answer'.blurred = call.blurred
      /\ answer'.matched = {m.doc : m \in result.matched}
  <2> HIDE DEF result
  <2> QED BY <1>1
<1>3. /\ result.verdict = "clear" =>
            /\ ~unreadable(candidate) /\ hits = {}
            /\ {m \in others(given, candidate) : unreadable(m)} = {}
            /\ sets = {"created", "pending"}
      /\ result.verdict = "duplicate" =>
            ~unreadable(candidate) /\ matched # {} /\ result.matched = matched
  BY DEF dedupCheck
<1>4. merged \subseteq [doc : Arrived, status : {"pending", "created"}, enriched : BOOLEAN]
  BY DEF ListInv, TypeOK
<1>5. candidate.doc = r.doc /\ candidate.amount = reading[r.doc].amount
  BY DEF asRow
<1>6. ASSUME answer'.verdict = "clear", ~answer'.blurred,
             NEW d \in always' \ {answer'.candidate}
      PROVE  ~SameNumber(d, answer.candidate)'
  <2>1. PICK x \in merged : x.doc = d
    BY <1>1, <1>2, <1>6 DEF ListInv, NobodySlips, HasRow
  <2> DEFINE row == asRow(x, reading)
  <2>2. row \in given
    <3>1. x.status \in {"created", "pending"}
      BY <1>4
    <3>2. row \in rows[x.status]
      BY <3>1
    <3> HIDE DEF rows, row
    <3> QED BY <1>2, <1>3, <1>6, <3>1, <3>2
  <2>3. row \in others(given, candidate)
    <3>1. row.doc = d /\ d # r.doc
      BY <1>2, <1>6, <2>1 DEF asRow
    <3> HIDE DEF given, candidate, row
    <3> QED BY <1>5, <2>2, <3>1 DEF others, isSameRow
  <2>4. ~unreadable(row) /\ ~unreadable(candidate) /\ hits = {}
    <3> HIDE DEF given, candidate, row, result
    <3> QED BY <1>2, <1>3, <1>6, <2>3
  <2>5. normalizeInvoiceNumber(row.number) # normalizeInvoiceNumber(candidate.number)
    <3> HIDE DEF given, candidate, row
    <3> QED BY <2>3, <2>4 DEF sameNumber
  <2>6. /\ row.number = reading[d].number /\ candidate.number = reading[r.doc].number
    BY <2>1, <2>4, ReadableIsPrinted
  <2> QED BY <1>2, <2>5, <2>6 DEF SameNumber
<1>7. ASSUME answer'.verdict = "duplicate"
      PROVE  \E d \in answer'.matched \ {answer'.candidate} :
                /\ inbox'[d] # "absent"
                /\ SameNumber(d, answer.candidate)' /\ SameVendor(d, answer.candidate)'
                /\ answer'.reading[d].amount = answer'.reading[answer'.candidate].amount
                /\ answer'.reading[d].amount # Unread
  <2>1. ~unreadable(candidate) /\ matched # {} /\ result.matched = matched
    <3> HIDE DEF result, candidate, matched
    <3> QED BY <1>2, <1>3, <1>7
  <2>2. PICK row \in matched : TRUE
    BY <2>1
  <2>3. /\ row \in given /\ ~isSameRow(row, candidate) /\ ~unreadable(row)
        /\ normalizeInvoiceNumber(row.number) = normalizeInvoiceNumber(candidate.number)
        /\ row.amount = candidate.amount /\ vendorsMatch(candidate, row) = "same"
    <3> HIDE DEF given, candidate
    <3> QED BY <2>2 DEF sameNumber, others, agrees
  <2>4. PICK x \in merged : row = asRow(x, reading)
    <3>1. PICK s \in sets : row \in rows[s]
      <4> HIDE DEF rows
      <4> QED BY <2>3
    <3> QED BY <3>1
  <2>5. x.doc \in Docs /\ r.doc \in Docs /\ inbox[x.doc] # "absent"
    BY <1>1, <1>4 DEF Arrived
  <2>6. row.doc = x.doc /\ row.amount = reading[x.doc].amount
    BY <2>4 DEF asRow
  <2>7. x.doc # r.doc
    <3>1. x.doc # 0 /\ r.doc # 0
      BY <2>5, ApInboxAssumption
    <3> HIDE DEF candidate
    <3> QED BY <1>5, <2>3, <2>6, <3>1 DEF isSameRow
  <2>8. /\ row.number = reading[x.doc].number /\ candidate.number = reading[r.doc].number
        /\ normalizeInvoiceNumber(reading[x.doc].number) # ""
        /\ reading[x.doc].amount # Unread
    BY <2>1, <2>3, <2>4, ReadableIsPrinted
  <2>9. x.doc \in answer'.matched
    <3> HIDE DEF result, matched
    <3> QED BY <1>2, <2>1, <2>2, <2>6
  <2>10. SameNumber(x.doc, answer.candidate)'
    <3> HIDE DEF candidate
    <3> QED BY <1>2, <2>3, <2>8 DEF SameNumber
  <2>11. reading[x.doc].amount = reading[r.doc].amount
    <3> HIDE DEF candidate
    <3> QED BY <1>5, <2>3, <2>6
  <2>12. SameVendor(x.doc, answer.candidate)'
    <3>1. /\ row.vendor_id = reading[x.doc].vendor_id /\ candidate.vendor_id = reading[r.doc].vendor_id
          /\ row.vendor_name = reading[x.doc].vendor_name
          /\ candidate.vendor_name = reading[r.doc].vendor_name
      BY <2>1, <2>3, <2>4, ReadableIsPrinted
    <3> DEFINE v == reading[x.doc]
               w == reading[r.doc]
               ids == {v.vendor_id, w.vendor_id}
               names == {v.vendor_name, w.vendor_name}
    <3>2. IF v.vendor_id > 0 /\ w.vendor_id > 0 THEN v.vendor_id = w.vendor_id
          ELSE v.vendor_name # "" /\ v.vendor_name = w.vendor_name
      <4> HIDE DEF candidate
      <4> QED BY <2>3, <3>1 DEF vendorsMatch
    <3>3. \A a, b : a = b => Cardinality({a, b}) = 1
      <4> SUFFICES ASSUME NEW a PROVE Cardinality({a, a}) = 1
        OBVIOUS
      <4>1. {a, a} = {a}
        OBVIOUS
      <4> QED BY <4>1, FS_Singleton
    <3>4. IF \A id \in ids : id > 0 THEN Cardinality(ids) = 1
          ELSE Cardinality(names) = 1 /\ "" \notin names
      BY <3>2, <3>3
    <3> HIDE DEF result, candidate
    <3> QED BY <1>2, <3>4 DEF SameVendor
  <2> HIDE DEF result
  <2> QED BY <1>1, <1>2, <2>5, <2>7, <2>8, <2>9, <2>10, <2>11, <2>12
<1> QED BY <1>6, <1>7 DEF ClearMeansNoTwin, DuplicateIsAnotherDocument

-----------------------------------------------------------------------------
(* The reconciliation.                                                      *)

\* A readable bill is the printed one, and the layout it was printed in is among
\* the candidates that reach its header.
LEMMA LayoutMatches ==
    ASSUME NEW bill \in PrintedBills, ~Bills!refused(bill.read)
    PROVE  /\ bill.charged = Bills!allocations(bill.layout, bill.read.lines)
           /\ \E i \in Bills!matches(bill.read) : bill.layout = Bills!modeOrder[i]
<1> DEFINE read == bill.read
           printed == bill.printed
<1>1. IsBill(bill)
  BY ApInboxAssumption
<1>2. read.header = printed.header /\ read.tax = printed.tax /\ read.shipping = printed.shipping
  BY <1>1 DEF IsBill, ReadOrNot, Unread, Bills!refused, Bills!parsed, Bills!UnreadNumber
<1>3. read.lines = printed.lines
  <2>1. /\ read.lines \in Seq([quantity : Int, unit_cost : Int, freight : BOOLEAN])
        /\ printed.lines \in Seq([quantity : Int, unit_cost : Int, freight : BOOLEAN])
        /\ Len(read.lines) = Len(printed.lines)
    BY <1>1 DEF IsBill
  <2>2. ASSUME NEW i \in DOMAIN printed.lines PROVE read.lines[i] = printed.lines[i]
    <3>1. /\ read.lines[i] \in [quantity : Int, unit_cost : Int, freight : BOOLEAN]
          /\ printed.lines[i] \in [quantity : Int, unit_cost : Int, freight : BOOLEAN]
          /\ i \in DOMAIN read.lines
      <4> DEFINE Line == [quantity : Int, unit_cost : Int, freight : BOOLEAN]
      <4> HIDE DEF read, printed, Line
      <4>1. ASSUME NEW s \in Seq(Line), NEW j \in DOMAIN s PROVE s[j] \in Line
        OBVIOUS
      <4>2. read.lines \in Seq(Line) /\ printed.lines \in Seq(Line)
        BY <2>1 DEF Line
      <4>3. i \in DOMAIN read.lines
        BY <2>1, <2>2, <4>2
      <4>4. read.lines[i] \in Line /\ printed.lines[i] \in Line
        BY <2>2, <4>1, <4>2, <4>3
      <4> QED BY <4>3, <4>4 DEF Line
    <3>2. read.lines[i].quantity # Unread /\ read.lines[i].unit_cost # Unread
      BY <3>1 DEF Bills!refused, Bills!UnreadNumber, Unread
    <3>3. /\ read.lines[i].freight = printed.lines[i].freight
          /\ read.lines[i].quantity = printed.lines[i].quantity
          /\ read.lines[i].unit_cost = printed.lines[i].unit_cost
      BY <1>1, <2>2, <3>2 DEF IsBill, ReadOrNot
    <3> HIDE DEF read, printed
    <3> QED BY <3>1, <3>3
  <2> HIDE DEF read, printed
  <2> QED BY <2>1, <2>2
<1>4. Bills!total(bill.layout, read) = Bills!total(bill.layout, printed)
  BY <1>2, <1>3 DEF Bills!total, Bills!applied
<1>5. Bills!eligible(bill.layout, read)
  BY <1>1, <1>2, <1>3 DEF IsBill, Bills!eligible
<1>6. Bills!within(Bills!total(bill.layout, read), 2 * read.header)
  <2>1. /\ Bills!cents(Bills!total(bill.layout, read)) = read.header
        /\ read.header \in Int
    BY <1>1, <1>2, <1>4 DEF IsBill
  <2>2. Bills!cents(2 * read.header) = read.header
    BY <2>1 DEF Bills!cents
  <2> QED BY <2>1, <2>2 DEF Bills!within, Bills!distance, Bills!TOLERANCE_CENTS
<1>7. PICK i \in DOMAIN Bills!modeOrder : bill.layout = Bills!modeOrder[i]
  BY <1>1 DEF IsBill
<1>8. i \in Bills!matches(read)
  BY <1>5, <1>6, <1>7 DEF Bills!matches
<1> QED BY <1>1, <1>3, <1>7, <1>8 DEF IsBill

PostingInv ==
    posting # NoPosting =>
        posting.bill \in PrintedBills /\ posting.result = Bills!reconcileAmount(posting.bill.read)

LEMMA PostingIsRight == PostingInv => LinesPostedAsCharged
<1> SUFFICES ASSUME PostingInv, posting # NoPosting, posting.result.reconciles
             PROVE  Bills!allocations(posting.result.mode, posting.bill.read.lines)
                       = posting.bill.charged
  BY DEF LinesPostedAsCharged
<1> DEFINE bill == posting.bill
<1>1. bill \in PrintedBills /\ posting.result = Bills!reconcileAmount(bill.read)
  BY DEF PostingInv
<1>2. /\ ~Bills!refused(bill.read) /\ Bills!rivals(bill.read) = {}
      /\ posting.result.mode = Bills!winner(bill.read)
  BY <1>1 DEF Bills!reconcileAmount, Bills!Hold
<1>3. PICK i \in Bills!matches(bill.read) :
         /\ bill.layout = Bills!modeOrder[i]
         /\ bill.charged = Bills!allocations(bill.layout, bill.read.lines)
  BY <1>1, <1>2, LayoutMatches
<1>4. Bills!allocations(Bills!modeOrder[i], bill.read.lines)
         = Bills!allocations(Bills!winner(bill.read), bill.read.lines)
  BY <1>2, <1>3 DEF Bills!rivals
<1> QED BY <1>2, <1>3, <1>4

-----------------------------------------------------------------------------
(* Together.                                                                *)

InboxInv == ListInv /\ ClearMeansNoTwin /\ DuplicateIsAnotherDocument /\ PostingInv

LEMMA InitInboxInv == Init => InboxInv
BY InitListInv DEF Init, InboxInv, ClearMeansNoTwin, DuplicateIsAnotherDocument, PostingInv, NoAnswer

\* A verdict already given is left as it is.
LEMMA VerdictStands ==
    ASSUME UNCHANGED <<inbox, always, answer>>,
           ClearMeansNoTwin, DuplicateIsAnotherDocument
    PROVE  ClearMeansNoTwin' /\ DuplicateIsAnotherDocument'
BY DEF ClearMeansNoTwin, DuplicateIsAnotherDocument, SameNumber, SameVendor

LEMMA FetchPageKeepsInv ==
    ASSUME InboxInv, NEW response, NEW honoured \in BOOLEAN, FetchPage(response, honoured)
    PROVE  InboxInv'
<1>1. ListInv /\ UNCHANGED <<inbox, answer, posting, always, moves>>
  BY DEF InboxInv, FetchPage
<1>2. ListInv'
  <2>1. CASE PageThrows(response, honoured)
    BY <1>1, <2>1, ThrowKeepsList DEF PageThrows
  <2>2. CASE NextPage(response, honoured)
    BY <1>1, <2>2, NextPageKeepsList
  <2>3. CASE NextStatus(response, honoured)
    BY <1>1, <2>3, NextStatusKeepsList
  <2>4. CASE EnrichThrows(response, honoured)
    BY <1>1, <2>4, ThrowKeepsList DEF EnrichThrows
  <2>5. CASE Answer(response, honoured)
    BY <1>1, <2>5, AnswerKeepsList
  <2> QED BY <2>1, <2>2, <2>3, <2>4, <2>5 DEF FetchPage
<1>3. PostingInv'
  BY <1>1 DEF InboxInv, PostingInv
<1> QED BY <1>1, <1>2, <1>3, VerdictStands DEF InboxInv

LEMMA NextKeepsInv == InboxInv /\ [Next]_vars => InboxInv'
<1> SUFFICES ASSUME InboxInv, [Next]_vars PROVE InboxInv'
  OBVIOUS
<1>0. ListInv
  BY DEF InboxInv
<1>1. ASSUME NEW d \in Docs, NEW place \in {"pending", "created", "deleted"}, Move(d, place)
      PROVE  InboxInv'
  <2>1. ListInv'
    BY <1>0, <1>1, MoveKeepsList
  <2>2. answer' = answer /\ answer.verdict = "none" /\ posting' = posting
    BY <1>1 DEF Move, NoAnswer
  <2> QED BY <2>1, <2>2 DEF InboxInv, ClearMeansNoTwin, DuplicateIsAnotherDocument, PostingInv
<1>2. ASSUME NEW cursor, StartCall(cursor)
      PROVE  InboxInv'
  <2>1. ListInv'
    BY <1>0, <1>2, StartCallKeepsList
  <2>2. UNCHANGED <<inbox, always, answer, posting>>
    BY <1>2 DEF StartCall
  <2> QED BY <2>1, <2>2, VerdictStands DEF InboxInv, PostingInv
<1>3. ASSUME NEW response, NEW honoured \in BOOLEAN, FetchPage(response, honoured)
      PROVE  InboxInv'
  BY <1>3, FetchPageKeepsInv
<1>4. ASSUME NEW r, NEW sets \in SUBSET {"created", "pending"}, NEW reading,
             Dedup(r, sets, reading)
      PROVE  InboxInv'
  <2>1. ClearMeansNoTwin' /\ DuplicateIsAnotherDocument'
    BY <1>0, <1>4, DedupIsRight
  <2>2. UNCHANGED <<inbox, call, merged, posting, always, moves, stirred>>
    BY <1>4 DEF Dedup
  <2>3. ListInv'
    BY <1>0, <2>2, SameListKeepsInv
  <2> QED BY <2>1, <2>2, <2>3 DEF InboxInv, PostingInv
<1>5. CASE Reconcile
  <2>1. UNCHANGED <<inbox, call, merged, answer, always, moves, stirred>>
    BY <1>5 DEF Reconcile
  <2>2. ListInv'
    BY <1>0, <2>1, SameListKeepsInv
  <2>3. PostingInv'
    BY <1>5 DEF Reconcile, PostingInv
  <2> QED BY <2>1, <2>2, <2>3, VerdictStands DEF InboxInv
<1>6. CASE UNCHANGED vars
  <2>1. /\ UNCHANGED <<inbox, call, merged, answer, posting>>
        /\ UNCHANGED <<always, moves, stirred>>
    BY <1>6 DEF vars
  <2>2. ListInv'
    BY <1>0, <2>1, SameListKeepsInv
  <2> QED BY <2>1, <2>2, VerdictStands DEF InboxInv, PostingInv
<1> QED BY <1>1, <1>2, <1>3, <1>4, <1>5, <1>6 DEF Next

\* The inductive invariant: what the rows read so far and the total say of the
\* list, whatever changes in it between two pages.
THEOREM InboxCorrect == Spec => []InboxInv
BY InitInboxInv, NextKeepsInv, PTL DEF Spec

\* "clear" has looked at every document that was in the inbox all along, for
\* every number of documents, page size and window, whatever arrives, is filed
\* or is deleted between two pages, unless a list changed twice under way.
THEOREM ClearIsSafe == Spec => []ClearMeansNoTwin
<1>1. InboxInv => ClearMeansNoTwin
  BY DEF InboxInv
<1> QED BY <1>1, InboxCorrect, PTL

\* A document is called a duplicate only of another one that was in the inbox,
\* with the same number and the same readable amount, even when it was filed
\* between the two lists and is in both of them.
THEOREM DuplicatesAreOthers == Spec => []DuplicateIsAnotherDocument
<1>1. InboxInv => DuplicateIsAnotherDocument
  BY DEF InboxInv
<1> QED BY <1>1, InboxCorrect, PTL

\* Every bill printed in one of the six layouts, with any number of lines and
\* any of its fields unreadable, is held or posted as the vendor charged it.
THEOREM BillsPostedAsCharged == Spec => []LinesPostedAsCharged
<1>1. InboxInv => LinesPostedAsCharged
  BY PostingIsRight DEF InboxInv
<1> QED BY <1>1, InboxCorrect, PTL
=============================================================================
