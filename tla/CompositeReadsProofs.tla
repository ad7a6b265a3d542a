------------------------ MODULE CompositeReadsProofs ------------------------
(* Proofs about CompositeReads: what an answer without a warning holds, for *)
(* any number of reads and rows, any pages, retries and changes.           *)
EXTENDS CompositeReads, FiniteSetTheorems, TLAPS

Steps == {"start", "ask", "fetch", "sleep", "scan", "jobs", "store", "done", "thrown"}
Warnings == {"partial_pagination_failure", "truncated_at_max_pages", "capped"}
Collected == [items : Seq(Rows), pageCount : Nat, truncated : BOOLEAN,
              failed : BOOLEAN, warnings : SUBSET Warnings]

TypeOK ==
  /\ listing \in [Reads -> Seq(Rows)]
  /\ pc \in [Reads -> Steps]
  /\ page \in [Reads -> Nat \ {0}]
  /\ out \in [Reads -> Collected]
  /\ cached \in Reads \cup {NoRead}
  /\ from \in [Reads -> Reads]
  /\ steady \in [Reads -> SUBSET Rows]
  /\ disturbed \in [Reads -> SUBSET {"inserted", "removed"}]

\* The rows of a list after its first n, and a list cut after them.
Beyond(list, n) == {list[i] : i \in {j \in DOMAIN list : n < j}}
IsCut(items, list, n) ==
  /\ Len(items) = IF n < Len(list) THEN n ELSE Len(list)
  /\ \A i \in DOMAIN items : items[i] = list[i]

\* Rows on the pages a read has asked for already.
Passed(r) == (page[r] - 1) * PageSize
List(r) == listing[Query(r)]

NotBegun(r) ==
  pc[r] = "start" => page[r] = 1 /\ out[r] = Nothing /\ steady[r] = {} /\ disturbed[r] = {}

\* What was listed throughout is collected or still to come, unless a row was
\* removed; nothing else is collected, unless the list changed.
Collecting(r) ==
  UnderWay(r) =>
    /\ "removed" \notin disturbed[r] =>
         steady[r] \subseteq ToSet(out[r].items) \cup Beyond(List(r), Passed(r))
    /\ disturbed[r] = {} =>
         steady[r] = ToSet(List(r)) /\ IsCut(out[r].items, List(r), Passed(r))

\* Nothing of the list was left out.
Whole(r) == ~out[r].truncated /\ ~out[r].failed /\ ~WindowFilled(out[r].items)

CollectedAll(r) ==
  pc[r] \in {"jobs", "store", "done"} /\ Whole(r) =>
    /\ "removed" \notin disturbed[r] => steady[r] \subseteq ToSet(out[r].items)
    /\ disturbed[r] = {} => steady[r] = ToSet(out[r].items) /\ IsInjective(out[r].items)

Warned(r) ==
  /\ out[r].truncated \/ out[r].failed => out[r].warnings # {}
  /\ out[r].failed \/ pc[r] \in {"ask", "fetch", "sleep"} => tool = "composite"

ReadInv(r) == NotBegun(r) /\ Collecting(r) /\ CollectedAll(r) /\ Warned(r)

\* What is served from the cache was collected to its end.
CacheIsDone ==
  /\ cached # NoRead => pc[cached] = "done"
  /\ \A r \in Reads : from[r] = r \/ pc[from[r]] = "done"

CompositeInv ==
  /\ TypeOK
  /\ \A q \in Reads : IsInjective(listing[q])
  /\ \A r \in Reads : ReadInv(r)
  /\ CacheIsDone

-----------------------------------------------------------------------------
(* Sequences of rows. *)

LEMMA ToSetMember ==
  ASSUME NEW list \in Seq(Rows), NEW row
  PROVE  row \in ToSet(list) <=> \E i \in 1..Len(list) : list[i] = row
  BY DEF ToSet

LEMMA Places ==
  ASSUME NEW list \in Seq(Rows)
  PROVE  DOMAIN list = 1..Len(list) /\ Len(list) \in Nat
  OBVIOUS

LEMMA Concatenated ==
  ASSUME NEW a \in Seq(Rows), NEW b \in Seq(Rows)
  PROVE  /\ a \o b \in Seq(Rows)
         /\ Len(a \o b) = Len(a) + Len(b)
         /\ \A i \in 1..Len(a) : (a \o b)[i] = a[i]
         /\ \A i \in 1..Len(b) : (a \o b)[Len(a) + i] = b[i]
  OBVIOUS

LEMMA PlaceAfter ==
  ASSUME NEW n \in Nat, NEW i \in 1..n, NEW j \in i..n - 1
  PROVE  j - i + 1 \in 1..n - i /\ i - 1 + (j - i + 1) = j /\ i + (j - i + 1) = j + 1
  OBVIOUS

(* A place from i on moves back by one. *)
LEMMA RemoveArithmetic ==
  ASSUME NEW all \in Nat, NEW i \in 1..all, NEW list \in [1..all -> Rows],
         NEW new \in [1..all - 1 -> Rows],
         \A j \in 1..i - 1 : new[j] = list[j],
         \A j \in i..all - 1 : new[j] = list[j + 1],
         \A j, k \in 1..all : list[j] = list[k] => j = k
  PROVE  \A j, k \in 1..all - 1 : new[j] = new[k] => j = k
<1>1. ASSUME NEW j \in 1..all - 1
      PROVE  \E k \in 1..all : new[j] = list[k] /\ k = IF j < i THEN j ELSE j + 1
  <2>1. CASE j < i
    BY <2>1
  <2>2. CASE i <= j
    <3>1. j \in i..all - 1 /\ j + 1 \in 1..all
      BY <2>2
    <3> QED
      BY <2>2, <3>1
  <2> QED
    BY <2>1, <2>2
<1> QED
  BY <1>1

(* A page that ends at "last". *)
LEMMA PageRows ==
  ASSUME NEW list \in Seq(Rows), NEW passed \in Nat, NEW last \in Nat, last <= Len(list)
  PROVE  LET rows == SubSeq(list, passed + 1, last) IN
         /\ rows \in Seq(Rows)
         /\ Len(rows) = IF passed < last THEN last - passed ELSE 0
         /\ \A i \in 1..Len(rows) : rows[i] = list[passed + i]
  OBVIOUS

(* A page: the places of a list of length "all" after the first "passed";  *)
(* "both" is what was had, followed by what the page got.                   *)
NextPage(list, all, items, had, rows, got, both, passed) ==
  /\ all \in Nat /\ had \in Nat /\ got \in Nat /\ passed \in Nat
  /\ got = IF passed + PageSize < all THEN PageSize
           ELSE IF passed < all THEN all - passed ELSE 0
  /\ \A i \in 1..got : rows[i] = list[passed + i]
  /\ \A i \in 1..had : both[i] = items[i]
  /\ \A i \in 1..got : both[had + i] = rows[i]

(* Every row of the page is among what was collected, a prefix grows to a   *)
(* prefix, and a page that is not full is the last.                         *)
LEMMA PageArithmetic ==
  ASSUME NEW list, NEW all, NEW items, NEW had, NEW rows, NEW got, NEW both, NEW passed,
         NextPage(list, all, items, had, rows, got, both, passed)
  PROVE  /\ \A i \in 1..all : passed < i /\ i <= passed + PageSize =>
              had + (i - passed) \in 1..had + got /\ both[had + (i - passed)] = list[i]
         /\ /\ had = (IF passed < all THEN passed ELSE all)
            /\ \A i \in 1..had : items[i] = list[i]
            => /\ had + got = (IF passed + PageSize < all THEN passed + PageSize ELSE all)
               /\ \A i \in 1..had + got : both[i] = list[i]
         /\ got < PageSize \/ all <= passed + PageSize =>
              \A i \in 1..all : i <= passed + PageSize
<1>0. /\ all \in Nat /\ had \in Nat /\ got \in Nat /\ passed \in Nat /\ PageSize \in Nat \ {0}
      /\ got = IF passed + PageSize < all THEN PageSize
               ELSE IF passed < all THEN all - passed ELSE 0
  BY PagedReadAssumption DEF NextPage
<1>1. ASSUME NEW i \in 1..all, passed < i, i <= passed + PageSize
      PROVE  had + (i - passed) \in 1..had + got /\ both[had + (i - passed)] = list[i]
  <2>1. i - passed \in 1..got /\ passed + (i - passed) = i
    BY <1>0, <1>1
  <2>2. had + (i - passed) \in 1..had + got
    BY <1>0, <2>1
  <2>3. both[had + (i - passed)] = rows[i - passed] /\ rows[i - passed] = list[passed + (i - passed)]
    BY <2>1 DEF NextPage
  <2> QED
    BY <2>1, <2>2, <2>3
<1>2. ASSUME had = (IF passed < all THEN passed ELSE all), \A i \in 1..had : items[i] = list[i]
      PROVE  /\ had + got = (IF passed + PageSize < all THEN passed + PageSize ELSE all)
             /\ \A i \in 1..had + got : both[i] = list[i]
  <2>1. had + got = (IF passed + PageSize < all THEN passed + PageSize ELSE all)
    BY <1>0, <1>2
  <2>2. ASSUME NEW i \in 1..had + got, had < i PROVE both[i] = list[i]
    <3>1. /\ had = passed /\ i \in 1..all /\ passed < i /\ i <= passed + PageSize
          /\ had + (i - passed) = i
      BY <1>0, <1>2, <2>1, <2>2
    <3> QED
      BY <1>1, <3>1
  <2>3. ASSUME NEW i \in 1..had PROVE both[i] = list[i]
    BY <1>2 DEF NextPage
  <2> QED
    BY <1>0, <2>1, <2>2, <2>3
<1>3. ASSUME got < PageSize \/ all <= passed + PageSize PROVE \A i \in 1..all : i <= passed + PageSize
  BY <1>0, <1>3
<1> QED
  BY <1>1, <1>2, <1>3

LEMMA OnePageMore ==
  ASSUME NEW list \in Seq(Rows), NEW items \in Seq(Rows), NEW passed \in Nat, NEW rows,
         rows = SubSeq(list, passed + 1,
                       IF passed + PageSize < Len(list) THEN passed + PageSize ELSE Len(list))
  PROVE  /\ items \o rows \in Seq(Rows)
         /\ ToSet(items) \subseteq ToSet(items \o rows)
         /\ Beyond(list, passed) \subseteq ToSet(items \o rows) \cup Beyond(list, passed + PageSize)
         /\ IsCut(items, list, passed) => IsCut(items \o rows, list, passed + PageSize)
         /\ Len(rows) < PageSize \/ Len(list) <= passed + PageSize =>
              Beyond(list, passed + PageSize) = {}
<1> DEFINE last == IF passed + PageSize < Len(list) THEN passed + PageSize ELSE Len(list)
<1>0. PageSize \in Nat \ {0}
  BY PagedReadAssumption
<1>1. last \in Nat /\ last <= Len(list) /\ Len(list) \in Nat /\ Len(items) \in Nat
  BY <1>0
<1>2. /\ rows \in Seq(Rows)
      /\ Len(rows) = IF passed < last THEN last - passed ELSE 0
      /\ \A i \in 1..Len(rows) : rows[i] = list[passed + i]
  BY <1>1, PageRows
<1> DEFINE both == items \o rows
<1>3. /\ both \in Seq(Rows) /\ Len(both) = Len(items) + Len(rows)
      /\ \A i \in 1..Len(items) : both[i] = items[i]
      /\ \A i \in 1..Len(rows) : both[Len(items) + i] = rows[i]
  BY <1>2, Concatenated
<1> DEFINE all == Len(list)
           had == Len(items)
           got == Len(rows)
<1>4. got = IF passed + PageSize < all THEN PageSize ELSE IF passed < all THEN all - passed ELSE 0
  BY <1>0, <1>1, <1>2
<1>5. got \in Nat
  BY <1>2
<1> HIDE DEF both
<1>6. NextPage(list, all, items, had, rows, got, both, passed)
  <2> HIDE DEF all, had, got, last
  <2>1. all \in Nat /\ had \in Nat
    BY <1>1 DEF all, had
  <2>2. \A i \in 1..got : rows[i] = list[passed + i]
    BY <1>2 DEF got
  <2>3. /\ \A i \in 1..had : both[i] = items[i]
        /\ \A i \in 1..got : both[had + i] = rows[i]
    BY <1>3 DEF had, got
  <2> QED
    BY <1>4, <1>5, <2>1, <2>2, <2>3 DEF NextPage
<1>7. DOMAIN list = 1..all /\ DOMAIN items = 1..had /\ DOMAIN both = 1..had + got
  <2>1. DOMAIN list = 1..Len(list) /\ DOMAIN items = 1..Len(items)
    OBVIOUS
  <2>2. DOMAIN both = 1..Len(both)
    BY <1>3, Places
  <2>3. DOMAIN both = 1..Len(items) + Len(rows)
    BY <1>3, <2>2
  <2> QED
    BY <2>1, <2>3
<1>8. Len(both) = had + got
  BY <1>3
<1> HIDE DEF all, had, got, last
<1>9. /\ \A i \in 1..all : passed < i /\ i <= passed + PageSize =>
           had + (i - passed) \in 1..had + got /\ both[had + (i - passed)] = list[i]
      /\ /\ had = (IF passed < all THEN passed ELSE all)
         /\ \A i \in 1..had : items[i] = list[i]
         => /\ had + got = (IF passed + PageSize < all THEN passed + PageSize ELSE all)
            /\ \A i \in 1..had + got : both[i] = list[i]
      /\ got < PageSize \/ all <= passed + PageSize =>
           \A i \in 1..all : i <= passed + PageSize
  BY <1>6, PageArithmetic
<1>10. ToSet(items) \subseteq ToSet(both)
  <2>1. \A i \in 1..had : i \in 1..had + got /\ both[i] = items[i]
    BY <1>6 DEF NextPage
  <2> QED
    BY <1>7, <2>1 DEF ToSet
<1>11. Beyond(list, passed) \subseteq ToSet(both) \cup Beyond(list, passed + PageSize)
  <2> SUFFICES ASSUME NEW i \in 1..all, passed < i, ~(passed + PageSize < i)
               PROVE  list[i] \in ToSet(both)
    BY <1>7 DEF Beyond
  <2>1. i <= passed + PageSize
    BY <1>0, <1>6 DEF NextPage
  <2>2. had + (i - passed) \in 1..had + got /\ both[had + (i - passed)] = list[i]
    BY <1>9, <2>1
  <2> QED
    BY <1>7, <2>2 DEF ToSet
<1>12. IsCut(items, list, passed) => IsCut(both, list, passed + PageSize)
  <2>1. IsCut(items, list, passed) <=>
          /\ had = (IF passed < all THEN passed ELSE all)
          /\ \A i \in 1..had : items[i] = list[i]
    BY <1>7 DEF IsCut, all, had
  <2>2. IsCut(both, list, passed + PageSize) <=>
          /\ had + got = (IF passed + PageSize < all THEN passed + PageSize ELSE all)
          /\ \A i \in 1..had + got : both[i] = list[i]
    <3>1. Len(both) = had + got /\ Len(list) = all
      BY <1>8 DEF all
    <3> QED
      BY <1>7, <3>1, Zenon DEF IsCut
  <2> QED
    BY <1>9, <2>1, <2>2, Zenon
<1>13. ASSUME got < PageSize \/ all <= passed + PageSize
       PROVE  Beyond(list, passed + PageSize) = {}
  <2>1. \A i \in 1..all : i <= passed + PageSize
    BY <1>9, <1>13
  <2>2. \A i \in 1..all : ~(passed + PageSize < i)
    BY <1>0, <2>1
  <2> QED
    BY <1>7, <2>2 DEF Beyond
<1> QED
  BY <1>3, <1>10, <1>11, <1>12, <1>13 DEF both, got, all

(* A list that is cut after its end is the list. *)
LEMMA CutAtEnd ==
  ASSUME NEW list \in Seq(Rows), NEW items \in Seq(Rows), NEW n \in Nat,
         IsCut(items, list, n), Beyond(list, n) = {}, IsInjective(list)
  PROVE  ToSet(items) = ToSet(list) /\ IsInjective(items)
<1>1. ASSUME n < Len(list) PROVE FALSE
  <2>1. n + 1 \in DOMAIN list /\ n < n + 1
    BY <1>1
  <2> QED
    BY <2>1 DEF Beyond
<1>2. Len(items) = Len(list) /\ \A i \in 1..Len(items) : items[i] = list[i]
  BY <1>1 DEF IsCut
<1> QED
  BY <1>2, ToSetMember DEF IsInjective

(* A row that enters a list moves the others, at most, on. *)
LEMMA RowsMoved ==
  ASSUME NEW list \in Seq(Rows), NEW new \in Seq(Rows), NEW i \in 1..Len(list) + 1,
         NEW row \in Rows \ ToSet(list), IsInjective(list),
         Len(new) = Len(list) + 1,
         \A j \in 1..i - 1 : new[j] = list[j],
         new[i] = row,
         \A j \in i..Len(list) : new[j + 1] = list[j]
  PROVE  IsInjective(new) /\ \A n \in Nat : Beyond(list, n) \subseteq Beyond(new, n)
<1>1. /\ list \in [1..Len(list) -> Rows] /\ new \in [1..Len(new) -> Rows]
      /\ Len(list) \in Nat /\ Len(new) \in Nat /\ i \in 1..Len(new)
  OBVIOUS
<1>2. /\ \A j \in 1..Len(list) : list[j] # row
      /\ \A j, k \in 1..Len(list) : list[j] = list[k] => j = k
  BY ToSetMember DEF IsInjective
<1>3. ASSUME NEW j \in 1..Len(list) PROVE \E k \in 1..Len(new) : j <= k /\ new[k] = list[j]
  <2>1. CASE j < i
    BY <1>1, <2>1
  <2>2. CASE i <= j
    <3>1. j \in i..Len(list) /\ j + 1 \in 1..Len(new) /\ j <= j + 1
      BY <1>1, <2>2
    <3> QED
      BY <3>1
  <2> QED
    BY <1>1, <2>1, <2>2
<1>4. ASSUME NEW n \in Nat, NEW j \in 1..Len(list), n < j PROVE list[j] \in Beyond(new, n)
  <2>1. PICK k \in 1..Len(new) : j <= k /\ new[k] = list[j]
    BY <1>3
  <2>2. k \in DOMAIN new /\ n < k
    BY <1>1, <1>4, <2>1
  <2> QED
    BY <2>1, <2>2 DEF Beyond
<1>5. \A n \in Nat : Beyond(list, n) \subseteq Beyond(new, n)
  <2> TAKE n \in Nat
  <2>1. \A x \in Beyond(list, n) : \E j \in 1..Len(list) : n < j /\ x = list[j]
    BY DEF Beyond
  <2> QED
    BY <1>4, <2>1
<1>6. ASSUME NEW j \in 1..Len(new), j # i
      PROVE  \E k \in 1..Len(list) : new[j] = list[k] /\ k = IF j < i THEN j ELSE j - 1
  <2>1. CASE j < i
    BY <1>1, <2>1
  <2>2. CASE i < j
    <3>1. j - 1 \in i..Len(list) /\ (j - 1) + 1 = j /\ j - 1 \in 1..Len(list)
      BY <1>1, <2>2
    <3>2. new[(j - 1) + 1] = list[j - 1]
      BY <3>1
    <3> QED
      BY <2>2, <3>1, <3>2
  <2> QED
    BY <1>1, <1>6, <2>1, <2>2
<1>7. ASSUME NEW j \in 1..Len(new), NEW k \in 1..Len(new), new[j] = new[k] PROVE j = k
  <2>1. ASSUME NEW m \in 1..Len(new), m # i PROVE new[m] # row
    BY <1>2, <1>6, <2>1
  <2>2. CASE j = i \/ k = i
    BY <1>7, <2>1, <2>2
  <2>3. CASE j # i /\ k # i
    BY <1>1, <1>2, <1>6, <1>7, <2>3
  <2> QED
    BY <2>2, <2>3
<1>8. IsInjective(new)
  BY <1>1, <1>7 DEF IsInjective
<1> QED
  BY <1>5, <1>8

(* A row enters a list it is not on, at its i-th place. *)
Enters(row, i, list, new) ==
  /\ list \in Seq(Rows) /\ IsInjective(list)
  /\ row \in Rows \ ToSet(list) /\ i \in 1..Len(list) + 1
  /\ new = SubSeq(list, 1, i - 1) \o <<row>> \o SubSeq(list, i, Len(list))

LEMMA Inserted ==
  ASSUME NEW list, NEW row, NEW i, NEW new, Enters(row, i, list, new)
  PROVE  /\ new \in Seq(Rows) /\ IsInjective(new)
         /\ \A n \in Nat : Beyond(list, n) \subseteq Beyond(new, n)
<1>0. /\ list \in Seq(Rows) /\ IsInjective(list)
      /\ row \in Rows \ ToSet(list) /\ i \in 1..Len(list) + 1
  BY DEF Enters
<1> DEFINE a == SubSeq(list, 1, i - 1)
           b == SubSeq(list, i, Len(list))
<1>1. a \in Seq(Rows) /\ Len(a) = i - 1 /\ \A j \in 1..i - 1 : a[j] = list[j]
  BY <1>0
<1>2. b \in Seq(Rows) /\ Len(b) = Len(list) - i + 1 /\ \A j \in 1..Len(list) - i + 1 : b[j] = list[i + j - 1]
  BY <1>0
<1>3. <<row>> \in Seq(Rows) /\ Len(<<row>>) = 1 /\ <<row>>[1] = row
  BY <1>0
<1> HIDE DEF a, b
<1> DEFINE c == a \o <<row>>
<1>4. c \in Seq(Rows) /\ Len(c) = i /\ c[i] = row /\ \A j \in 1..i - 1 : c[j] = a[j]
  <2>1. Len(c) = Len(a) + 1 /\ c \in Seq(Rows) /\ c[Len(a) + 1] = row
    BY <1>1, <1>3, Concatenated
  <2> QED
    BY <1>0, <1>1, <1>3, <2>1, Concatenated
<1> HIDE DEF c
<1> DEFINE d == c \o b
<1>5. /\ d \in Seq(Rows) /\ Len(d) = Len(c) + Len(b)
      /\ \A j \in 1..Len(c) : d[j] = c[j]
      /\ \A j \in 1..Len(b) : d[Len(c) + j] = b[j]
  BY <1>2, <1>4, Concatenated
<1>6. new = d
  BY DEF Enters, a, b, c
<1> HIDE DEF d
<1>7. /\ Len(d) = Len(list) + 1 /\ d[i] = row
      /\ \A j \in 1..i - 1 : d[j] = list[j]
  BY <1>0, <1>1, <1>2, <1>4, <1>5
<1>8. ASSUME NEW j \in i..Len(list) PROVE d[j + 1] = list[j]
  <2>1. j - i + 1 \in 1..Len(b) /\ i + (j - i + 1) = j + 1 /\ i + (j - i + 1) - 1 = j
    BY <1>0, <1>2, <1>8
  <2>2. d[i + (j - i + 1)] = b[j - i + 1] /\ b[j - i + 1] = list[i + (j - i + 1) - 1]
    BY <1>2, <1>4, <1>5, <2>1
  <2> QED
    BY <2>1, <2>2
<1>9. IsInjective(d) /\ \A n \in Nat : Beyond(list, n) \subseteq Beyond(d, n)
  BY <1>0, <1>5, <1>7, <1>8, RowsMoved
<1> QED
  BY <1>5, <1>6, <1>9

LEMMA Removed ==
  ASSUME NEW list \in Seq(Rows), NEW i \in DOMAIN list, IsInjective(list),
         NEW new, new = SubSeq(list, 1, i - 1) \o SubSeq(list, i + 1, Len(list))
  PROVE  new \in Seq(Rows) /\ IsInjective(new)
<1> DEFINE a == SubSeq(list, 1, i - 1)
           b == SubSeq(list, i + 1, Len(list))
<1>1. a \in Seq(Rows) /\ Len(a) = i - 1 /\ \A j \in 1..i - 1 : a[j] = list[j]
  OBVIOUS
<1>2. b \in Seq(Rows) /\ Len(b) = Len(list) - i /\ \A j \in 1..Len(list) - i : b[j] = list[i + j]
  OBVIOUS
<1> HIDE DEF a, b
<1> DEFINE d == a \o b
<1>3. /\ d \in Seq(Rows) /\ Len(d) = Len(a) + Len(b)
      /\ \A j \in 1..Len(a) : d[j] = a[j]
      /\ \A j \in 1..Len(b) : d[Len(a) + j] = b[j]
  BY <1>1, <1>2, Concatenated
<1>4. new = d
  BY DEF a, b
<1> HIDE DEF d
<1>5. Len(d) = Len(list) - 1 /\ \A j \in 1..i - 1 : d[j] = list[j]
  <2>1. Len(d) = Len(list) - 1
    BY <1>1, <1>2, <1>3
  <2>2. \A j \in 1..i - 1 : d[j] = a[j]
    BY <1>1, <1>3
  <2> QED
    BY <1>1, <2>1, <2>2
<1>6. ASSUME NEW j \in i..Len(list) - 1 PROVE d[j] = list[j + 1]
  <2>0. Len(list) \in Nat /\ i \in 1..Len(list) /\ Len(b) = Len(list) - i
    BY <1>2
  <2>1. j - i + 1 \in 1..Len(b) /\ i - 1 + (j - i + 1) = j /\ i + (j - i + 1) = j + 1
    BY <1>6, <2>0, PlaceAfter
  <2>2. d[i - 1 + (j - i + 1)] = b[j - i + 1] /\ b[j - i + 1] = list[i + (j - i + 1)]
    BY <1>1, <1>2, <1>3, <2>1
  <2> QED
    BY <2>1, <2>2
<1>7. /\ Len(list) \in Nat /\ i \in 1..Len(list)
      /\ \A j, k \in 1..Len(list) : list[j] = list[k] => j = k
  BY DEF IsInjective
<1>8. \A j, k \in 1..Len(list) - 1 : d[j] = d[k] => j = k
  <2> DEFINE all == Len(list)
  <2>0. list \in [1..all -> Rows] /\ d \in [1..all - 1 -> Rows]
    <3>1. d \in [1..Len(d) -> Rows] /\ list \in [1..Len(list) -> Rows]
      BY <1>3
    <3> QED
      BY <1>5, <3>1
  <2>1. all \in Nat /\ i \in 1..all
    BY <1>7
  <2>2. \A j \in 1..i - 1 : d[j] = list[j]
    BY <1>5
  <2>3. \A j \in i..all - 1 : d[j] = list[j + 1]
    BY <1>6
  <2>4. \A j, k \in 1..all : list[j] = list[k] => j = k
    BY <1>7
  <2> HIDE DEF all
  <2>5. \A j, k \in 1..all - 1 : d[j] = d[k] => j = k
    BY <2>0, <2>1, <2>2, <2>3, <2>4, RemoveArithmetic
  <2> QED
    BY <2>5 DEF all
<1>9. DOMAIN d = 1..Len(list) - 1
  BY <1>3, <1>5
<1> QED
  BY <1>3, <1>4, <1>8, <1>9 DEF IsInjective

-----------------------------------------------------------------------------
(* The invariant, action by action. *)

LEMMA Queried ==
  ASSUME NEW r \in Reads
  PROVE  Query(r) \in Reads
  BY DEF Query

LEMMA NothingCollected ==
  /\ Nothing \in Collected /\ Nothing.items = <<>>
  /\ ToSet(<<>>) = {} /\ IsInjective(<<>>)
  BY DEF Nothing, Collected, ToSet, IsInjective

LEMMA CompositeInit == Init => CompositeInv
<1> SUFFICES ASSUME Init PROVE CompositeInv
  OBVIOUS
<1>1. \A q \in Reads : listing[q] \in Seq(Rows) /\ IsInjective(listing[q])
  BY PagedReadAssumption DEF Init
<1>2. TypeOK
  <2>1. listing \in [Reads -> Seq(Rows)]
    BY <1>1 DEF Init
  <2>2. out \in [Reads -> Collected]
    BY NothingCollected DEF Init
  <2>3. pc \in [Reads -> Steps] /\ page \in [Reads -> Nat \ {0}] /\ from \in [Reads -> Reads]
    BY DEF Init, Steps
  <2>4. steady \in [Reads -> SUBSET Rows] /\ disturbed \in [Reads -> SUBSET {"inserted", "removed"}]
    BY DEF Init
  <2> QED
    BY <2>1, <2>2, <2>3, <2>4 DEF Init, TypeOK
<1>3. ASSUME NEW r \in Reads PROVE ReadInv(r)
  <2>1. /\ pc[r] = "start" /\ page[r] = 1 /\ out[r] = Nothing
        /\ steady[r] = {} /\ disturbed[r] = {}
    BY DEF Init
  <2>2. ~out[r].truncated /\ ~out[r].failed
    BY <2>1 DEF Nothing
  <2> QED
    BY <2>1, <2>2 DEF ReadInv, NotBegun, Collecting, UnderWay, CollectedAll, Warned
<1>4. CacheIsDone
  BY DEF Init, CacheIsDone
<1> QED
  BY <1>1, <1>2, <1>3, <1>4 DEF CompositeInv

(* A read that did not move, over a list that did not change, stands. *)
LEMMA ReadStands ==
  ASSUME NEW r \in Reads, ReadInv(r), tool' = tool, listing' = listing,
         pc'[r] = pc[r], page'[r] = page[r], out'[r] = out[r],
         steady'[r] = steady[r], disturbed'[r] = disturbed[r]
  PROVE  ReadInv(r)'
<1>1. List(r)' = List(r) /\ Passed(r)' = Passed(r) /\ UnderWay(r)' = UnderWay(r)
  BY DEF List, Query, Passed, UnderWay
<1>2. Whole(r)' = Whole(r)
  BY DEF Whole, WindowFilled
<1>3. NotBegun(r)'
  BY DEF ReadInv, NotBegun
<1>4. Collecting(r)'
  BY <1>1 DEF ReadInv, Collecting
<1>5. CollectedAll(r)'
  BY <1>2 DEF ReadInv, CollectedAll
<1>6. Warned(r)'
  BY DEF ReadInv, Warned
<1> QED
  BY <1>3, <1>4, <1>5, <1>6 DEF ReadInv

(* A step of one read that was not done, and of nothing else. *)
OneMoved(r) ==
  /\ pc[r] # "done"
  /\ tool' = tool /\ listing' = listing
  /\ \A s \in Reads \ {r} : /\ pc'[s] = pc[s] /\ page'[s] = page[s] /\ out'[s] = out[s]
                            /\ steady'[s] = steady[s] /\ disturbed'[s] = disturbed[s]

LEMMA OneMoves ==
  ASSUME CompositeInv, NEW r \in Reads, OneMoved(r), TypeOK', ReadInv(r)', CacheIsDone'
  PROVE  CompositeInv'
<1>1. ASSUME NEW s \in Reads \ {r} PROVE ReadInv(s)'
  <2>1. ReadInv(s)
    BY DEF CompositeInv
  <2> QED
    BY <2>1, ReadStands DEF OneMoved
<1>2. \A q \in Reads : IsInjective(listing'[q])
  BY DEF CompositeInv, OneMoved
<1> QED
  BY <1>1, <1>2 DEF CompositeInv

LEMMA CacheStands ==
  ASSUME CompositeInv, NEW r \in Reads, OneMoved(r), cached' = cached, from' = from
  PROVE  CacheIsDone'
<1>1. \A s \in Reads : pc[s] = "done" => pc'[s] = "done"
  BY DEF OneMoved
<1>2. (cached # NoRead => cached \in Reads) /\ \A s \in Reads : from[s] \in Reads
  BY DEF CompositeInv, TypeOK
<1> QED
  BY <1>1, <1>2 DEF CompositeInv, CacheIsDone

(* Steps that only move a read's place. *)
Moves == {<<"ask", "fetch">>, <<"fetch", "sleep">>, <<"sleep", "ask">>,
          <<"scan", "thrown">>, <<"jobs", "thrown">>, <<"jobs", "store">>}

LEMMA PlaceMoves ==
  ASSUME CompositeInv, NEW r \in Reads, NEW to, Go(r, to), <<pc[r], to>> \in Moves,
         UNCHANGED <<tool, listing, page, out, cached, from, steady, disturbed>>
  PROVE  CompositeInv'
<1>1. TypeOK /\ ReadInv(r) /\ pc \in [Reads -> Steps]
  BY DEF CompositeInv, TypeOK
<1>2. /\ pc'[r] = to /\ to # "start" /\ to # "done" /\ pc[r] # "done"
      /\ \A s \in Reads \ {r} : pc'[s] = pc[s]
      /\ to \in {"ask", "fetch", "sleep"} => pc[r] \in {"ask", "fetch", "sleep"}
      /\ to \in {"jobs", "store"} => pc[r] \in {"jobs", "store"}
      /\ to # "scan"
  BY <1>1 DEF Go, Moves
<1>3. pc' \in [Reads -> Steps]
  <2>1. to \in Steps
    BY DEF Moves, Steps
  <2> QED
    BY <1>1, <2>1 DEF Go
<1>4. TypeOK'
  BY <1>1, <1>3 DEF TypeOK
<1>5. ReadInv(r)'
  <2>1. List(r)' = List(r) /\ Passed(r)' = Passed(r) /\ (UnderWay(r)' => UnderWay(r))
    BY <1>2 DEF List, Query, Passed, UnderWay
  <2>2. Whole(r)' = Whole(r)
    BY DEF Whole, WindowFilled
  <2>3. NotBegun(r)'
    BY <1>2 DEF NotBegun
  <2>4. Collecting(r)'
    BY <1>1, <2>1 DEF ReadInv, Collecting
  <2>5. CollectedAll(r)'
    BY <1>1, <1>2, <2>2 DEF ReadInv, CollectedAll
  <2>6. Warned(r)'
    BY <1>1, <1>2 DEF ReadInv, Warned
  <2> QED
    BY <2>3, <2>4, <2>5, <2>6 DEF ReadInv
<1>6. OneMoved(r)
  BY <1>2 DEF OneMoved
<1>7. CacheIsDone'
  BY <1>6, CacheStands
<1> QED
  BY <1>4, <1>5, <1>6, <1>7, OneMoves

(* Nothing was passed yet: everything listed is still to come. *)
LEMMA NothingPassed ==
  ASSUME NEW list \in Seq(Rows)
  PROVE  Beyond(list, 0) = ToSet(list) /\ IsCut(<<>>, list, 0)
<1>1. Len(list) \in Nat /\ DOMAIN list = 1..Len(list)
  OBVIOUS
<1>2. Beyond(list, 0) = ToSet(list)
  BY <1>1 DEF Beyond, ToSet
<1>3. Len(<<>>) = 0 /\ DOMAIN <<>> = {}
  OBVIOUS
<1>4. IsCut(<<>>, list, 0)
  BY <1>1, <1>3 DEF IsCut
<1> QED
  BY <1>2, <1>4

LEMMA ReadBegins ==
  ASSUME CompositeInv, NEW r \in Reads, pc[r] = "start", NEW to, Go(r, to),
         (to = "ask" /\ tool = "composite") \/ to = "scan",
         Began(r), UNCHANGED <<tool, listing, page, out, cached, from, disturbed>>
  PROVE  CompositeInv'
<1>1. TypeOK /\ ReadInv(r) /\ pc \in [Reads -> Steps] /\ steady \in [Reads -> SUBSET Rows]
  BY DEF CompositeInv, TypeOK
<1>2. List(r) \in Seq(Rows)
  BY <1>1, Queried DEF TypeOK, List
<1>3. ToSet(List(r)) \in SUBSET Rows
  BY <1>2, ToSetMember
<1>4. /\ pc'[r] = to /\ \A s \in Reads \ {r} : pc'[s] = pc[s]
      /\ steady'[r] = ToSet(List(r)) /\ \A s \in Reads \ {r} : steady'[s] = steady[s]
  BY <1>1 DEF Go, Began, List
<1>5. TypeOK'
  <2>1. pc' \in [Reads -> Steps]
    BY <1>1 DEF Go, Steps
  <2>2. steady' \in [Reads -> SUBSET Rows]
    BY <1>1, <1>3 DEF Began, List
  <2> QED
    BY <1>1, <2>1, <2>2 DEF TypeOK
<1>6. page[r] = 1 /\ out[r] = Nothing /\ disturbed[r] = {}
  BY <1>1 DEF ReadInv, NotBegun
<1>7. ReadInv(r)'
  <2>1. List(r)' = List(r) /\ out'[r].items = <<>>
    BY <1>6, NothingCollected DEF List, Query
  <2>2. Passed(r)' = 0
    BY <1>6, PagedReadAssumption DEF Passed
  <2>3. Collecting(r)'
    BY <1>2, <1>4, <2>1, <2>2, NothingPassed DEF Collecting
  <2>4. NotBegun(r)' /\ CollectedAll(r)'
    BY <1>4 DEF NotBegun, CollectedAll
  <2>5. Warned(r)'
    BY <1>1, <1>4 DEF ReadInv, Warned
  <2> QED
    BY <2>3, <2>4, <2>5 DEF ReadInv
<1>8. OneMoved(r)
  BY <1>4 DEF OneMoved
<1>9. CacheIsDone'
  BY <1>8, CacheStands
<1> QED
  BY <1>5, <1>7, <1>8, <1>9, OneMoves

LEMMA FailureStep ==
  ASSUME CompositeInv, NEW r \in Reads, PageFailure(r)
  PROVE  CompositeInv'
<1>1. TypeOK /\ ReadInv(r) /\ pc \in [Reads -> Steps] /\ out \in [Reads -> Collected]
  BY DEF CompositeInv, TypeOK
<1>2. /\ pc'[r] = "done" /\ pc[r] \in {"ask", "fetch"}
      /\ \A s \in Reads \ {r} : pc'[s] = pc[s] /\ out'[s] = out[s]
      /\ pc' \in [Reads -> Steps]
  BY <1>1 DEF PageFailure, Go, Steps
<1>3. /\ out'[r].failed = TRUE /\ out'[r].truncated = out[r].truncated
      /\ out'[r].warnings = out[r].warnings \cup {"partial_pagination_failure"}
  BY <1>1 DEF PageFailure, Collected
<1>4. out' \in [Reads -> Collected]
  <2>1. out[r] \in Collected /\ out[r].warnings \cup {"partial_pagination_failure"} \in SUBSET Warnings
    BY <1>1 DEF Collected, Warnings
  <2>2. [out[r] EXCEPT !.failed = TRUE,
                       !.warnings = out[r].warnings \cup {"partial_pagination_failure"}] \in Collected
    BY <2>1 DEF Collected
  <2>3. out' = [out EXCEPT ![r] = [out[r] EXCEPT !.failed = TRUE,
                       !.warnings = out[r].warnings \cup {"partial_pagination_failure"}]]
    BY <1>1 DEF PageFailure
  <2> QED
    BY <1>1, <2>2, <2>3
<1>5. TypeOK'
  BY <1>1, <1>2, <1>4 DEF TypeOK, PageFailure
<1>6. ReadInv(r)'
  BY <1>1, <1>2, <1>3 DEF ReadInv, NotBegun, Collecting, UnderWay, CollectedAll, Whole, Warned, PageFailure
<1>7. OneMoved(r)
  BY <1>2 DEF OneMoved, PageFailure
<1>8. CacheIsDone'
  BY <1>7, CacheStands DEF PageFailure
<1> QED
  BY <1>5, <1>6, <1>7, <1>8, OneMoves

LEMMA CollectedMore ==
  ASSUME NEW has \in Collected, NEW items \in Seq(Rows), NEW cut \in BOOLEAN,
         NEW warnings \in SUBSET Warnings
  PROVE  [has EXCEPT !.items = items, !.pageCount = @ + 1,
                     !.truncated = cut, !.warnings = warnings] \in Collected
<1> DEFINE count == has.pageCount + 1
<1>1. count \in Nat
  BY DEF Collected
<1> HIDE DEF count
<1>2. [has EXCEPT !.items = items, !.pageCount = count,
                  !.truncated = cut, !.warnings = warnings] \in Collected
  BY <1>1 DEF Collected
<1> QED
  BY <1>2 DEF count

LEMMA PagePlaces ==
  ASSUME NEW p \in Nat \ {0}, NEW size \in Nat
  PROVE  (p - 1) * size \in Nat /\ (p - 1) * size + size = p * size /\ (p + 1) - 1 = p
<1>1. PICK k \in Nat : p = k + 1
  <2>1. p - 1 \in Nat /\ p = (p - 1) + 1
    OBVIOUS
  <2> QED
    BY <2>1
<1>2. p - 1 = k /\ k * size \in Nat
  BY <1>1
<1>3. k * size + size = (k + 1) * size
  BY <1>1
<1> QED
  BY <1>1, <1>2, <1>3

(* What a read has once it took a page. *)
LEMMA PageTaken ==
  ASSUME CompositeInv, NEW r \in Reads, UnderWay(r),
         NEW items, items = out[r].items \o PageItems(r)
  PROVE  /\ List(r) \in Seq(Rows) /\ IsInjective(List(r))
         /\ items \in Seq(Rows) /\ page[r] * PageSize \in Nat
         /\ "removed" \notin disturbed[r] =>
              steady[r] \subseteq ToSet(items) \cup Beyond(List(r), page[r] * PageSize)
         /\ disturbed[r] = {} =>
              steady[r] = ToSet(List(r)) /\ IsCut(items, List(r), page[r] * PageSize)
         /\ ~More(r) \/ Len(PageItems(r)) < PageSize =>
              Beyond(List(r), page[r] * PageSize) = {}
<1>1. /\ List(r) \in Seq(Rows) /\ IsInjective(List(r)) /\ out[r].items \in Seq(Rows)
      /\ page[r] \in Nat \ {0} /\ PageSize \in Nat
  BY Queried, PagedReadAssumption DEF CompositeInv, TypeOK, Collected, List
<1>2. /\ Passed(r) \in Nat /\ Passed(r) + PageSize = page[r] * PageSize
      /\ page[r] * PageSize \in Nat
  <2>1. Passed(r) \in Nat /\ Passed(r) + PageSize = page[r] * PageSize
    BY <1>1, PagePlaces DEF Passed
  <2> QED
    BY <1>1, <2>1
<1>3. PageItems(r) = SubSeq(List(r), Passed(r) + 1,
                            IF Passed(r) + PageSize < Len(List(r)) THEN Passed(r) + PageSize
                            ELSE Len(List(r)))
  BY <1>2 DEF PageItems, Passed, List
<1>4. ~More(r) => Len(List(r)) <= Passed(r) + PageSize
  <2>1. Len(List(r)) \in Nat
    BY <1>1
  <2>2. ~More(r) => ~(page[r] * PageSize < Len(List(r)))
    BY DEF More, List
  <2> QED
    BY <1>2, <2>1, <2>2
<1>5. /\ items \in Seq(Rows)
      /\ ToSet(out[r].items) \subseteq ToSet(items)
      /\ Beyond(List(r), Passed(r)) \subseteq ToSet(items) \cup Beyond(List(r), Passed(r) + PageSize)
      /\ IsCut(out[r].items, List(r), Passed(r)) => IsCut(items, List(r), Passed(r) + PageSize)
      /\ Len(PageItems(r)) < PageSize \/ Len(List(r)) <= Passed(r) + PageSize =>
           Beyond(List(r), Passed(r) + PageSize) = {}
  BY <1>1, <1>2, <1>3, OnePageMore
<1>6. Collecting(r)
  BY DEF CompositeInv, ReadInv
<1> QED
  BY <1>1, <1>2, <1>4, <1>5, <1>6 DEF Collecting

(* A read that took a page and goes on, or ends with the whole list.        *)
LEMMA PageLeaves ==
  ASSUME CompositeInv, NEW r \in Reads, UnderWay(r), tool' = tool, listing' = listing,
         steady' = steady, disturbed' = disturbed,
         page' = [page EXCEPT ![r] = @ + 1],
         out'[r].items = out[r].items \o PageItems(r),
         pc'[r] # "start",
         pc'[r] \in {"jobs", "store", "done"} /\ Whole(r)' =>
           ~More(r) \/ Len(PageItems(r)) < PageSize
  PROVE  NotBegun(r)' /\ Collecting(r)' /\ CollectedAll(r)'
<1> DEFINE items == out'[r].items
           next == page[r] * PageSize
<1>1. /\ List(r) \in Seq(Rows) /\ IsInjective(List(r))
      /\ items \in Seq(Rows) /\ next \in Nat
      /\ "removed" \notin disturbed[r] => steady[r] \subseteq ToSet(items) \cup Beyond(List(r), next)
      /\ disturbed[r] = {} => steady[r] = ToSet(List(r)) /\ IsCut(items, List(r), next)
      /\ ~More(r) \/ Len(PageItems(r)) < PageSize => Beyond(List(r), next) = {}
  BY PageTaken
<1>2. List(r)' = List(r) /\ Passed(r)' = next
  <2>1. page[r] \in Nat \ {0} /\ page'[r] = page[r] + 1
    BY DEF CompositeInv, TypeOK
  <2>2. page'[r] - 1 = page[r]
    BY <2>1
  <2> QED
    BY <2>2 DEF List, Query, Passed
<1> HIDE DEF items, next
<1>3. NotBegun(r)'
  BY DEF NotBegun
<1>4. Collecting(r)'
  BY <1>1, <1>2 DEF Collecting, items
<1>5. CollectedAll(r)'
  <2> SUFFICES ASSUME Beyond(List(r), next) = {}
               PROVE  /\ "removed" \notin disturbed[r] => steady[r] \subseteq ToSet(items)
                      /\ disturbed[r] = {} => steady[r] = ToSet(items) /\ IsInjective(items)
    BY <1>1 DEF CollectedAll, items
  <2>1. disturbed[r] = {} => ToSet(items) = ToSet(List(r)) /\ IsInjective(items)
    BY <1>1, CutAtEnd
  <2> QED
    BY <1>1, <2>1
<1> QED
  BY <1>3, <1>4, <1>5

LEMMA TakeStep ==
  ASSUME CompositeInv, NEW r \in Reads, TakePage(r)
  PROVE  CompositeInv'
<1> DEFINE full == ~LooksDone(r) /\ page[r] = MaxPages
           items == out[r].items \o PageItems(r)
           warnings == out[r].warnings \cup IF full THEN {"truncated_at_max_pages"} ELSE {}
           to == IF LooksDone(r) \/ full THEN "done" ELSE "ask"
<1>1. TypeOK /\ ReadInv(r) /\ pc \in [Reads -> Steps] /\ out \in [Reads -> Collected]
      /\ out[r] \in Collected
  BY DEF CompositeInv, TypeOK
<1>2. UnderWay(r) /\ pc[r] = "fetch"
  BY DEF TakePage, UnderWay
<1>3. items \in Seq(Rows)
  BY <1>2, PageTaken
<1>4. /\ pc' = [pc EXCEPT ![r] = to] /\ page' = [page EXCEPT ![r] = @ + 1]
      /\ out' = [out EXCEPT ![r] = [out[r] EXCEPT !.items = items, !.pageCount = @ + 1,
                                                  !.truncated = full, !.warnings = warnings]]
      /\ UNCHANGED <<tool, listing, cached, from, steady, disturbed>>
  BY <1>1 DEF TakePage, Go, Collected
<1>5. /\ full \in BOOLEAN /\ warnings \in SUBSET Warnings /\ to \in {"done", "ask"}
      /\ to = "done" /\ ~full => LooksDone(r)
      /\ full => warnings # {}
      /\ out[r].warnings # {} => warnings # {}
  BY <1>1 DEF Collected, Warnings
<1>6. LooksDone(r) => ~More(r) \/ Len(PageItems(r)) < PageSize
  BY DEF LooksDone
<1> HIDE DEF full, items, warnings, to
<1>7. /\ pc'[r] = to /\ pc' \in [Reads -> Steps]
      /\ \A s \in Reads \ {r} : pc'[s] = pc[s] /\ page'[s] = page[s] /\ out'[s] = out[s]
  BY <1>1, <1>4, <1>5 DEF Steps, TypeOK
<1>8. [out[r] EXCEPT !.items = items, !.pageCount = @ + 1,
                     !.truncated = full, !.warnings = warnings] \in Collected
  BY <1>1, <1>3, <1>5, CollectedMore
<1>9. out' \in [Reads -> Collected]
  BY <1>1, <1>4, <1>8
<1>10. /\ out'[r].items = items /\ out'[r].truncated = full
       /\ out'[r].warnings = warnings /\ out'[r].failed = out[r].failed
  BY <1>1, <1>4 DEF Collected
<1>11. TypeOK'
  <2>1. page' \in [Reads -> Nat \ {0}]
    BY <1>1, <1>4 DEF TypeOK
  <2> QED
    BY <1>1, <1>4, <1>7, <1>9, <2>1 DEF TypeOK
<1>12. NotBegun(r)' /\ Collecting(r)' /\ CollectedAll(r)'
  <2>1. Whole(r)' => ~full
    BY <1>10 DEF Whole
  <2>2. out'[r].items = out[r].items \o PageItems(r)
    BY <1>10 DEF items
  <2>3. pc'[r] # "start"
    BY <1>5, <1>7
  <2>4. pc'[r] \in {"jobs", "store", "done"} /\ Whole(r)' => ~More(r) \/ Len(PageItems(r)) < PageSize
    BY <1>5, <1>6, <1>7, <2>1
  <2> QED
    BY <1>2, <1>4, <2>2, <2>3, <2>4, PageLeaves
<1>13. Warned(r)'
  BY <1>1, <1>2, <1>4, <1>5, <1>10 DEF ReadInv, Warned
<1>14. ReadInv(r)'
  BY <1>12, <1>13 DEF ReadInv
<1>15. OneMoved(r)
  BY <1>2, <1>4, <1>7 DEF OneMoved
<1>16. CacheIsDone'
  BY <1>4, <1>15, CacheStands
<1> QED
  BY <1>11, <1>14, <1>15, <1>16, OneMoves

LEMMA ScanStep ==
  ASSUME CompositeInv, NEW r \in Reads, ScanPage(r)
  PROVE  CompositeInv'
<1> DEFINE items == out[r].items \o PageItems(r)
           cut == CutShort(r, items)
           warnings == out[r].warnings \cup IF cut THEN {"capped"} ELSE {}
           to == IF ~ScanEnds(r, items) THEN "scan"
                 ELSE IF tool = "list_jobs_today" /\ items # <<>> THEN "jobs" ELSE "store"
<1>1. TypeOK /\ ReadInv(r) /\ pc \in [Reads -> Steps] /\ out \in [Reads -> Collected]
      /\ out[r] \in Collected
  BY DEF CompositeInv, TypeOK
<1>2. UnderWay(r) /\ pc[r] = "scan"
  BY DEF ScanPage, UnderWay
<1>3. items \in Seq(Rows)
  BY <1>2, PageTaken
<1>4. /\ pc' = [pc EXCEPT ![r] = to] /\ page' = [page EXCEPT ![r] = @ + 1]
      /\ out' = [out EXCEPT ![r] = [out[r] EXCEPT !.items = items, !.pageCount = @ + 1,
                                                  !.truncated = cut, !.warnings = warnings]]
      /\ UNCHANGED <<tool, listing, cached, from, steady, disturbed>>
  BY <1>1 DEF ScanPage, Go, Collected
<1>5. /\ cut \in BOOLEAN /\ warnings \in SUBSET Warnings /\ to \in {"scan", "jobs", "store"}
      /\ to # "scan" => ScanEnds(r, items)
      /\ cut => warnings # {}
      /\ out[r].warnings # {} => warnings # {}
  BY <1>1 DEF Collected, Warnings, CutShort, More
<1>6. ScanEnds(r, items) /\ ~cut /\ ~WindowFilled(items) => ~More(r)
  BY DEF ScanEnds, CutShort
<1> HIDE DEF items, cut, warnings, to
<1>7. /\ pc'[r] = to /\ pc' \in [Reads -> Steps]
      /\ \A s \in Reads \ {r} : pc'[s] = pc[s] /\ page'[s] = page[s] /\ out'[s] = out[s]
  BY <1>1, <1>4, <1>5 DEF Steps, TypeOK
<1>8. [out[r] EXCEPT !.items = items, !.pageCount = @ + 1,
                     !.truncated = cut, !.warnings = warnings] \in Collected
  BY <1>1, <1>3, <1>5, CollectedMore
<1>9. out' \in [Reads -> Collected]
  BY <1>1, <1>4, <1>8
<1>10. /\ out'[r].items = items /\ out'[r].truncated = cut
       /\ out'[r].warnings = warnings /\ out'[r].failed = out[r].failed
  BY <1>1, <1>4 DEF Collected
<1>11. TypeOK'
  <2>1. page' \in [Reads -> Nat \ {0}]
    BY <1>1, <1>4 DEF TypeOK
  <2> QED
    BY <1>1, <1>4, <1>7, <1>9, <2>1 DEF TypeOK
<1>12. NotBegun(r)' /\ Collecting(r)' /\ CollectedAll(r)'
  <2>1. Whole(r)' => ~cut /\ ~WindowFilled(items)
    BY <1>4, <1>10 DEF Whole, WindowFilled
  <2>2. out'[r].items = out[r].items \o PageItems(r)
    BY <1>10 DEF items
  <2>3. pc'[r] # "start"
    BY <1>5, <1>7
  <2>4. pc'[r] \in {"jobs", "store", "done"} /\ Whole(r)' => ~More(r) \/ Len(PageItems(r)) < PageSize
    BY <1>5, <1>6, <1>7, <2>1
  <2> QED
    BY <1>2, <1>4, <2>2, <2>3, <2>4, PageLeaves
<1>13. Warned(r)'
  BY <1>1, <1>2, <1>4, <1>5, <1>7, <1>10 DEF ReadInv, Warned
<1>14. ReadInv(r)'
  BY <1>12, <1>13 DEF ReadInv
<1>15. OneMoved(r)
  BY <1>2, <1>4, <1>7 DEF OneMoved
<1>16. CacheIsDone'
  BY <1>4, <1>15, CacheStands
<1> QED
  BY <1>11, <1>14, <1>15, <1>16, OneMoves

LEMMA HitStep ==
  ASSUME CompositeInv, NEW r \in Reads, CacheHit(r)
  PROVE  CompositeInv'
<1>1. TypeOK /\ ReadInv(r) /\ CacheIsDone /\ pc \in [Reads -> Steps] /\ from \in [Reads -> Reads]
      /\ cached \in Reads /\ pc[cached] = "done" /\ pc[r] = "start"
  BY DEF CompositeInv, TypeOK, CacheHit, CacheIsDone
<1>2. /\ pc'[r] = "done" /\ pc' \in [Reads -> Steps]
      /\ \A s \in Reads \ {r} : pc'[s] = pc[s]
      /\ from' \in [Reads -> Reads] /\ from'[r] = cached
      /\ \A s \in Reads \ {r} : from'[s] = from[s]
  BY <1>1 DEF CacheHit, Go, Steps
<1>3. TypeOK'
  BY <1>1, <1>2 DEF TypeOK, CacheHit
<1>4. ReadInv(r)'
  <2>1. /\ out'[r] = Nothing /\ steady'[r] = {} /\ tool' = tool
        /\ ~out'[r].truncated /\ ~out'[r].failed
    BY <1>1 DEF ReadInv, NotBegun, CacheHit, Nothing
  <2>2. CollectedAll(r)'
    BY <2>1, NothingCollected DEF CollectedAll
  <2> QED
    BY <1>2, <2>1, <2>2 DEF ReadInv, NotBegun, Collecting, UnderWay, Warned
<1>5. OneMoved(r)
  BY <1>1, <1>2 DEF OneMoved, CacheHit
<1>6. CacheIsDone'
  <2>1. \A s \in Reads : pc[s] = "done" => pc'[s] = "done"
    BY <1>2
  <2>2. cached' = cached
    BY DEF CacheHit
  <2> QED
    BY <1>1, <1>2, <2>1, <2>2 DEF CacheIsDone
<1> QED
  BY <1>3, <1>4, <1>5, <1>6, OneMoves

LEMMA StoreStep ==
  ASSUME CompositeInv, NEW r \in Reads, CacheStore(r)
  PROVE  CompositeInv'
<1>1. TypeOK /\ ReadInv(r) /\ CacheIsDone /\ pc \in [Reads -> Steps] /\ from \in [Reads -> Reads]
      /\ pc[r] = "store" /\ cached \in Reads \cup {NoRead}
  BY DEF CompositeInv, TypeOK, CacheStore
<1>2. /\ pc'[r] = "done" /\ pc' \in [Reads -> Steps]
      /\ \A s \in Reads \ {r} : pc'[s] = pc[s]
      /\ cached' \in {cached, r}
  BY <1>1 DEF CacheStore, Go, Steps
<1>3. TypeOK'
  BY <1>1, <1>2 DEF TypeOK, CacheStore
<1>4. ReadInv(r)'
  <2>1. Whole(r)' = Whole(r)
    BY DEF CacheStore, Whole, WindowFilled
  <2>2. CollectedAll(r)'
    BY <1>1, <1>2, <2>1 DEF ReadInv, CollectedAll, CacheStore
  <2> QED
    BY <1>1, <1>2, <2>2 DEF ReadInv, NotBegun, Collecting, UnderWay, Warned, CacheStore
<1>5. OneMoved(r)
  BY <1>1, <1>2 DEF OneMoved, CacheStore
<1>6. CacheIsDone'
  <2>1. \A s \in Reads : pc[s] = "done" => pc'[s] = "done"
    BY <1>2
  <2>2. from' = from
    BY DEF CacheStore
  <2> QED
    BY <1>1, <1>2, <2>1, <2>2 DEF CacheIsDone
<1> QED
  BY <1>3, <1>4, <1>5, <1>6, OneMoves

LEMMA ExpireStep ==
  ASSUME CompositeInv, Expire
  PROVE  CompositeInv'
<1>1. TypeOK'
  BY DEF CompositeInv, TypeOK, Expire
<1>2. ASSUME NEW r \in Reads PROVE ReadInv(r)'
  BY ReadStands DEF CompositeInv, Expire
<1>3. CacheIsDone'
  BY DEF CompositeInv, CacheIsDone, Expire
<1> QED
  BY <1>1, <1>2, <1>3 DEF CompositeInv, Expire

(* A change of the list under the reads of one query. *)
LEMMA ListChanges ==
  ASSUME CompositeInv, NEW q \in Reads, NEW change \in {"inserted", "removed"},
         NEW new \in Seq(Rows), IsInjective(new), NEW gone,
         change = "inserted" =>
           gone = {} /\ \A n \in Nat : Beyond(listing[q], n) \subseteq Beyond(new, n),
         listing' = [listing EXCEPT ![q] = new], Note(q, change),
         steady' = [r \in Reads |-> IF Query(r) = q /\ UnderWay(r) THEN steady[r] \ gone
                                    ELSE steady[r]],
         UNCHANGED <<tool, pc, page, out, cached, from>>
  PROVE  CompositeInv'
<1>1. TypeOK
  BY DEF CompositeInv
<1>2. TypeOK'
  <2>1. listing' \in [Reads -> Seq(Rows)]
    BY <1>1 DEF TypeOK
  <2>2. steady' \in [Reads -> SUBSET Rows]
    BY <1>1 DEF TypeOK
  <2>3. disturbed' \in [Reads -> SUBSET {"inserted", "removed"}]
    BY <1>1 DEF TypeOK, Note
  <2> QED
    BY <1>1, <2>1, <2>2, <2>3 DEF TypeOK
<1>3. listing'[q] = new /\ \A p \in Reads \ {q} : listing'[p] = listing[p]
  BY <1>1 DEF TypeOK
<1>4. ASSUME NEW r \in Reads PROVE ReadInv(r)'
  <2>1. ReadInv(r)
    BY DEF CompositeInv
  <2>2. /\ Query(r)' = Query(r) /\ Passed(r)' = Passed(r) /\ UnderWay(r)' = UnderWay(r)
        /\ Whole(r)' = Whole(r) /\ List(r) = listing[Query(r)] /\ List(r)' = listing'[Query(r)]
    BY DEF Query, Passed, UnderWay, Whole, WindowFilled, List
  <2>3. CASE Query(r) = q /\ UnderWay(r)
    <3>1. disturbed'[r] = disturbed[r] \cup {change} /\ steady'[r] = steady[r] \ gone
      BY <2>3 DEF Note
    <3>2. Passed(r) \in Nat
      BY <1>1, PagePlaces, PagedReadAssumption DEF TypeOK, Passed
    <3>3. Collecting(r)'
      <4>1. CASE change = "removed"
        BY <3>1, <4>1 DEF Collecting
      <4>2. CASE change = "inserted"
        <5>1. Beyond(List(r), Passed(r)) \subseteq Beyond(List(r)', Passed(r)')
          BY <1>3, <2>2, <2>3, <3>2, <4>2
        <5>2. "removed" \notin disturbed'[r] => "removed" \notin disturbed[r]
          BY <3>1
        <5>3. disturbed'[r] # {} /\ steady'[r] = steady[r] /\ out'[r] = out[r]
          BY <3>1, <4>2
        <5> QED
          BY <2>1, <2>3, <5>1, <5>2, <5>3 DEF ReadInv, Collecting
      <4> QED
        BY <4>1, <4>2
    <3>4. NotBegun(r)' /\ CollectedAll(r)'
      BY <2>3 DEF UnderWay, NotBegun, CollectedAll
    <3>5. Warned(r)'
      BY <2>1 DEF ReadInv, Warned
    <3> QED
      BY <3>3, <3>4, <3>5 DEF ReadInv
  <2>4. CASE ~UnderWay(r)
    <3>1. disturbed'[r] = disturbed[r] /\ steady'[r] = steady[r]
      BY <2>4 DEF Note
    <3>2. Collecting(r)'
      BY <2>2, <2>4 DEF Collecting
    <3>3. NotBegun(r)' /\ Warned(r)'
      BY <2>1, <3>1 DEF ReadInv, NotBegun, Warned
    <3>4. CollectedAll(r)'
      BY <2>1, <2>2, <3>1 DEF ReadInv, CollectedAll
    <3> QED
      BY <3>2, <3>3, <3>4 DEF ReadInv
  <2>5. CASE Query(r) # q
    <3>1. disturbed'[r] = disturbed[r] /\ steady'[r] = steady[r]
      BY <2>5 DEF Note
    <3>2. List(r)' = List(r)
      BY <1>3, <2>2, <2>5, Queried
    <3>3. Collecting(r)'
      BY <2>1, <2>2, <3>1, <3>2 DEF ReadInv, Collecting
    <3>4. NotBegun(r)' /\ Warned(r)'
      BY <2>1, <3>1 DEF ReadInv, NotBegun, Warned
    <3>5. CollectedAll(r)'
      BY <2>1, <2>2, <3>1 DEF ReadInv, CollectedAll
    <3> QED
      BY <3>3, <3>4, <3>5 DEF ReadInv
  <2> QED
    BY <2>3, <2>4, <2>5
<1>5. \A p \in Reads : IsInjective(listing'[p])
  BY <1>3 DEF CompositeInv
<1>6. CacheIsDone'
  BY DEF CompositeInv, CacheIsDone
<1> QED
  BY <1>2, <1>4, <1>5, <1>6 DEF CompositeInv

LEMMA InsertStep ==
  ASSUME CompositeInv, NEW q \in Reads, RowInserted(q)
  PROVE  CompositeInv'
<1>1. listing[q] \in Seq(Rows) /\ IsInjective(listing[q]) /\ listing \in [Reads -> Seq(Rows)]
      /\ steady \in [Reads -> SUBSET Rows]
  BY DEF CompositeInv, TypeOK
<1>2. PICK row \in Rows \ ToSet(listing[q]), i \in 1 .. Len(listing[q]) + 1 :
        listing' = [listing EXCEPT ![q] =
          SubSeq(listing[q], 1, i - 1) \o <<row>> \o SubSeq(listing[q], i, Len(listing[q]))]
  BY <1>1 DEF RowInserted
<1> DEFINE new == SubSeq(listing[q], 1, i - 1) \o <<row>> \o SubSeq(listing[q], i, Len(listing[q]))
<1>3. /\ new \in Seq(Rows) /\ IsInjective(new)
      /\ \A n \in Nat : Beyond(listing[q], n) \subseteq Beyond(new, n)
  <2> DEFINE list == listing[q]
  <2>1. list \in Seq(Rows) /\ IsInjective(list)
    BY <1>1
  <2>2. row \in Rows \ ToSet(list) /\ i \in 1..Len(list) + 1
    OBVIOUS
  <2>3. new = SubSeq(list, 1, i - 1) \o <<row>> \o SubSeq(list, i, Len(list))
    OBVIOUS
  <2> HIDE DEF list, new
  <2>4. Enters(row, i, list, new)
    BY <2>1, <2>2, <2>3 DEF Enters
  <2>5. /\ new \in Seq(Rows) /\ IsInjective(new)
        /\ \A n \in Nat : Beyond(list, n) \subseteq Beyond(new, n)
    BY <2>4, Inserted
  <2> QED
    BY <2>5 DEF list
<1>4. listing' = [listing EXCEPT ![q] = new]
  BY <1>2
<1> HIDE DEF new
<1>5. steady' = [r \in Reads |-> IF Query(r) = q /\ UnderWay(r) THEN steady[r] \ {} ELSE steady[r]]
  BY <1>1 DEF RowInserted
<1>6. Note(q, "inserted") /\ UNCHANGED <<tool, pc, page, out, cached, from>>
  BY DEF RowInserted
<1> QED
  BY <1>3, <1>4, <1>5, <1>6, ListChanges

LEMMA RemoveStep ==
  ASSUME CompositeInv, NEW q \in Reads, RowRemoved(q)
  PROVE  CompositeInv'
<1>1. listing[q] \in Seq(Rows) /\ IsInjective(listing[q]) /\ listing \in [Reads -> Seq(Rows)]
  BY DEF CompositeInv, TypeOK
<1>2. PICK i \in DOMAIN listing[q] :
        /\ listing' = [listing EXCEPT ![q] =
             SubSeq(listing[q], 1, i - 1) \o SubSeq(listing[q], i + 1, Len(listing[q]))]
        /\ steady' = [r \in Reads |-> IF Query(r) = q /\ UnderWay(r)
                                      THEN steady[r] \ {listing[q][i]} ELSE steady[r]]
  BY <1>1 DEF RowRemoved
<1> DEFINE new == SubSeq(listing[q], 1, i - 1) \o SubSeq(listing[q], i + 1, Len(listing[q]))
<1>3. new \in Seq(Rows) /\ IsInjective(new)
  BY <1>1, Removed
<1>4. listing' = [listing EXCEPT ![q] = new]
  BY <1>2
<1> HIDE DEF new
<1>5. Note(q, "removed") /\ UNCHANGED <<tool, pc, page, out, cached, from>>
  BY DEF RowRemoved
<1> QED
  BY <1>2, <1>3, <1>4, <1>5, ListChanges

LEMMA CompositeStep == CompositeInv /\ [Next]_vars => CompositeInv'
<1> SUFFICES ASSUME CompositeInv, [Next]_vars PROVE CompositeInv'
  OBVIOUS
<1>1. ASSUME NEW r \in Reads, Begin(r) PROVE CompositeInv'
  BY <1>1, ReadBegins DEF Begin
<1>2. ASSUME NEW r \in Reads, CheckRateLimit(r) PROVE CompositeInv'
  <2>1. <<pc[r], "fetch">> \in Moves
    BY <1>2 DEF CheckRateLimit, Moves
  <2> QED
    BY <1>2, <2>1, PlaceMoves DEF CheckRateLimit
<1>3. ASSUME NEW r \in Reads, Retry(r) PROVE CompositeInv'
  <2>1. <<pc[r], "sleep">> \in Moves
    BY <1>3 DEF Retry, Moves
  <2> QED
    BY <1>3, <2>1, PlaceMoves DEF Retry
<1>4. ASSUME NEW r \in Reads, Wake(r) PROVE CompositeInv'
  <2>1. <<pc[r], "ask">> \in Moves
    BY <1>4 DEF Wake, Moves
  <2> QED
    BY <1>4, <2>1, PlaceMoves DEF Wake
<1>5. ASSUME NEW r \in Reads, ReadThrows(r) PROVE CompositeInv'
  <2>1. <<pc[r], "thrown">> \in Moves
    BY <1>5 DEF ReadThrows, Moves
  <2> QED
    BY <1>5, <2>1, PlaceMoves DEF ReadThrows
<1>6. ASSUME NEW r \in Reads, FetchJobs(r) PROVE CompositeInv'
  <2>1. <<pc[r], "store">> \in Moves
    BY <1>6 DEF FetchJobs, Moves
  <2> QED
    BY <1>6, <2>1, PlaceMoves DEF FetchJobs
<1>7. ASSUME NEW r \in Reads, CacheMiss(r) PROVE CompositeInv'
  BY <1>7, ReadBegins DEF CacheMiss
<1>8. ASSUME NEW r \in Reads, PagedStRead(r) \/ CachedTool(r) PROVE CompositeInv'
  BY <1>1, <1>2, <1>3, <1>4, <1>5, <1>6, <1>7, <1>8, FailureStep, TakeStep, HitStep, ScanStep, StoreStep
  DEF PagedStRead, CachedTool
<1>9. ASSUME NEW r \in Reads, RowInserted(Query(r)) \/ RowRemoved(Query(r)) PROVE CompositeInv'
  BY <1>9, Queried, InsertStep, RemoveStep
<1>10. CASE UNCHANGED vars
  <2>1. TypeOK'
    BY <1>10 DEF CompositeInv, TypeOK, vars
  <2>2. ASSUME NEW r \in Reads PROVE ReadInv(r)'
    BY <1>10, ReadStands DEF CompositeInv, vars
  <2>3. CacheIsDone'
    BY <1>10 DEF CompositeInv, CacheIsDone, vars
  <2> QED
    BY <1>10, <2>1, <2>2, <2>3 DEF CompositeInv, vars
<1> QED
  BY <1>8, <1>9, <1>10, ExpireStep DEF Next

-----------------------------------------------------------------------------
(* Theorems. *)

(* What a read has collected and what is still to come hold every row that  *)
(* was listed throughout; a read that ended with nothing left out has them  *)
(* all; and one that was cut short or lost a page carries a warning.        *)
THEOREM CompositeCorrect == Spec => []CompositeInv
  BY CompositeInit, CompositeStep, PTL DEF Spec

(* Partial lists say so (pagedStRead and its callers): a list without a     *)
(* warning misses no row that was listed throughout, and a pricebook called *)
(* healthy has no service without a category on a page nobody read.         *)
THEOREM PartialListsAreMarked == Spec => []PartialListsSaySo
<1>1. CompositeInv => PartialListsSaySo
  <2> SUFFICES ASSUME CompositeInv, NEW r \in Reads, Finished(r), "removed" \notin disturbed[r]
               PROVE  /\ membership_outreach_list(r)._warnings = {}
                           => steady[r] \subseteq ToSet(out[r].items)
                      /\ pricebook_health_check_services(r).healthy => steady[r] \subseteq Categorised
    BY DEF PartialListsSaySo, membership_outreach_list, dispatch_override_audit
  <2>1. CollectedAll(r) /\ Warned(r)
    BY DEF CompositeInv, ReadInv
  <2>2. ~out[r].truncated /\ ~out[r].failed => steady[r] \subseteq ToSet(out[r].items)
    BY <2>1 DEF CollectedAll, Whole, WindowFilled, Finished
  <2>3. membership_outreach_list(r)._warnings = {} => ~out[r].truncated /\ ~out[r].failed
    BY <2>1 DEF Warned, membership_outreach_list
  <2>4. pricebook_health_check_services(r).healthy =>
          ~out[r].truncated /\ ~out[r].failed /\ ToSet(out[r].items) \subseteq Categorised
    BY DEF pricebook_health_check_services
  <2> QED
    BY <2>2, <2>3, <2>4
<1> QED
  BY <1>1, CompositeCorrect, PTL

(* A customer listed as lapsed (commercial_plumbing_opportunities), by an   *)
(* answer without a warning, has no job in the recent window.               *)
THEOREM LapsedAreUnserved == Spec => []LapsedMeansUnserved
<1>1. CompositeInv => LapsedMeansUnserved
  <2> SUFFICES ASSUME CompositeInv, Finished(Recent), "removed" \notin disturbed[Recent],
                      commercial_plumbing_opportunities._warnings = {}
               PROVE  commercial_plumbing_opportunities.opportunities
                        \intersect {CustomerOf[job] : job \in steady[Recent]} = {}
    BY DEF LapsedMeansUnserved
  <2>1. Recent \in Reads /\ CollectedAll(Recent) /\ Warned(Recent)
    BY CompositeReadsAssumption DEF CompositeInv, ReadInv
  <2>2. out[Recent].warnings = {}
    BY DEF commercial_plumbing_opportunities
  <2>3. steady[Recent] \subseteq ToSet(out[Recent].items)
    BY <2>1, <2>2 DEF Warned, CollectedAll, Whole, WindowFilled, Finished
  <2> QED
    BY <2>3 DEF commercial_plumbing_opportunities
<1> QED
  BY <1>1, CompositeCorrect, PTL

(* "No unpaid invoices" and "stopped looking" never look alike              *)
(* (list_unpaid_invoices): a complete scan that did not fill the window has *)
(* every invoice with a balance that was listed throughout, in the call     *)
(* that scanned and from the cache.                                         *)
THEOREM UnpaidScansAreHonest == Spec => []UnpaidScanIsHonest
<1>1. CompositeInv => UnpaidScanIsHonest
  <2> SUFFICES ASSUME CompositeInv, NEW r \in Reads, tool = "list_unpaid_invoices", pc[r] = "done",
                      "removed" \notin disturbed[from[r]],
                      list_unpaid_invoices(r)._scan_complete,
                      list_unpaid_invoices(r)._unpaid_found < Needed
               PROVE  steady[from[r]] \intersect Unpaid \subseteq list_unpaid_invoices(r).invoices
    BY DEF UnpaidScanIsHonest
  <2> DEFINE s == from[r]
             items == out[s].items
  <2>1. s \in Reads /\ pc[s] = "done" /\ CollectedAll(s) /\ Warned(s) /\ items \in Seq(Rows)
    BY DEF CompositeInv, TypeOK, CacheIsDone, ReadInv, Collected
  <2>2. ~out[s].truncated /\ Cardinality(Balanced(items)) < Needed
    BY DEF list_unpaid_invoices
  <2>3. IsFiniteSet(Balanced(items)) /\ Cardinality(Balanced(items)) \in Nat /\ Needed \in Nat
    <3>1. DOMAIN items = 1..Len(items) /\ Len(items) \in Nat
      BY <2>1, Places
    <3>2. Balanced(items) \subseteq 1..Len(items)
      BY <3>1 DEF Balanced
    <3>3. IsFiniteSet(1..Len(items))
      BY <3>1, FS_Interval
    <3>4. IsFiniteSet(Balanced(items))
      BY <3>2, <3>3, FS_Subset
    <3> QED
      BY <3>4, FS_CardinalityType, PagedReadAssumption
  <2>4. ~WindowFilled(items)
    BY <2>2, <2>3 DEF WindowFilled
  <2>5. steady[s] \subseteq ToSet(items)
    <3>1. ~out[s].failed
      BY <2>1 DEF Warned
    <3> QED
      BY <2>1, <2>2, <2>4, <3>1 DEF CollectedAll, Whole
  <2>6. ASSUME NEW i \in Balanced(items) PROVE items[i] \in list_unpaid_invoices(r).invoices
    <3> DEFINE before == {j \in Balanced(items) : j < i}
    <3>1. before \in SUBSET Balanced(items)
      OBVIOUS
    <3> HIDE DEF before
    <3>2. IsFiniteSet(before) /\ Cardinality(before) <= Cardinality(Balanced(items))
      BY <2>3, <3>1, FS_Subset
    <3>3. Cardinality(before) < Needed
      <4>1. Cardinality(before) \in Nat
        BY <3>2, FS_CardinalityType
      <4> QED
        BY <2>2, <2>3, <3>2, <4>1
    <3> QED
      BY <3>3 DEF list_unpaid_invoices, before
  <2>7. \A x \in ToSet(items) \cap Unpaid : \E i \in Balanced(items) : items[i] = x
    BY DEF ToSet, Balanced
  <2> QED
    BY <2>5, <2>6, <2>7
<1> QED
  BY <1>1, CompositeCorrect, PTL

(* Rows of a list without duplicates are as many as their places. *)
LEMMA AsManyAsPlaces ==
  ASSUME NEW items \in Seq(Rows), IsInjective(items), NEW S \in SUBSET DOMAIN items
  PROVE  Cardinality(S) = Cardinality({items[i] : i \in S})
<1> DEFINE T == {items[i] : i \in S}
           f == [i \in S |-> items[i]]
<1>1. IsFiniteSet(S)
  <2>1. DOMAIN items = 1..Len(items) /\ Len(items) \in Nat
    BY Places
  <2>2. IsFiniteSet(1..Len(items))
    BY <2>1, FS_Interval
  <2>3. S \in SUBSET (1..Len(items))
    BY <2>1, Zenon
  <2> QED
    BY <2>2, <2>3, FS_Subset
<1>2. f \in [S -> T] /\ \A t \in T : \E i \in S : f[i] = t
  OBVIOUS
<1>3. IsInjective(f)
  BY DEF IsInjective
<1> HIDE DEF f, T
<1>4. ExistsBijection(S, T)
  BY <1>2, <1>3 DEF ExistsBijection, Bijection, Injection, Surjection
<1>5. Cardinality(T) = Cardinality(S)
  BY <1>1, <1>4, FS_Bijection
<1> QED
  BY <1>5 DEF T

(* Counts are of the whole range, each row once, however often a page was   *)
(* retried (margin_audit, call_quality_review, the leaderboard): an answer  *)
(* without a warning over a list that did not change.                       *)
THEOREM CountsAreOfTheRange == Spec => []CountsAreExact
<1>1. CompositeInv => CountsAreExact
  <2> SUFFICES ASSUME CompositeInv, NEW r \in Reads, Finished(r), disturbed[r] = {},
                      margin_audit(r)._warnings = {}
               PROVE  /\ Len(out[r].items) = Cardinality(steady[r])
                      /\ \A s \in Sellers : Sold(out[r].items, s) =
                           Cardinality({m \in steady[r] : CustomerOf[m] = s})
    BY DEF CountsAreExact, margin_audit, call_quality_review, membership_jackpot_leaderboard
  <2> DEFINE items == out[r].items
  <2>1. CollectedAll(r) /\ Warned(r) /\ items \in Seq(Rows)
    BY DEF CompositeInv, TypeOK, ReadInv, Collected
  <2>2. ~out[r].truncated /\ ~out[r].failed
    BY <2>1 DEF Warned, margin_audit
  <2>3. steady[r] = ToSet(items) /\ IsInjective(items)
    BY <2>1, <2>2 DEF CollectedAll, Whole, WindowFilled, Finished
  <2> HIDE DEF items
  <2>4. Len(items) = Cardinality(steady[r])
    <3>1. DOMAIN items = 1..Len(items) /\ Len(items) \in Nat
      BY <2>1, Places
    <3>2. Cardinality(1..Len(items)) = Len(items)
      <4>1. Cardinality(1..Len(items)) = IF 1 > Len(items) THEN 0 ELSE Len(items) - 1 + 1
        BY <3>1, FS_Interval
      <4> QED
        BY <3>1, <4>1
    <3>3. ToSet(items) = {items[i] : i \in DOMAIN items}
      BY DEF ToSet
    <3>4. Cardinality(DOMAIN items) = Cardinality({items[i] : i \in DOMAIN items})
      BY <2>1, <2>3, AsManyAsPlaces
    <3> QED
      BY <2>3, <3>1, <3>2, <3>3, <3>4
  <2>5. ASSUME NEW s \in Sellers
        PROVE  Sold(items, s) = Cardinality({m \in steady[r] : CustomerOf[m] = s})
    <3> DEFINE S == {i \in DOMAIN items : CustomerOf[items[i]] = s}
    <3>1. Cardinality(S) = Cardinality({items[i] : i \in S})
      <4>1. S \in SUBSET DOMAIN items
        OBVIOUS
      <4> HIDE DEF S
      <4> QED
        BY <2>1, <2>3, <4>1, AsManyAsPlaces
    <3>2. {items[i] : i \in S} = {m \in steady[r] : CustomerOf[m] = s}
      BY <2>3 DEF ToSet
    <3> QED
      BY <3>1, <3>2 DEF Sold
  <2> QED
    BY <2>4, <2>5 DEF items
<1> QED
  BY <1>1, CompositeCorrect, PTL
=============================================================================
