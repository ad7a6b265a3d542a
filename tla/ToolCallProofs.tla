---------------------------- MODULE ToolCallProofs ----------------------------
(***************************************************************************)
(* Proofs about one call of any tool (module ToolCall), for every set of   *)
(* ages, every threshold and every number of retries.                      *)
(*                                                                         *)
(* What an answer may claim depends on what the handler has still to do as *)
(* much as on what it has done, so the argument has two halves.  Each path *)
(* of each tool of the catalogue keeps a discipline (Disciplined, by cases *)
(* over the tools), which what remains of a path keeps as well; and what a *)
(* call has in hand agrees with what remains (Inv, by induction over the   *)
(* steps).                                                                 *)
(***************************************************************************)
EXTENDS ToolCall, SequenceTheorems, TLAPS

Writes == {"write", "insert"}
Denials == {"absent", "not_found"}
MayMiss == {"lookup", "read_pages"}
MayLeaveHoles == {"soft", "read_pages"}
Disclaimers == {"say_partial", "say_warning"}
OfMirror == {"mirror", "query", "lookup"}

\* A sequence of whatever it holds.
IsPath(p) == p \in Seq({p[i] : i \in DOMAIN p})
Among(p, ops) == \E i \in DOMAIN p : p[i].op \in ops

\* A step that brings rows; one that dates them.
Rows(step) == step.op \in OfMirror \cup {"warehouse"}
Dated(step) == step.op \in OfMirror \/ (step.op = "warehouse" /\ step.asked # {})

\* Only a tool registered as a write writes.
WritesAreMarked(t, p) == Among(p, Writes) => t \in isWrite
\* Who denies reads nothing whose failure, or cap, would pass for absence.
DeniesWhatItRead(t, p) == t \notin NotKeptTo /\ Among(p, Denials) => ~Among(p, MayMiss)
\* A step that may leave a hole is followed by one that tells of it; and who
\* catches what is thrown leaves none.
TellsHoles(t, p) ==
    /\ \A i \in DOMAIN p : t \notin DoNotLookAtTheCap /\ p[i].op \in MayLeaveHoles =>
          \E j \in DOMAIN p : i < j /\ p[j].op \in Disclaimers
    /\ Among(p, {"caught"}) => ~Among(p, MayLeaveHoles)
\* The tables probed, or the builds asked about, cover the rows.
DatesRows(step) ==
    /\ step.op \in OfMirror =>
          /\ step.probed # {} /\ step.counted \subseteq step.probed
          /\ step.probed \intersect Builds = {}
    /\ step.op = "warehouse" /\ step.asked # {} =>
          step.reads \subseteq Upstream(step.asked) /\ Upstream(step.asked) \subseteq Builds
\* Rows are dated once, by the first step that brings some: a later step of the
\* warehouse adds only rows of builds already asked about.
Covers(one, other) ==
    Rows(one) =>
       /\ ~Dated(other)
       /\ other.op = "warehouse" /\ Dated(one) =>
             one.op = "warehouse" /\ other.reads \subseteq Upstream(one.asked)
DatesItsRows(p) ==
    /\ \A i \in DOMAIN p : DatesRows(p[i])
    /\ \A i, j \in DOMAIN p : i < j => Covers(p[i], p[j])

\* The discipline of tool t.
Disciplined(t, p) ==
    /\ WritesAreMarked(t, p) /\ DeniesWhatItRead(t, p)
    /\ TellsHoles(t, p) /\ DatesItsRows(p)

-----------------------------------------------------------------------------
(* Paths: what is left of one after its first step.                        *)

LEMMA OwnRange ==
    ASSUME NEW S, NEW q \in Seq(S)
    PROVE  q \in Seq({q[i] : i \in DOMAIN q})
<1> DEFINE R == {q[i] : i \in DOMAIN q}
<1>1. /\ Len(q) \in Nat /\ DOMAIN q = 1..Len(q)
      /\ q = [i \in 1..Len(q) |-> q[i]]
  OBVIOUS
<1>2. \A i \in 1..Len(q) : q[i] \in R
  BY <1>1
<1> HIDE DEF R
<1>3. q \in [1..Len(q) -> R]
  BY <1>1, <1>2
<1>4. q \in Seq(R)
  BY <1>1, <1>3, SeqDef
<1> QED BY <1>4 DEF R

LEMMA TailIs ==
    ASSUME NEW p, IsPath(p), p # <<>>
    PROVE  /\ IsPath(Tail(p))
           /\ Head(p) = p[1] /\ 1 \in DOMAIN p
           /\ \A i \in DOMAIN Tail(p) :
                 i \in Nat \ {0} /\ i + 1 \in DOMAIN p /\ Tail(p)[i] = p[i + 1]
           /\ \A i \in DOMAIN p :
                 i \in Nat /\ (i # 1 => i - 1 \in DOMAIN Tail(p) /\ p[i] = Tail(p)[i - 1])
<1> DEFINE S == {p[i] : i \in DOMAIN p}
<1>1. p \in Seq(S)
  BY DEF IsPath
<1>2. /\ DOMAIN Tail(p) = 1..(Len(p) - 1)
      /\ Len(p) \in Nat /\ DOMAIN p = 1..Len(p) /\ Len(p) > 0
      /\ \A i \in DOMAIN Tail(p) : Tail(p)[i] = p[i + 1]
      /\ Head(p) = p[1] /\ Tail(p) \in Seq(S) /\ Len(Tail(p)) = Len(p) - 1
  <2> HIDE DEF S
  <2> QED BY <1>1
<1> HIDE DEF S
<1>3. IsPath(Tail(p))
  <2>1. Tail(p) \in Seq(S)
    BY <1>2
  <2>2. Tail(p) \in Seq({Tail(p)[i] : i \in DOMAIN Tail(p)})
    BY ONLY <2>1, OwnRange
  <2> QED BY <2>2 DEF IsPath
<1> QED BY <1>2, <1>3

LEMMA TailDisciplined ==
    ASSUME NEW p, IsPath(p), p # <<>>, NEW t, Disciplined(t, p)
    PROVE  /\ Disciplined(t, Tail(p))
           /\ \A ops : Among(Tail(p), ops) => Among(p, ops)
           /\ Head(p).op \in MayLeaveHoles /\ t \notin DoNotLookAtTheCap =>
                 Among(Tail(p), Disclaimers)
           /\ Among(p, Disclaimers) =>
                 Among(Tail(p), Disclaimers) \/ Head(p).op \in Disclaimers
           /\ DatesRows(Head(p))
           /\ \A i \in DOMAIN Tail(p) : Covers(Head(p), Tail(p)[i])
<1> DEFINE q == Tail(p)
<1>1. /\ Head(p) = p[1] /\ 1 \in DOMAIN p
      /\ \A i \in DOMAIN q : i \in Nat \ {0} /\ i + 1 \in DOMAIN p /\ q[i] = p[i + 1]
      /\ \A i \in DOMAIN p : i \in Nat /\ (i # 1 => i - 1 \in DOMAIN q /\ p[i] = q[i - 1])
  BY TailIs
<1> HIDE DEF q
<1>2. \A ops : Among(q, ops) => Among(p, ops)
  BY <1>1 DEF Among
<1>3. WritesAreMarked(t, q) /\ DeniesWhatItRead(t, q)
  BY <1>2 DEF Disciplined, WritesAreMarked, DeniesWhatItRead
<1>4. DatesItsRows(q)
  <2>1. \A i \in DOMAIN q : DatesRows(q[i])
    BY <1>1 DEF Disciplined, DatesItsRows
  <2>2. ASSUME NEW i \in DOMAIN q, NEW j \in DOMAIN q, i < j PROVE Covers(q[i], q[j])
    BY <1>1, <2>2 DEF Disciplined, DatesItsRows
  <2> QED BY <2>1, <2>2 DEF DatesItsRows
<1>5. ASSUME NEW i \in DOMAIN p, p[i].op \in MayLeaveHoles, t \notin DoNotLookAtTheCap
      PROVE \E j \in DOMAIN q : i - 1 < j /\ q[j].op \in Disclaimers
   <2>1. PICK j \in DOMAIN p : i < j /\ p[j].op \in Disclaimers
     BY <1>5 DEF Disciplined, TellsHoles
   <2>2. j # 1 /\ j - 1 \in DOMAIN q /\ i - 1 < j - 1
     BY <1>1, <2>1
   <2> QED BY <1>1, <2>1, <2>2
<1>6. TellsHoles(t, q)
  <2>1. ASSUME NEW i \in DOMAIN q, t \notin DoNotLookAtTheCap, q[i].op \in MayLeaveHoles
        PROVE \E j \in DOMAIN q : i < j /\ q[j].op \in Disclaimers
    <3>1. i + 1 \in DOMAIN p /\ p[i + 1].op \in MayLeaveHoles /\ i \in Nat
      BY <1>1, <2>1
    <3>2. \E j \in DOMAIN q : (i + 1) - 1 < j /\ q[j].op \in Disclaimers
      BY <1>5, <2>1, <3>1
    <3> QED BY <3>1, <3>2
  <2> QED BY <2>1, <1>2 DEF TellsHoles, Disciplined
<1>7. Head(p).op \in MayLeaveHoles /\ t \notin DoNotLookAtTheCap => Among(q, Disclaimers)
  BY <1>1, <1>5 DEF Among
<1>8. Among(p, Disclaimers) => Among(q, Disclaimers) \/ Head(p).op \in Disclaimers
  BY <1>1 DEF Among
<1>9. DatesRows(Head(p)) 
  BY <1>1 DEF Disciplined, DatesItsRows
<1>10. ASSUME NEW i \in DOMAIN q PROVE Covers(Head(p), q[i])
  <2>1. i + 1 \in DOMAIN p /\ 1 < i + 1 /\ q[i] = p[i + 1]
    BY <1>1
  <2> QED BY <1>1, <2>1 DEF Disciplined, DatesItsRows
<1> QED BY <1>2, <1>3, <1>4, <1>6, <1>7, <1>8, <1>9, <1>10 DEF Disciplined, q

-----------------------------------------------------------------------------
(* Every tool of the catalogue keeps to the discipline.                    *)

Plain == {"check", "resolve", "preview", "live", "from_cache", "store", "say_warning",
          "unstamped", "unstamped_or_else"}
Only(p, ops) == \A i \in DOMAIN p : p[i].op \in ops

Keeps(t, paths) == \A p \in paths : IsPath(p) /\ Disciplined(t, p)

\* What is written out as a tuple is a path.
LEMMA Tuples ==
    ASSUME NEW a, NEW b, NEW c, NEW d, NEW e
    PROVE  /\ IsPath(<<>>) /\ IsPath(<<a>>) /\ IsPath(<<a, b>>)
           /\ IsPath(<<a, b, c>>) /\ IsPath(<<a, b, c, d>>)
           /\ IsPath(<<a, b, c, d, e>>)
<1> DEFINE S == {a, b, c, d, e}
<1>1. a \in S /\ b \in S /\ c \in S /\ d \in S /\ e \in S
  OBVIOUS
<1> HIDE DEF S
<1>2. /\ <<>> \in Seq(S) /\ <<a>> \in Seq(S) /\ <<a, b>> \in Seq(S)
      /\ <<a, b, c>> \in Seq(S) /\ <<a, b, c, d>> \in Seq(S)
      /\ <<a, b, c, d, e>> \in Seq(S)
  BY <1>1
<1>3. ASSUME NEW q \in Seq(S) PROVE IsPath(q)
  BY OwnRange DEF IsPath
<1> QED BY <1>2, <1>3

LEMMA PlainKeeps ==
    ASSUME NEW paths, \A p \in paths : IsPath(p) /\ Only(p, Plain), NEW t
    PROVE  Keeps(t, paths)
<1> SUFFICES ASSUME NEW p \in paths PROVE Disciplined(t, p)
  BY DEF Keeps
<1>1. /\ ~Among(p, Writes) /\ ~Among(p, Denials)
      /\ ~Among(p, MayLeaveHoles) /\ ~Among(p, {"caught"})
  BY DEF Only, Plain, Among, Writes, Denials, MayLeaveHoles
<1>2. \A i \in DOMAIN p : ~Rows(p[i]) /\ DatesRows(p[i]) /\ p[i].op \notin MayLeaveHoles
  BY DEF Only, Plain, Rows, DatesRows, OfMirror, MayLeaveHoles
<1> QED BY <1>1, <1>2
    DEF Disciplined, WritesAreMarked, DeniesWhatItRead, TellsHoles, DatesItsRows, Covers

LEMMA WriterKeeps ==
    ASSUME NEW paths, \A p \in paths : IsPath(p) /\ Only(p, Plain \cup {"write"}),
           NEW t \in isWrite
    PROVE  Keeps(t, paths)
<1> SUFFICES ASSUME NEW p \in paths PROVE Disciplined(t, p)
  BY DEF Keeps
<1>1. /\ ~Among(p, Denials) /\ ~Among(p, MayLeaveHoles) /\ ~Among(p, {"caught"})
  BY DEF Only, Plain, Among, Denials, MayLeaveHoles
<1>2. \A i \in DOMAIN p : ~Rows(p[i]) /\ DatesRows(p[i]) /\ p[i].op \notin MayLeaveHoles
  BY DEF Only, Plain, Rows, DatesRows, OfMirror, MayLeaveHoles
<1> QED BY <1>1, <1>2
    DEF Disciplined, WritesAreMarked, DeniesWhatItRead, TellsHoles, DatesItsRows, Covers

LEMMA PlainTools ==
    ASSUME NEW t
    PROVE  /\ Keeps(t, Read)
           /\ Keeps(t, ReadById)
           /\ Keeps(t, Cached)
           /\ Keeps(t, CheckedThenCached)
           /\ Keeps(t, list_technicians_available)
           /\ Keeps(t, payroll_job_timesheets_list)
           /\ Keeps(t, st_get_pricebook)
           /\ Keeps(t, get_service_details)
           /\ Keeps(t, get_configurable_equipment_children)
           /\ Keeps(t, list_service_categories)
<1>1. ASSUME NEW p \in Read
      PROVE  IsPath(p) /\ Only(p, Plain)
  <2>1. IsPath(p)
    BY Tuples DEF Read
  <2>2. Only(p, Plain)
    BY DEF Read, Live, Only, Plain
  <2> QED BY <2>1, <2>2
<1>2. ASSUME NEW p \in ReadById
      PROVE  IsPath(p) /\ Only(p, Plain)
  <2>1. IsPath(p)
    BY Tuples DEF ReadById
  <2>2. Only(p, Plain)
    BY DEF ReadById, Check, Live, Only, Plain
  <2> QED BY <2>1, <2>2
<1>3. ASSUME NEW p \in Cached
      PROVE  IsPath(p) /\ Only(p, Plain)
  <2>1. IsPath(p)
    BY Tuples DEF Cached
  <2>2. Only(p, Plain)
    BY DEF Cached, FromCache, Live, Store, Only, Plain
  <2> QED BY <2>1, <2>2
<1>4. ASSUME NEW p \in CheckedThenCached
      PROVE  IsPath(p) /\ Only(p, Plain)
  <2>1. IsPath(p)
    BY Tuples DEF CheckedThenCached
  <2>2. Only(p, Plain)
    BY DEF CheckedThenCached, Check, FromCache, Live, Store, Only, Plain
  <2> QED BY <2>1, <2>2
<1>5. ASSUME NEW p \in list_technicians_available
      PROVE  IsPath(p) /\ Only(p, Plain)
  <2>1. IsPath(p)
    BY Tuples DEF list_technicians_available
  <2>2. Only(p, Plain)
    BY DEF list_technicians_available, Check, Live, Resolve, SayWarning, Only, Plain
  <2> QED BY <2>1, <2>2
<1>6. ASSUME NEW p \in payroll_job_timesheets_list
      PROVE  IsPath(p) /\ Only(p, Plain)
  <2>1. IsPath(p)
    BY Tuples DEF payroll_job_timesheets_list
  <2>2. Only(p, Plain)
    BY DEF payroll_job_timesheets_list, Check, Live, Unstamped, UnstampedOrElse, Only,
        Plain
  <2> QED BY <2>1, <2>2
<1>7. ASSUME NEW p \in st_get_pricebook
      PROVE  IsPath(p) /\ Only(p, Plain)
  <2>1. IsPath(p)
    BY Tuples DEF st_get_pricebook
  <2>2. Only(p, Plain)
    BY DEF st_get_pricebook, Check, FromCache, Live, Store, Only, Plain
  <2> QED BY <2>1, <2>2
<1>8. ASSUME NEW p \in get_service_details
      PROVE  IsPath(p) /\ Only(p, Plain)
  <2>1. IsPath(p)
    BY Tuples DEF get_service_details
  <2>2. Only(p, Plain)
    BY DEF get_service_details, Live, Only, Plain
  <2> QED BY <2>1, <2>2
<1>9. ASSUME NEW p \in get_configurable_equipment_children
      PROVE  IsPath(p) /\ Only(p, Plain)
  <2>1. IsPath(p)
    BY Tuples DEF get_configurable_equipment_children
  <2>2. Only(p, Plain)
    BY DEF get_configurable_equipment_children, Live, SayWarning, Only, Plain
  <2> QED BY <2>1, <2>2
<1>10. ASSUME NEW p \in list_service_categories
      PROVE  IsPath(p) /\ Only(p, Plain)
  <2>1. IsPath(p)
    BY Tuples DEF list_service_categories
  <2>2. Only(p, Plain)
    BY DEF list_service_categories, FromCache, Live, Store, Only, Plain
  <2> QED BY <2>1, <2>2
<1> QED BY PlainKeeps, <1>1, <1>2, <1>3, <1>4, <1>5, <1>6, <1>7, <1>8, <1>9, <1>10

LEMMA WriterTools ==
    ASSUME NEW t \in isWrite
    PROVE  /\ \A purged : Keeps(t, Factory(purged))
           /\ Keeps(t, st_post_marketing_attribution)
           /\ Keeps(t, st_call)
<1>1. ASSUME NEW purged, NEW p \in Factory(purged)
      PROVE  IsPath(p) /\ Only(p, Plain \cup {"write"})
  <2>1. IsPath(p)
    BY <1>1, Tuples DEF Factory
  <2>2. Only(p, Plain \cup {"write"})
    BY <1>1 DEF Factory, Check, Preview, Write, Only, Plain
  <2> QED BY <2>1, <2>2
<1>2. ASSUME NEW p \in st_post_marketing_attribution
      PROVE  IsPath(p) /\ Only(p, Plain \cup {"write"})
  <2>1. IsPath(p)
    BY Tuples DEF st_post_marketing_attribution
  <2>2. Only(p, Plain \cup {"write"})
    BY DEF st_post_marketing_attribution, Check, Preview, Write, Only, Plain
  <2> QED BY <2>1, <2>2
<1>3. ASSUME NEW p \in st_call PROVE IsPath(p) /\ Only(p, Plain \cup {"write"})
  <2>1. IsPath(p)
    BY Tuples DEF st_call
  <2>2. Only(p, Plain \cup {"write"})
    BY DEF st_call, Check, Live, Preview, Write, Only, Plain
  <2> QED BY <2>1, <2>2
<1>4. \A purged : Keeps(t, Factory(purged))
  BY <1>1, WriterKeeps
<1> QED BY <1>2, <1>3, <1>4, WriterKeeps

LEMMA MirrorTools ==
    /\ Keeps("list_estimate_templates", list_estimate_templates)
    /\ Keeps("get_form_submission", get_form_submission)
    /\ Keeps("find_technician_by_name", find_technician_by_name)
    /\ Keeps("identify_tech_by_phone", identify_tech_by_phone)
    /\ Keeps("save_tech_debrief", save_tech_debrief)
    /\ Keeps("pricebook_markup_drift", pricebook_markup_drift)
    /\ Keeps("pricebook_cost_drift", pricebook_cost_drift)
    /\ Keeps("pricebook_vendor_part_gaps", pricebook_vendor_part_gaps)
    /\ Keeps("job_closeout_report", job_closeout_report)
    /\ Keeps("job_cost_actuals", job_cost_actuals)
    /\ Keeps("opportunities_list", opportunities_list)
    /\ Keeps("opportunity_get", opportunity_get)
    /\ Keeps("dispatch_pro_utilization_list", dispatch_pro_utilization_list)
    /\ Keeps("dispatch_pro_ratio_list", dispatch_pro_ratio_list)
    /\ Keeps("dispatch_pro_alerts_list", dispatch_pro_alerts_list)
    /\ Keeps("tech_drive_time_summary", tech_drive_time_summary)
    /\ Keeps("assigned_vs_sold_estimate_audit", assigned_vs_sold_estimate_audit)
    /\ Keeps("open_opportunities_pulitzer_feed", open_opportunities_pulitzer_feed)
    /\ Keeps("tech_scorecard", tech_scorecard)
<1> USE DEF Disciplined, WritesAreMarked, DeniesWhatItRead, TellsHoles, DatesItsRows,
      DatesRows, Covers, Rows, Dated, Among, Writes, Denials, MayMiss,
      MayLeaveHoles, Disclaimers, OfMirror, Builds, Upstream
<1>1. ASSUME NEW p \in list_estimate_templates
      PROVE  IsPath(p) /\ Disciplined("list_estimate_templates", p)
  <2>1. IsPath(p)
    BY Tuples DEF list_estimate_templates
  <2>2. Disciplined("list_estimate_templates", p)
    BY DEF list_estimate_templates, ReadPages, NotKeptTo, DoNotLookAtTheCap
  <2> QED BY <2>1, <2>2
<1>2. ASSUME NEW p \in get_form_submission
      PROVE  IsPath(p) /\ Disciplined("get_form_submission", p)
  <2>1. IsPath(p)
    BY Tuples DEF get_form_submission
  <2>2. Disciplined("get_form_submission", p)
    BY DEF get_form_submission, Check, NotFound, ReadPages, Stamped, Table, Unstamped,
        NotKeptTo, DoNotLookAtTheCap
  <2> QED BY <2>1, <2>2
<1>3. ASSUME NEW p \in find_technician_by_name
      PROVE  IsPath(p) /\ Disciplined("find_technician_by_name", p)
  <2>1. IsPath(p)
    BY Tuples DEF find_technician_by_name
  <2>2. Disciplined("find_technician_by_name", p)
    BY DEF find_technician_by_name, Absent, Resolve, Stamped, Table
  <2> QED BY <2>1, <2>2
<1>4. ASSUME NEW p \in identify_tech_by_phone
      PROVE  IsPath(p) /\ Disciplined("identify_tech_by_phone", p)
  <2>1. IsPath(p)
    BY Tuples DEF identify_tech_by_phone
  <2>2. Disciplined("identify_tech_by_phone", p)
    BY DEF identify_tech_by_phone, Absent, Caught, Query, Unstamped
  <2> QED BY <2>1, <2>2
<1>5. ASSUME NEW p \in save_tech_debrief
      PROVE  IsPath(p) /\ Disciplined("save_tech_debrief", p)
  <2>1. IsPath(p)
    BY Tuples DEF save_tech_debrief
  <2>2. Disciplined("save_tech_debrief", p)
    BY DEF save_tech_debrief, Caught, Insert, isWrite
  <2> QED BY <2>1, <2>2
<1>6. ASSUME NEW p \in pricebook_markup_drift
      PROVE  IsPath(p) /\ Disciplined("pricebook_markup_drift", p)
  <2>1. IsPath(p)
    BY Tuples DEF pricebook_markup_drift
  <2>2. Disciplined("pricebook_markup_drift", p)
    BY DEF pricebook_markup_drift, Stamped, Unstamped
  <2> QED BY <2>1, <2>2
<1>7. ASSUME NEW p \in pricebook_cost_drift
      PROVE  IsPath(p) /\ Disciplined("pricebook_cost_drift", p)
  <2>1. IsPath(p)
    BY Tuples DEF pricebook_cost_drift
  <2>2. Disciplined("pricebook_cost_drift", p)
    BY DEF pricebook_cost_drift, Stamped
  <2> QED BY <2>1, <2>2
<1>8. ASSUME NEW p \in pricebook_vendor_part_gaps
      PROVE  IsPath(p) /\ Disciplined("pricebook_vendor_part_gaps", p)
  <2>1. IsPath(p)
    BY Tuples DEF pricebook_vendor_part_gaps
  <2>2. Disciplined("pricebook_vendor_part_gaps", p)
    BY DEF pricebook_vendor_part_gaps, Stamped, Unstamped
  <2> QED BY <2>1, <2>2
<1>9. ASSUME NEW p \in job_closeout_report
      PROVE  IsPath(p) /\ Disciplined("job_closeout_report", p)
  <2>1. IsPath(p)
    BY Tuples DEF job_closeout_report
  <2>2. Disciplined("job_closeout_report", p)
    BY DEF job_closeout_report, Gather, SayPartial
  <2> QED BY <2>1, <2>2
<1>10. ASSUME NEW p \in job_cost_actuals
      PROVE  IsPath(p) /\ Disciplined("job_cost_actuals", p)
  <2>1. IsPath(p)
    BY Tuples DEF job_cost_actuals
  <2>2. Disciplined("job_cost_actuals", p)
    BY DEF job_cost_actuals, Gather, SayPartial, Stamped, Table, Unstamped
  <2> QED BY <2>1, <2>2
<1>11. ASSUME NEW p \in opportunities_list
      PROVE  IsPath(p) /\ Disciplined("opportunities_list", p)
  <2>1. IsPath(p)
    BY Tuples DEF opportunities_list
  <2>2. Disciplined("opportunities_list", p)
    BY DEF opportunities_list, Stamped, Table
  <2> QED BY <2>1, <2>2
<1>12. ASSUME NEW p \in opportunity_get
      PROVE  IsPath(p) /\ Disciplined("opportunity_get", p)
  <2>1. IsPath(p)
    BY Tuples DEF opportunity_get
  <2>2. Disciplined("opportunity_get", p)
    BY DEF opportunity_get, Absent, Stamped, Table, Unstamped
  <2> QED BY <2>1, <2>2
<1>13. ASSUME NEW p \in dispatch_pro_utilization_list
      PROVE  IsPath(p) /\ Disciplined("dispatch_pro_utilization_list", p)
  <2>1. IsPath(p)
    BY Tuples DEF dispatch_pro_utilization_list
  <2>2. Disciplined("dispatch_pro_utilization_list", p)
    BY DEF dispatch_pro_utilization_list, Stamped, Table
  <2> QED BY <2>1, <2>2
<1>14. ASSUME NEW p \in dispatch_pro_ratio_list
      PROVE  IsPath(p) /\ Disciplined("dispatch_pro_ratio_list", p)
  <2>1. IsPath(p)
    BY Tuples DEF dispatch_pro_ratio_list
  <2>2. Disciplined("dispatch_pro_ratio_list", p)
    BY DEF dispatch_pro_ratio_list, Stamped, Table
  <2> QED BY <2>1, <2>2
<1>15. ASSUME NEW p \in dispatch_pro_alerts_list
      PROVE  IsPath(p) /\ Disciplined("dispatch_pro_alerts_list", p)
  <2>1. IsPath(p)
    BY Tuples DEF dispatch_pro_alerts_list
  <2>2. Disciplined("dispatch_pro_alerts_list", p)
    BY DEF dispatch_pro_alerts_list, Stamped, Table
  <2> QED BY <2>1, <2>2
<1>16. ASSUME NEW p \in tech_drive_time_summary
      PROVE  IsPath(p) /\ Disciplined("tech_drive_time_summary", p)
  <2>1. IsPath(p)
    BY Tuples DEF tech_drive_time_summary
  <2>2. Disciplined("tech_drive_time_summary", p)
    BY DEF tech_drive_time_summary, Stamped, Table, Unstamped
  <2> QED BY <2>1, <2>2
<1>17. ASSUME NEW p \in assigned_vs_sold_estimate_audit
      PROVE  IsPath(p) /\ Disciplined("assigned_vs_sold_estimate_audit", p)
  <2>1. IsPath(p)
    BY Tuples DEF assigned_vs_sold_estimate_audit
  <2>2. Disciplined("assigned_vs_sold_estimate_audit", p)
    BY DEF assigned_vs_sold_estimate_audit, Stamped, Table
  <2> QED BY <2>1, <2>2
<1>18. ASSUME NEW p \in open_opportunities_pulitzer_feed
      PROVE  IsPath(p) /\ Disciplined("open_opportunities_pulitzer_feed", p)
  <2>1. IsPath(p)
    BY Tuples DEF open_opportunities_pulitzer_feed
  <2>2. Disciplined("open_opportunities_pulitzer_feed", p)
    BY DEF open_opportunities_pulitzer_feed, Stamped, Table, Unstamped
  <2> QED BY <2>1, <2>2
<1>19. ASSUME NEW p \in tech_scorecard
      PROVE  IsPath(p) /\ Disciplined("tech_scorecard", p)
  <2>1. IsPath(p)
    BY Tuples DEF tech_scorecard
  <2>2. Disciplined("tech_scorecard", p)
    BY DEF tech_scorecard, Stamped, Table
  <2> QED BY <2>1, <2>2
<1> HIDE DEF Disciplined, WritesAreMarked, DeniesWhatItRead, TellsHoles, DatesItsRows,
      DatesRows, Covers, Rows, Dated, Among, Writes, Denials, MayMiss,
      MayLeaveHoles, Disclaimers, OfMirror, Builds, Upstream
<1> QED BY <1>1, <1>2, <1>3, <1>4, <1>5, <1>6, <1>7, <1>8, <1>9, <1>10, <1>11, <1>12,
    <1>13, <1>14, <1>15, <1>16, <1>17, <1>18, <1>19 DEF Keeps

LEMMA WarehouseTools ==
    /\ Keeps("search_pricebook_services", search_pricebook_services)
    /\ Keeps("search_materials", search_materials)
    /\ Keeps("search_pricebook_all", search_pricebook_all)
    /\ Keeps("search_pricebook_semantic", search_pricebook_semantic)
    /\ Keeps("search_pricebook_templates", search_pricebook_templates)
    /\ Keeps("get_proposal_tiers", get_proposal_tiers)
    /\ Keeps("find_packages_with_item", find_packages_with_item)
    /\ Keeps("get_service_breakout", get_service_breakout)
    /\ Keeps("semantic_search_gold", semantic_search_gold)
    /\ Keeps("gold_margin_by_bu", gold_margin_by_bu)
    /\ Keeps("titan_advisor_score", titan_advisor_score)
<1> USE DEF Disciplined, WritesAreMarked, DeniesWhatItRead, TellsHoles, DatesItsRows,
      DatesRows, Covers, Rows, Dated, Among, Writes, Denials, MayMiss,
      MayLeaveHoles, Disclaimers, OfMirror, Builds, Upstream
<1>1. ASSUME NEW p \in search_pricebook_services
      PROVE  IsPath(p) /\ Disciplined("search_pricebook_services", p)
  <2>1. IsPath(p)
    BY Tuples DEF search_pricebook_services
  <2>2. Disciplined("search_pricebook_services", p)
    BY DEF search_pricebook_services, Absent, Check, Live, Lookup, NotKeptTo
  <2> QED BY <2>1, <2>2
<1>2. ASSUME NEW p \in search_materials
      PROVE  IsPath(p) /\ Disciplined("search_materials", p)
  <2>1. IsPath(p)
    BY Tuples DEF search_materials
  <2>2. Disciplined("search_materials", p)
    BY DEF search_materials, Live, Lookup
  <2> QED BY <2>1, <2>2
<1>3. ASSUME NEW p \in search_pricebook_all
      PROVE  IsPath(p) /\ Disciplined("search_pricebook_all", p)
  <2>1. IsPath(p)
    BY Tuples DEF search_pricebook_all
  <2>2. Disciplined("search_pricebook_all", p)
    BY DEF search_pricebook_all, ALL_TABLE_LIST, Absent, Check, Query, Unstamped
  <2> QED BY <2>1, <2>2
<1>4. ASSUME NEW p \in search_pricebook_semantic
      PROVE  IsPath(p) /\ Disciplined("search_pricebook_semantic", p)
  <2>1. IsPath(p)
    BY Tuples DEF search_pricebook_semantic
  <2>2. Disciplined("search_pricebook_semantic", p)
    BY DEF search_pricebook_semantic, Optional, SayWarning, Warehouse
  <2> QED BY <2>1, <2>2
<1>5. ASSUME NEW p \in search_pricebook_templates
      PROVE  IsPath(p) /\ Disciplined("search_pricebook_templates", p)
  <2>1. IsPath(p)
    BY Tuples DEF search_pricebook_templates
  <2>2. Disciplined("search_pricebook_templates", p)
    BY DEF search_pricebook_templates, Warehouse
  <2> QED BY <2>1, <2>2
<1>6. ASSUME NEW p \in get_proposal_tiers
      PROVE  IsPath(p) /\ Disciplined("get_proposal_tiers", p)
  <2>1. IsPath(p)
    BY Tuples DEF get_proposal_tiers
  <2>2. Disciplined("get_proposal_tiers", p)
    BY DEF get_proposal_tiers, FromCache, Store, Warehouse
  <2> QED BY <2>1, <2>2
<1>7. ASSUME NEW p \in find_packages_with_item
      PROVE  IsPath(p) /\ Disciplined("find_packages_with_item", p)
  <2>1. IsPath(p)
    BY Tuples DEF find_packages_with_item
  <2>2. Disciplined("find_packages_with_item", p)
    BY DEF find_packages_with_item, Warehouse
  <2> QED BY <2>1, <2>2
<1>8. ASSUME NEW p \in get_service_breakout
      PROVE  IsPath(p) /\ Disciplined("get_service_breakout", p)
  <2>1. IsPath(p)
    BY Tuples DEF get_service_breakout
  <2>2. Disciplined("get_service_breakout", p)
    BY DEF get_service_breakout, Absent, Warehouse
  <2> QED BY <2>1, <2>2
<1>9. ASSUME NEW p \in semantic_search_gold
      PROVE  IsPath(p) /\ Disciplined("semantic_search_gold", p)
  <2>1. IsPath(p)
    BY Tuples DEF semantic_search_gold
  <2>2. Disciplined("semantic_search_gold", p)
    BY DEF semantic_search_gold, Absent, Live, Optional, SayWarning, Warehouse
  <2> QED BY <2>1, <2>2
<1>10. ASSUME NEW p \in gold_margin_by_bu
      PROVE  IsPath(p) /\ Disciplined("gold_margin_by_bu", p)
  <2>1. IsPath(p)
    BY Tuples DEF gold_margin_by_bu
  <2>2. Disciplined("gold_margin_by_bu", p)
    BY DEF gold_margin_by_bu, Warehouse
  <2> QED BY <2>1, <2>2
<1>11. ASSUME NEW p \in titan_advisor_score
      PROVE  IsPath(p) /\ Disciplined("titan_advisor_score", p)
  <2>1. IsPath(p)
    BY Tuples DEF titan_advisor_score
  <2>2. Disciplined("titan_advisor_score", p)
    BY DEF titan_advisor_score, SayWarning, Warehouse
  <2> QED BY <2>1, <2>2
<1> HIDE DEF Disciplined, WritesAreMarked, DeniesWhatItRead, TellsHoles, DatesItsRows,
      DatesRows, Covers, Rows, Dated, Among, Writes, Denials, MayMiss,
      MayLeaveHoles, Disclaimers, OfMirror, Builds, Upstream
<1> QED BY <1>1, <1>2, <1>3, <1>4, <1>5, <1>6, <1>7, <1>8, <1>9, <1>10, <1>11 DEF Keeps

LEMMA CustomersKeep ==
    ASSUME NEW t \in DOMAIN Customers
    PROVE  Keeps(t, Customers[t])
<1>1. /\ Keeps("find_customer", find_customer)
      /\ Keeps("get_customer", get_customer)
      /\ Keeps("get_customer_locations", get_customer_locations)
      /\ Keeps("list_customer_jobs", list_customer_jobs)
      /\ Keeps("get_customer_membership", get_customer_membership)
      /\ Keeps("st_get_customer", st_get_customer)
      /\ Keeps("st_list_customers", st_list_customers)
      /\ Keeps("get_call", get_call)
      /\ Keeps("list_memberships_active", list_memberships_active)
      /\ Keeps("list_memberships_expiring", list_memberships_expiring)
      /\ Keeps("list_campaigns", list_campaigns)
      /\ Keeps("get_campaign_performance", get_campaign_performance)
  BY PlainTools DEF find_customer, get_customer, get_customer_locations,
      list_customer_jobs, get_customer_membership, st_get_customer, st_list_customers,
      get_call, list_memberships_active, list_memberships_expiring, list_campaigns,
      get_campaign_performance
<1>2. /\ Keeps("add_customer_note", add_customer_note)
      /\ Keeps("create_recurring_service", create_recurring_service)
      /\ Keeps("create_call_with_campaign", create_call_with_campaign)
      /\ Keeps("st_post_marketing_attribution", st_post_marketing_attribution)
  BY WriterTools DEF isWrite, add_customer_note, create_recurring_service,
      create_call_with_campaign
<1> QED BY <1>1, <1>2, MirrorTools DEF Customers

LEMMA JobsKeep ==
    ASSUME NEW t \in DOMAIN Jobs
    PROVE  Keeps(t, Jobs[t])
<1>1. /\ Keeps("get_job", get_job)
      /\ Keeps("get_job_appointments", get_job_appointments)
      /\ Keeps("get_job_history", get_job_history)
      /\ Keeps("st_list_jobs", st_list_jobs)
      /\ Keeps("st_list_appointments", st_list_appointments)
      /\ Keeps("jobs_hold_reasons_list", jobs_hold_reasons_list)
      /\ Keeps("list_open_tasks", list_open_tasks)
      /\ Keeps("get_capacity", get_capacity)
      /\ Keeps("list_technicians_available", list_technicians_available)
      /\ Keeps("get_technician_shifts", get_technician_shifts)
      /\ Keeps("list_non_job_events", list_non_job_events)
      /\ Keeps("st_get_capacity_slots", st_get_capacity_slots)
      /\ Keeps("siro_list_mobile_events", siro_list_mobile_events)
      /\ Keeps("siro_get_recording_summary", siro_get_recording_summary)
      /\ Keeps("siro_get_engagement", siro_get_engagement)
  BY PlainTools DEF get_job, get_job_appointments, get_job_history, st_list_jobs,
      st_list_appointments, jobs_hold_reasons_list, list_open_tasks, get_capacity,
      get_technician_shifts, list_non_job_events, st_get_capacity_slots,
      siro_list_mobile_events, siro_get_recording_summary, siro_get_engagement
<1>2. /\ Keeps("add_job_note", add_job_note)
      /\ Keeps("book_job", book_job)
      /\ Keeps("reschedule_appointment", reschedule_appointment)
      /\ Keeps("hold_appointment", hold_appointment)
      /\ Keeps("create_task", create_task)
  BY WriterTools DEF isWrite, add_job_note, book_job, reschedule_appointment,
      hold_appointment, create_task
<1> QED BY <1>1, <1>2, MirrorTools DEF Jobs

LEMMA BooksKeep ==
    ASSUME NEW t \in DOMAIN Books
    PROVE  Keeps(t, Books[t])
<1>1. /\ Keeps("get_invoice", get_invoice)
      /\ Keeps("list_invoices_job", list_invoices_job)
      /\ Keeps("get_invoice_balance", get_invoice_balance)
      /\ Keeps("list_estimates_job", list_estimates_job)
      /\ Keeps("get_estimate", get_estimate)
      /\ Keeps("get_estimate_template", get_estimate_template)
      /\ Keeps("inventory_vendors_list", inventory_vendors_list)
      /\ Keeps("inventory_warehouses_list", inventory_warehouses_list)
      /\ Keeps("inventory_receipts_list", inventory_receipts_list)
      /\ Keeps("inventory_transfers_list", inventory_transfers_list)
      /\ Keeps("payroll_payrolls_list", payroll_payrolls_list)
      /\ Keeps("payroll_non_job_timesheets_list", payroll_non_job_timesheets_list)
      /\ Keeps("payroll_job_timesheets_list", payroll_job_timesheets_list)
      /\ Keeps("payroll_location_rates_list", payroll_location_rates_list)
      /\ Keeps("payroll_settings_get", payroll_settings_get)
  BY PlainTools DEF get_invoice, list_invoices_job, get_invoice_balance,
      list_estimates_job, get_estimate, get_estimate_template, inventory_vendors_list,
      inventory_warehouses_list, inventory_receipts_list, inventory_transfers_list,
      payroll_payrolls_list, payroll_non_job_timesheets_list,
      payroll_location_rates_list, payroll_settings_get
<1>2. /\ Keeps("dismiss_estimate", dismiss_estimate)
      /\ Keeps("sell_estimate", sell_estimate)
      /\ Keeps("unsell_estimate", unsell_estimate)
      /\ Keeps("create_estimate_template", create_estimate_template)
      /\ Keeps("update_estimate_template", update_estimate_template)
      /\ Keeps("delete_estimate_template", delete_estimate_template)
      /\ Keeps("st_call", st_call)
  BY WriterTools DEF isWrite, dismiss_estimate, sell_estimate, unsell_estimate,
      create_estimate_template, update_estimate_template, delete_estimate_template
<1> QED BY <1>1, <1>2, MirrorTools DEF Books

LEMMA PricebookKeep ==
    ASSUME NEW t \in DOMAIN Pricebook
    PROVE  Keeps(t, Pricebook[t])
<1>1. /\ Keeps("st_get_pricebook", st_get_pricebook)
      /\ Keeps("get_service_details", get_service_details)
      /\ Keeps("get_configurable_equipment_children", get_configurable_equipment_children)
      /\ Keeps("list_service_categories", list_service_categories)
  BY PlainTools
<1> QED BY <1>1, MirrorTools, WarehouseTools DEF Pricebook

LEMMA ReportsKeep ==
    ASSUME NEW t \in DOMAIN Reports
    PROVE  Keeps(t, Reports[t])
<1> QED BY MirrorTools, WarehouseTools DEF Reports

LEMMA JoinedKeep ==
    ASSUME NEW f, NEW g,
           \A t \in DOMAIN f : Keeps(t, f[t]), \A t \in DOMAIN g : Keeps(t, g[t])
    PROVE  \A t \in DOMAIN joined(f, g) : Keeps(t, joined(f, g)[t])
<1> SUFFICES ASSUME NEW t \in DOMAIN joined(f, g) PROVE Keeps(t, joined(f, g)[t])
  OBVIOUS
<1>1. /\ t \in DOMAIN f \cup DOMAIN g
      /\ joined(f, g)[t] = IF t \in DOMAIN f THEN f[t] ELSE g[t]
  BY DEF joined
<1> QED BY <1>1

LEMMA NotJoined ==
    ASSUME NEW f, NEW g, NEW x, x \notin DOMAIN f, x \notin DOMAIN g
    PROVE  x \notin DOMAIN joined(f, g)
BY DEF joined

LEMMA ToolsKeep ==
    ASSUME NEW t \in DOMAIN TOOLS
    PROVE  Keeps(t, TOOLS[t])
<1>1. \A u \in DOMAIN joined(Pricebook, Reports) : Keeps(u, joined(Pricebook, Reports)[u])
  BY PricebookKeep, ReportsKeep, JoinedKeep
<1> DEFINE A == joined(Pricebook, Reports)
           B == joined(Books, A)
           C == joined(Jobs, B)
<1> HIDE DEF A
<1>2. \A u \in DOMAIN B : Keeps(u, B[u])
  BY <1>1, BooksKeep, JoinedKeep DEF A
<1> HIDE DEF B
<1>3. \A u \in DOMAIN C : Keeps(u, C[u])
  BY <1>2, JobsKeep, JoinedKeep DEF B
<1> HIDE DEF C
<1>4. \A u \in DOMAIN joined(Customers, C) : Keeps(u, joined(Customers, C)[u])
  BY <1>3, CustomersKeep, JoinedKeep
<1>5. TOOLS = joined(Customers, C)
  BY DEF TOOLS, C, B, A
<1> QED BY <1>4, <1>5

LEMMA NoToolIsNone == NoTool \notin DOMAIN TOOLS
<1>1. /\ NoTool \notin DOMAIN Customers /\ NoTool \notin DOMAIN Jobs
      /\ NoTool \notin DOMAIN Books /\ NoTool \notin DOMAIN Pricebook
      /\ NoTool \notin DOMAIN Reports
  BY DEF NoTool, Customers, Jobs, Books, Pricebook, Reports
<1> DEFINE A == joined(Pricebook, Reports)
           B == joined(Books, A)
           C == joined(Jobs, B)
<1>2. NoTool \notin DOMAIN A
  BY <1>1, NotJoined
<1> HIDE DEF A
<1>3. NoTool \notin DOMAIN B
  BY <1>1, <1>2, NotJoined
<1> HIDE DEF B
<1>4. NoTool \notin DOMAIN C
  BY <1>1, <1>3, NotJoined
<1> HIDE DEF C
<1>5. NoTool \notin DOMAIN joined(Customers, C)
  BY <1>1, <1>4, NotJoined
<1> QED BY <1>5 DEF TOOLS, C, B, A

-----------------------------------------------------------------------------
(* What a call has in hand, and what its steps may still do to it.          *)

Flags == {"unprobed", "kept", "holes", "partial", "warned", "unread", "absent", "wrote",
          "caught"}
Fields == Flags \cup {"stamp", "behind", "tries"}

\* The shape of what is in hand, whatever its sources and its verdict.
IsCall(c) ==
    /\ c = [f \in Fields |-> c[f]]
    /\ \A f \in Flags : c[f] \in BOOLEAN

\* At most one role; under a lockdown, one that cannot write.
RoleInv ==
    /\ role = {} \/ \E r \in {"readonly", "lockdown", "default", "admin"} : role = {r}
    /\ locked => role \subseteq {"readonly", "lockdown"}

\* What remains is disciplined; an answer comes after the last step.
StepsInv ==
    /\ IsCall(call)
    /\ IsPath(steps) /\ Disciplined(tool, steps)
    /\ tool = NoTool => call = NewCall /\ steps = <<>> /\ reply = {}
    /\ reply # {} => steps = <<>>

\* Who has written, or still may, is allowed to.
WriteInv ==
    call.wrote \/ Among(steps, Writes) => ~locked /\ role \subseteq {"default", "admin"}

\* Who has denied, or still may, has missed nothing, and will not.
AbsenceInv ==
    tool \notin NotKeptTo /\ (call.absent \/ Among(steps, Denials)) =>
        ~call.unread /\ ~Among(steps, MayMiss)

\* A hole is told of, or will be; and who catches has none, and will have none.
HoleInv ==
    /\ call.caught \/ Among(steps, {"caught"}) =>
          ~call.holes /\ ~Among(steps, MayLeaveHoles)
    /\ call.holes /\ tool \notin DoNotLookAtTheCap =>
          \/ call.warned \/ call.partial \/ Among(steps, Disclaimers)
          \/ reply = {Failure}

\* With rows in hand nothing will date others; and under the verdict "fresh" the
\* builds of the rows still to come are as current as those of the rows in hand.
FreshInv ==
    /\ world = [s \in DOMAIN world |-> world[s]] /\ \A s \in DOMAIN world : world[s] \in Times
    /\ call.behind \subseteq DOMAIN world
    /\ call.behind # {} \/ call.stamp # "none" \/ call.unprobed =>
          \A i \in DOMAIN steps : ~Dated(steps[i])
    /\ call.stamp = "fresh" =>
          IF call.unprobed THEN \E s \in call.behind : Current(s)
          ELSE /\ \A s \in call.behind : Current(s)
               /\ \A i \in DOMAIN steps : steps[i].op = "warehouse" =>
                     \A s \in steps[i].reads : s \in DOMAIN world /\ Current(s)

\* What was replied is the failure, or what Respond makes of the call.
ReplyInv ==
    \/ reply \in {{}, {Failure}}
    \/ \E large, put \in BOOLEAN : reply = {Success(large, put)}

\* What every step does that goes on, and what every one does that throws.
LEMMA GoingOn ==
    ASSUME StepsInv, steps # <<>>, NEW c, IsCall(c), GoOn(c), Elsewhere
    PROVE  /\ StepsInv'
           /\ \A f \in Fields \ {"tries"} : call'[f] = c[f]
           /\ \A ops : Among(steps', ops) => Among(steps, ops)
           /\ reply = {} /\ reply' = {} /\ tool # NoTool
<1>1. reply = {} /\ tool # NoTool
  BY DEF StepsInv
<1>2. /\ IsPath(steps') /\ Disciplined(tool', steps')
      /\ \A ops : Among(steps', ops) => Among(steps, ops)
  BY TailIs, TailDisciplined DEF StepsInv, GoOn, Elsewhere
<1>3. IsCall(call') /\ \A f \in Fields \ {"tries"} : call'[f] = c[f]
  BY DEF IsCall, GoOn, Fields, Flags
<1> QED BY <1>1, <1>2, <1>3 DEF StepsInv, GoOn, Elsewhere

LEMMA Throwing ==
    ASSUME StepsInv, steps # <<>>, NEW c, IsCall(c), Throw(c), Elsewhere
    PROVE  /\ StepsInv'
           /\ \A f \in Fields \ {"tries"} : call'[f] = c[f]
           /\ \A ops : ~Among(steps', ops)
           /\ reply = {} /\ steps' = <<>> /\ tool # NoTool
           /\ reply' = IF c.caught THEN {} ELSE {Failure}
<1>1. reply = {} /\ tool # NoTool
  BY DEF StepsInv
<1>2. DOMAIN steps' = {}
  BY DEF Throw
<1>3. IsPath(steps') /\ Disciplined(tool', steps') /\ \A ops : ~Among(steps', ops)
  BY <1>2, Tuples
     DEF Throw, Among, Disciplined, WritesAreMarked, DeniesWhatItRead, TellsHoles, DatesItsRows
<1>4. IsCall(call') /\ \A f \in Fields \ {"tries"} : call'[f] = c[f]
  BY DEF IsCall, Throw, Fields, Flags
<1> QED BY <1>1, <1>3, <1>4 DEF StepsInv, Throw, Elsewhere

Inv == RoleInv /\ StepsInv /\ WriteInv /\ AbsenceInv /\ HoleInv /\ FreshInv /\ ReplyInv

\* What the step at the head may have changed of the call, as far as writes,
\* absences and holes go.
Allowed(c, step) ==
    /\ c.unread => call.unread \/ step.op \in MayMiss
    /\ c.absent => call.absent \/ step.op \in Denials
    /\ c.wrote => call.wrote \/ step.op \in Writes
    /\ c.caught => call.caught \/ step.op = "caught"
    /\ c.holes => call.holes \/ step.op \in MayLeaveHoles
    /\ call.warned => c.warned
    /\ call.partial => c.partial \/ ~c.holes

\* A step that tells of holes tells of the one there is.
Disclaims(c, step) ==
    step.op \in Disclaimers => c.warned \/ c.partial \/ ~c.holes

LEMMA HeadAmong ==
    ASSUME IsPath(steps), steps # <<>>
    PROVE  \A ops : Head(steps).op \in ops => Among(steps, ops)
BY TailIs DEF Among

\* A step that goes on, or throws, having changed no more than it may.
LEMMA GoesOn ==
    ASSUME Inv, steps # <<>>, NEW c, IsCall(c), GoOn(c), Elsewhere,
           Allowed(c, Head(steps)), Disclaims(c, Head(steps))
    PROVE  RoleInv' /\ StepsInv' /\ WriteInv' /\ AbsenceInv' /\ HoleInv' /\ ReplyInv'
<1>1. /\ StepsInv' /\ (\A ops : Among(steps', ops) => Among(steps, ops))
      /\ reply = {} /\ reply' = {} /\ \A f \in Fields \ {"tries"} : call'[f] = c[f]
  BY GoingOn DEF Inv
<1>2. /\ call'.unread = c.unread /\ call'.absent = c.absent /\ call'.wrote = c.wrote
      /\ call'.caught = c.caught /\ call'.holes = c.holes /\ call'.warned = c.warned
      /\ call'.partial = c.partial
  BY <1>1 DEF Fields, Flags
<1>3. /\ tool' = tool /\ locked' = locked /\ role' = role
      /\ IsPath(steps) /\ Disciplined(tool, steps) /\ steps' = Tail(steps)
  BY DEF Elsewhere, GoOn, Inv, StepsInv
<1>4. \A ops : Head(steps).op \in ops => Among(steps, ops)
  BY <1>3, HeadAmong
<1>5. RoleInv' /\ ReplyInv'
  BY <1>1, <1>3 DEF Inv, RoleInv, ReplyInv
<1>6. WriteInv'
  BY <1>1, <1>2, <1>3, <1>4 DEF Inv, WriteInv, Allowed
<1>7. AbsenceInv'
  <2>1. ~(Among(steps, Denials) /\ Among(steps, MayMiss)) \/ tool \in NotKeptTo
    BY <1>3 DEF Disciplined, DeniesWhatItRead
  <2> QED BY <1>1, <1>2, <1>3, <1>4, <2>1 DEF Inv, AbsenceInv, Allowed
<1>8. HoleInv'
  <2>1. Among(steps, {"caught"}) => ~Among(steps, MayLeaveHoles)
    BY <1>3 DEF Disciplined, TellsHoles
  <2>2. Head(steps).op \in MayLeaveHoles /\ tool \notin DoNotLookAtTheCap =>
           Among(steps', Disclaimers)
    BY <1>3, TailDisciplined
  <2>3. Among(steps, Disclaimers) =>
           Among(steps', Disclaimers) \/ Head(steps).op \in Disclaimers
    BY <1>3, TailDisciplined
  <2>4. call'.caught \/ Among(steps', {"caught"}) =>
           ~call'.holes /\ ~Among(steps', MayLeaveHoles)
    <3>1. Head(steps).op = "caught" => Among(steps, {"caught"})
      BY <1>4
    <3> QED BY <1>1, <1>2, <1>4, <2>1, <3>1 DEF Inv, HoleInv, Allowed
  <2>5. reply # {Failure}
    BY <1>1
  <2>6. ASSUME call'.holes, tool \notin DoNotLookAtTheCap
        PROVE  call'.warned \/ call'.partial \/ Among(steps', Disclaimers)
    BY <1>1, <1>2, <2>2, <2>3, <2>5, <2>6 DEF Inv, HoleInv, Allowed, Disclaims
  <2> QED BY <1>3, <2>4, <2>6 DEF HoleInv
<1> QED BY <1>1, <1>5, <1>6, <1>7, <1>8

LEMMA Threw ==
    ASSUME Inv, steps # <<>>, NEW c, IsCall(c), Throw(c), Elsewhere, Allowed(c, Head(steps))
    PROVE  RoleInv' /\ StepsInv' /\ WriteInv' /\ AbsenceInv' /\ HoleInv' /\ ReplyInv'
<1>1. /\ StepsInv' /\ (\A ops : ~Among(steps', ops))
      /\ reply' = (IF c.caught THEN {} ELSE {Failure})
      /\ \A f \in Fields \ {"tries"} : call'[f] = c[f]
  BY Throwing DEF Inv
<1>2. /\ call'.unread = c.unread /\ call'.absent = c.absent /\ call'.wrote = c.wrote
      /\ call'.caught = c.caught /\ call'.holes = c.holes
  BY <1>1 DEF Fields, Flags
<1>3. /\ tool' = tool /\ locked' = locked /\ role' = role
      /\ IsPath(steps) /\ Disciplined(tool, steps)
  BY DEF Elsewhere, Inv, StepsInv
<1>4. \A ops : Head(steps).op \in ops => Among(steps, ops)
  BY <1>3, HeadAmong
<1>5. RoleInv' /\ ReplyInv'
  BY <1>1, <1>3 DEF Inv, RoleInv, ReplyInv, Failure, Recorded
<1>6. WriteInv'
  BY <1>1, <1>2, <1>3, <1>4 DEF Inv, WriteInv, Allowed
<1>7. AbsenceInv'
  <2>1. ~(Among(steps, Denials) /\ Among(steps, MayMiss)) \/ tool \in NotKeptTo
    BY <1>3 DEF Disciplined, DeniesWhatItRead
  <2> QED BY <1>1, <1>2, <1>3, <1>4, <2>1 DEF Inv, AbsenceInv, Allowed
<1>8. HoleInv'
  <2>1. Among(steps, {"caught"}) => ~Among(steps, MayLeaveHoles)
    BY <1>3 DEF Disciplined, TellsHoles
  <2>2. c.caught => ~c.holes
    <3>1. Head(steps).op = "caught" => Among(steps, {"caught"})
      BY <1>4
    <3> QED BY <1>4, <2>1, <3>1 DEF Inv, HoleInv, Allowed
  <2> QED BY <1>1, <1>2, <2>2 DEF HoleInv, Failure, Recorded
<1> QED BY <1>1, <1>5, <1>6, <1>7, <1>8

\* The verdict stands as long as neither it nor the rows change.
LEMMA FreshKept ==
    ASSUME Inv, steps # <<>>, steps' \in {steps, Tail(steps), <<>>}, UNCHANGED world,
           \/ /\ call'.stamp = call.stamp /\ call'.behind = call.behind
              /\ call'.unprobed = call.unprobed
           \/ call'.stamp = "none" /\ call'.behind = {} /\ call'.unprobed = call.unprobed
    PROVE  FreshInv'
<1>1. \A i \in DOMAIN steps' : \E j \in DOMAIN steps : steps'[i] = steps[j]
  BY TailIs DEF Inv, StepsInv
<1>2. \A s : Current(s)' <=> Current(s)
  BY DEF Current
<1>3. /\ call'.behind # {} \/ call'.stamp # "none" \/ call'.unprobed =>
           call.behind # {} \/ call.stamp # "none" \/ call.unprobed
      /\ call'.behind \subseteq call.behind
  OBVIOUS
<1>4. call'.behind # {} \/ call'.stamp # "none" \/ call'.unprobed =>
          \A i \in DOMAIN steps' : ~Dated(steps'[i])
  BY <1>1, <1>3 DEF Inv, FreshInv
<1>5. ASSUME call'.stamp = "fresh"
      PROVE  IF call'.unprobed THEN \E s \in call'.behind : Current(s)'
             ELSE /\ \A s \in call'.behind : Current(s)'
                  /\ \A i \in DOMAIN steps' : steps'[i].op = "warehouse" =>
                        \A s \in steps'[i].reads : s \in DOMAIN world' /\ Current(s)'
  BY <1>1, <1>2, <1>5 DEF Inv, FreshInv
<1> QED BY <1>3, <1>4, <1>5 DEF Inv, FreshInv

LEMMA NewCallIs == IsCall(NewCall)
BY DEF IsCall, NewCall, Fields, Flags

LEMMA NoSteps == IsPath(<<>>) /\ DOMAIN <<>> = {} /\ \A ops : ~Among(<<>>, ops)
<1>1. DOMAIN <<>> = {}
  OBVIOUS
<1> QED BY <1>1, Tuples DEF Among

LEMMA InvInit == Init => Inv
<1> SUFFICES ASSUME Init PROVE Inv
  OBVIOUS
<1>1. RoleInv
  BY DEF Init, RoleInv, roleOf, resolveAuth, resolveCredentials, Doors
<1>2. /\ steps = <<>> /\ IsPath(steps) /\ tool = NoTool /\ call = NewCall /\ reply = {}
      /\ world = <<>> /\ DOMAIN steps = {} /\ \A ops : ~Among(steps, ops)
  BY NoSteps DEF Init
<1>3. StepsInv
  BY <1>2, NewCallIs
     DEF StepsInv, Disciplined, WritesAreMarked, DeniesWhatItRead, TellsHoles, DatesItsRows
<1>4. WriteInv /\ AbsenceInv /\ HoleInv /\ ReplyInv
  BY <1>2 DEF WriteInv, AbsenceInv, HoleInv, ReplyInv, NewCall
<1>5. FreshInv
  BY <1>2 DEF FreshInv, NewCall
<1> QED BY <1>1, <1>3, <1>4, <1>5 DEF Inv

LEMMA InvInvoke == Inv /\ Invoke => Inv'
<1> SUFFICES ASSUME Inv, Invoke PROVE Inv'
  OBVIOUS
<1>1. PICK r, t, path :
          /\ r \in role /\ t \in toolsForRole(r) /\ path \in TOOLS[t]
          /\ tool' = t /\ steps' = path
  BY DEF Invoke
<1>2. /\ t \in DOMAIN TOOLS
      /\ r \in {"lockdown", "readonly"} => t \notin isWrite
  BY <1>1 DEF toolsForRole
<1>3. IsPath(path) /\ Disciplined(t, path)
  BY <1>1, <1>2, ToolsKeep DEF Keeps
<1>4. t # NoTool
  BY <1>2, NoToolIsNone
<1>5. /\ tool = NoTool /\ call = NewCall /\ call' = call /\ reply = {} /\ reply' = {}
      /\ locked' = locked /\ role' = role /\ world' = world
  BY DEF Invoke, Inv, StepsInv
<1>6. RoleInv'
  BY <1>5 DEF Inv, RoleInv
<1>7. StepsInv'
  BY <1>1, <1>3, <1>4, <1>5 DEF Inv, StepsInv
<1>8. WriteInv'
  <2>1. ~call'.wrote
    BY <1>5 DEF NewCall
  <2>2. Among(steps', Writes) => t \in isWrite
    BY <1>1, <1>3 DEF Disciplined, WritesAreMarked
  <2>3. t \in isWrite => ~locked /\ role \subseteq {"default", "admin"}
    BY <1>1, <1>2 DEF Inv, RoleInv
  <2> QED BY <1>5, <2>1, <2>2, <2>3 DEF WriteInv
<1>9. AbsenceInv' /\ HoleInv'
  <2>1. ~call'.absent /\ ~call'.unread /\ ~call'.holes /\ ~call'.caught
    BY <1>5 DEF NewCall
  <2> QED BY <1>1, <1>3, <2>1
      DEF AbsenceInv, HoleInv, Disciplined, DeniesWhatItRead, TellsHoles
<1>10. FreshInv' /\ ReplyInv'
  <2>1. call'.stamp = "none" /\ call'.behind = {} /\ ~call'.unprobed
    BY <1>5 DEF NewCall
  <2> QED BY <1>5, <2>1 DEF Inv, FreshInv, ReplyInv
<1> QED BY <1>6, <1>7, <1>8, <1>9, <1>10 DEF Inv

LEMMA InvRespond == Inv /\ Respond => Inv'
<1> SUFFICES ASSUME Inv, Respond PROVE Inv'
  OBVIOUS
<1>1. PICK large \in BOOLEAN, put \in BOOLEAN : reply' = {Success(large, put)}
  BY DEF Respond
<1>2. /\ tool # NoTool /\ steps = <<>> /\ reply = {}
      /\ locked' = locked /\ role' = role /\ tool' = tool /\ steps' = steps
      /\ world' = world /\ call' = call
  BY DEF Respond
<1>3. ReplyInv'
  BY <1>1, <1>2 DEF ReplyInv, Success
<1>4. RoleInv' /\ WriteInv' /\ AbsenceInv'
  BY <1>2 DEF Inv, RoleInv, WriteInv, AbsenceInv
<1>5. StepsInv'
  BY <1>2 DEF Inv, StepsInv
<1>6. HoleInv'
  <2>1. reply # {Failure}
    BY <1>2
  <2> QED BY <1>2, <2>1 DEF Inv, HoleInv
<1>7. FreshInv'
  BY <1>2 DEF Inv, FreshInv, Current
<1> QED BY <1>3, <1>4, <1>5, <1>6, <1>7 DEF Inv

-----------------------------------------------------------------------------
(* Steps that leave the verdict as it is, or drop it.                       *)

\* With a record that may be returned with, or thrown with.
LEMMA Moved ==
    ASSUME Inv, steps # <<>>, NEW c, IsCall(c), Elsewhere, UNCHANGED world,
           Allowed(c, Head(steps)),
           \/ GoOn(c) /\ Disclaims(c, Head(steps))
           \/ Throw(c),
           c.unprobed = call.unprobed,
           \/ c.stamp = call.stamp /\ c.behind = call.behind
           \/ c.stamp = "none" /\ c.behind = {}
    PROVE  Inv'
<1>1. /\ call'.stamp = c.stamp /\ call'.behind = c.behind /\ call'.unprobed = c.unprobed
      /\ steps' \in {Tail(steps), <<>>}
  <2>1. StepsInv
    BY DEF Inv
  <2>2. \A f \in Fields \ {"tries"} : call'[f] = c[f]
    BY <2>1, GoingOn, Throwing
  <2> QED BY <2>2 DEF Fields, Flags, GoOn, Throw
<1>2. FreshInv'
  BY <1>1, FreshKept
<1>3. RoleInv' /\ StepsInv' /\ WriteInv' /\ AbsenceInv' /\ HoleInv' /\ ReplyInv'
  BY GoesOn, Threw
<1> QED BY <1>2, <1>3 DEF Inv

LEMMA InvMayThrow == Inv /\ MayThrow => Inv'
<1> SUFFICES ASSUME Inv, MayThrow PROVE Inv'
  OBVIOUS
<1> DEFINE c == [call EXCEPT !.warned = TRUE]
<1>1. IsCall(call) /\ steps # <<>> /\ Head(steps).op \notin Disclaimers
  BY DEF Inv, StepsInv, MayThrow, At, Disclaimers
<1>2. IsCall(c) /\ c.warned /\ \A f \in Fields \ {"warned"} : c[f] = call[f]
  BY <1>1 DEF IsCall, Fields, Flags
<1>3. Allowed(call, Head(steps)) /\ Disclaims(call, Head(steps))
  BY <1>1 DEF Allowed, Disclaims
<1>4. Allowed(c, Head(steps)) /\ Disclaims(c, Head(steps))
  BY <1>1, <1>2 DEF Allowed, Disclaims, Fields, Flags
<1> HIDE DEF c
<1>5. CASE GoOn(call) \/ Throw(call)
  BY <1>1, <1>3, <1>5, Moved DEF MayThrow
<1>6. CASE GoOn(c)
  <2>1. c.unprobed = call.unprobed /\ c.stamp = call.stamp /\ c.behind = call.behind
    BY <1>2 DEF Fields, Flags
  <2> QED BY <1>1, <1>2, <1>4, <1>6, <2>1, Moved DEF MayThrow
<1> QED BY <1>5, <1>6 DEF MayThrow, c

LEMMA InvLiveRead == Inv /\ LiveRead => Inv'
<1> SUFFICES ASSUME Inv, LiveRead PROVE Inv'
  OBVIOUS
<1> DEFINE c == [call EXCEPT !.stamp = "none", !.behind = {}, !.unread = FALSE]
<1>1. IsCall(call) /\ steps # <<>> /\ Head(steps).op \notin Disclaimers
  BY DEF Inv, StepsInv, LiveRead, At, Disclaimers
<1>2. /\ IsCall(c) /\ c.stamp = "none" /\ c.behind = {} /\ c.unread = FALSE
      /\ \A f \in Fields \ {"stamp", "behind", "unread"} : c[f] = call[f]
  BY <1>1 DEF IsCall, Fields, Flags
<1>3. Allowed(c, Head(steps)) /\ Disclaims(c, Head(steps)) /\ c.unprobed = call.unprobed
  BY <1>1, <1>2 DEF Allowed, Disclaims, Fields, Flags
<1>4. Allowed(call, Head(steps))
  BY DEF Allowed
<1> HIDE DEF c
<1>5. CASE GoOn(c)
  BY <1>1, <1>2, <1>3, <1>5, Moved DEF LiveRead
<1>6. CASE Throw(call)
  BY <1>1, <1>4, <1>6, Moved DEF LiveRead
<1> QED BY <1>5, <1>6 DEF LiveRead, c

LEMMA InvSayNotFound == Inv /\ SayNotFound => Inv'
<1> SUFFICES ASSUME Inv, SayNotFound PROVE Inv'
  OBVIOUS
<1> DEFINE c == [call EXCEPT !.absent = TRUE]
<1>1. IsCall(call) /\ steps # <<>> /\ Head(steps).op \in Denials
  BY DEF Inv, StepsInv, SayNotFound, At, Denials
<1>2. IsCall(c) /\ \A f \in Fields \ {"absent"} : c[f] = call[f]
  BY <1>1 DEF IsCall, Fields, Flags
<1>3. /\ Allowed(c, Head(steps)) /\ c.unprobed = call.unprobed
      /\ c.stamp = call.stamp /\ c.behind = call.behind
  BY <1>1, <1>2 DEF Allowed, Fields, Flags
<1> HIDE DEF c
<1>4. Throw(c)
  BY DEF SayNotFound, c
<1> QED BY <1>1, <1>2, <1>3, <1>4, Moved DEF SayNotFound

LEMMA InvSoft == Inv /\ Soft => Inv'
<1> SUFFICES ASSUME Inv, Soft PROVE Inv'
  OBVIOUS
<1>1. PICK failed \in BOOLEAN : GoOn([call EXCEPT !.holes = @ \/ failed])
  BY DEF Soft
<1> DEFINE c == [call EXCEPT !.holes = @ \/ failed]
<1>2. IsCall(call) /\ steps # <<>> /\ Head(steps).op \in MayLeaveHoles \ Disclaimers
  BY DEF Inv, StepsInv, Soft, At, MayLeaveHoles, Disclaimers
<1>3. IsCall(c) /\ \A f \in Fields \ {"holes"} : c[f] = call[f]
  BY <1>2 DEF IsCall, Fields, Flags
<1> HIDE DEF c
<1>4. Allowed(c, Head(steps)) /\ Disclaims(c, Head(steps))
  BY <1>2, <1>3 DEF Allowed, Disclaims, Fields, Flags
<1>5. c.unprobed = call.unprobed /\ c.stamp = call.stamp /\ c.behind = call.behind
  BY <1>3 DEF Fields, Flags
<1> QED BY <1>1, <1>2, <1>3, <1>4, <1>5, Moved DEF Soft, c

LEMMA InvReadAllPages == Inv /\ ReadAllPages => Inv'
<1> SUFFICES ASSUME Inv, ReadAllPages PROVE Inv'
  OBVIOUS
<1>1. /\ IsCall(call) /\ steps # <<>>
      /\ Head(steps).op \in (MayLeaveHoles \intersect MayMiss) \ Disclaimers
  BY DEF Inv, StepsInv, ReadAllPages, At, MayLeaveHoles, MayMiss, Disclaimers
<1>2. CASE Throw(call)
  <2>1. Allowed(call, Head(steps))
    BY DEF Allowed
  <2> QED BY <1>1, <1>2, <2>1, Moved DEF ReadAllPages
<1>3. ASSUME NEW capped \in BOOLEAN,
             GoOn([call EXCEPT !.holes = @ \/ capped, !.unread = @ \/ capped])
      PROVE  Inv'
  <2> DEFINE c == [call EXCEPT !.holes = @ \/ capped, !.unread = @ \/ capped]
  <2>1. IsCall(c) /\ \A f \in Fields \ {"holes", "unread"} : c[f] = call[f]
    BY <1>1 DEF IsCall, Fields, Flags
  <2> HIDE DEF c
  <2>2. Allowed(c, Head(steps)) /\ Disclaims(c, Head(steps))
    BY <1>1, <2>1 DEF Allowed, Disclaims, Fields, Flags
  <2>3. c.unprobed = call.unprobed /\ c.stamp = call.stamp /\ c.behind = call.behind
    BY <2>1 DEF Fields, Flags
  <2> QED BY <1>1, <1>3, <2>1, <2>2, <2>3, Moved DEF ReadAllPages, c
<1> QED BY <1>2, <1>3 DEF ReadAllPages

LEMMA InvSay == Inv /\ Say => Inv'
<1> SUFFICES ASSUME Inv, Say PROVE Inv'
  OBVIOUS
<1> DEFINE step == Head(steps)
           c == Note(step.op)
<1>1. /\ IsCall(call) /\ steps # <<>>
      /\ step.op \in {"say_partial", "say_warning", "absent", "caught", "from_cache", "store"}
  BY DEF Inv, StepsInv, Say, At
<1> HIDE DEF step
<1>2. /\ IsCall(c)
      /\ \A f \in {"stamp", "behind", "unprobed", "unread", "wrote", "holes"} : c[f] = call[f]
      /\ c.warned = IF step.op = "say_warning" THEN TRUE ELSE call.warned
      /\ c.partial = IF step.op = "say_partial" THEN call.holes ELSE call.partial
      /\ c.absent = IF step.op = "absent" THEN TRUE ELSE call.absent
      /\ c.caught = IF step.op = "caught" THEN TRUE ELSE call.caught
  BY <1>1 DEF IsCall, Fields, Flags, Note
<1> HIDE DEF c
<1>3. Allowed(c, step) /\ Disclaims(c, step)
  BY <1>1, <1>2 DEF Allowed, Disclaims, Denials, Disclaimers
<1> QED BY <1>1, <1>2, <1>3, Moved DEF Say, c, step

LEMMA InvConfirmedWrite == Inv /\ ConfirmedWrite => Inv'
<1> SUFFICES ASSUME Inv, ConfirmedWrite PROVE Inv'
  OBVIOUS
<1>1. IsCall(call) /\ steps # <<>> /\ Head(steps).op \in Writes \ Disclaimers
  BY DEF Inv, StepsInv, ConfirmedWrite, At, Writes, Disclaimers
<1>2. ASSUME NEW reached \in BOOLEAN,
             \/ GoOn([call EXCEPT !.wrote = reached])
             \/ Throw([call EXCEPT !.wrote = reached])
      PROVE  Inv'
  <2> DEFINE c == [call EXCEPT !.wrote = reached]
  <2>1. IsCall(c) /\ \A f \in Fields \ {"wrote"} : c[f] = call[f]
    BY <1>1 DEF IsCall, Fields, Flags
  <2> HIDE DEF c
  <2>2. Allowed(c, Head(steps)) /\ Disclaims(c, Head(steps))
    BY <1>1, <2>1 DEF Allowed, Disclaims, Fields, Flags
  <2>3. c.unprobed = call.unprobed /\ c.stamp = call.stamp /\ c.behind = call.behind
    BY <2>1 DEF Fields, Flags
  <2> QED BY <1>1, <1>2, <2>1, <2>2, <2>3, Moved DEF ConfirmedWrite, c
<1> QED BY <1>2 DEF ConfirmedWrite

LEMMA InvUndated == Inv /\ Undated => Inv'
<1> SUFFICES ASSUME Inv, Undated PROVE Inv'
  OBVIOUS
<1>1. IsCall(call) /\ steps # <<>> /\ Head(steps).op \notin Disclaimers
  BY DEF Inv, StepsInv, Undated, At, Disclaimers
<1>2. Allowed(call, Head(steps)) /\ Disclaims(call, Head(steps))
  BY <1>1 DEF Allowed, Disclaims
<1> QED BY <1>1, <1>2, Moved DEF Undated

LEMMA InvRetry == Inv /\ Retry => Inv'
<1> SUFFICES ASSUME Inv, Retry PROVE Inv'
  OBVIOUS
<1>1. IsCall(call) /\ steps # <<>> /\ reply = {} /\ tool # NoTool
  BY DEF Inv, StepsInv, Retry, At
<1>2. IsCall(call') /\ \A f \in Fields \ {"tries"} : call'[f] = call[f]
  BY <1>1 DEF Retry, IsCall, Fields, Flags
<1>3. /\ steps' = steps /\ reply' = reply /\ world' = world
      /\ tool' = tool /\ locked' = locked /\ role' = role
  BY DEF Retry, Elsewhere
<1>4. /\ call'.unread = call.unread /\ call'.absent = call.absent /\ call'.wrote = call.wrote
      /\ call'.caught = call.caught /\ call'.holes = call.holes
      /\ call'.warned = call.warned /\ call'.partial = call.partial
      /\ call'.stamp = call.stamp /\ call'.behind = call.behind
      /\ call'.unprobed = call.unprobed
  BY <1>2 DEF Fields, Flags
<1>5. RoleInv' /\ WriteInv' /\ AbsenceInv' /\ ReplyInv'
  BY <1>1, <1>3, <1>4 DEF Inv, RoleInv, WriteInv, AbsenceInv, ReplyInv
<1>6. HoleInv' /\ StepsInv'
  BY <1>1, <1>2, <1>3, <1>4 DEF Inv, HoleInv, StepsInv
<1>7. FreshInv'
  BY <1>1, <1>3, <1>4, FreshKept
<1> QED BY <1>5, <1>6, <1>7 DEF Inv

-----------------------------------------------------------------------------
(* Steps that read rows, and what their verdict rests on.                  *)

IsWorld(w) == w = [s \in DOMAIN w |-> w[s]] /\ \A s \in DOMAIN w : w[s] \in Times

\* What was seen once is not seen otherwise later.
LEMMA SeenIs ==
    ASSUME IsWorld(world), NEW sources, NEW w \in Seen(sources)
    PROVE  /\ IsWorld(w) /\ DOMAIN w = DOMAIN world \cup sources
           /\ \A s \in DOMAIN world : w[s] = world[s]
<1>1. PICK v \in [sources \ DOMAIN world -> Times] : w = joined(v, world)
  BY DEF Seen
<1>2. w = [s \in DOMAIN world \cup sources |-> IF s \in DOMAIN v THEN v[s] ELSE world[s]]
  BY <1>1 DEF joined
<1> QED BY <1>1, <1>2 DEF IsWorld

LEMMA MirrorRows ==
    ASSUME NEW step, step.op \in OfMirror
    PROVE  Rows(step) /\ Dated(step) /\ step.op # "warehouse"
BY DEF Rows, Dated, OfMirror

\* The rows of a mirror, probed or not, meet the verdict they are given.
LEMMA MirrorDates ==
    ASSUME Inv, steps # <<>>, Head(steps).op \in OfMirror, steps' = Tail(steps),
           NEW sources, world' \in Seen(sources),
           Head(steps).counted \subseteq sources, Head(steps).probed \subseteq sources,
           NEW probed \in BOOLEAN, NEW shown \in SUBSET Head(steps).counted,
           call'.stamp = stampMirrorFreshness({world'[t] : t \in shown},
                             fetchTableMax(world', Head(steps).probed, probed)),
           call'.behind = call.behind \cup Head(steps).counted,
           call'.unprobed = ~probed
    PROVE  FreshInv'
<1> DEFINE step == Head(steps)
<1>1. IsPath(steps) /\ Disciplined(tool, steps) /\ IsWorld(world)
  BY DEF Inv, StepsInv, FreshInv, IsWorld
<1>2. IsWorld(world') /\ DOMAIN world' = DOMAIN world \cup sources
  BY <1>1, SeenIs
<1>3. /\ step.probed # {} /\ step.counted \subseteq step.probed
      /\ step.probed \intersect Builds = {}
  BY <1>1, TailDisciplined DEF DatesRows
<1>4. \A i \in DOMAIN steps' : ~Dated(steps'[i]) /\ steps'[i].op # "warehouse"
  <2>1. \A i \in DOMAIN steps' : Covers(step, steps'[i])
    BY <1>1, TailDisciplined
  <2>2. Rows(step) /\ Dated(step) /\ step.op # "warehouse"
    BY MirrorRows
  <2> QED BY <2>1, <2>2 DEF Covers
<1>5. call.behind = {}
  <2>1. \E i \in DOMAIN steps : Dated(steps[i])
    BY <1>1, TailIs, MirrorRows
  <2> QED BY <2>1 DEF Inv, FreshInv
<1>6. call'.behind = step.counted
  BY <1>5
<1>7. ASSUME call'.stamp = "fresh", NEW t \in step.probed,
             world'[t] # NoTime, ageHours(world'[t]) <= STALE_THRESHOLD_HOURS
      PROVE  Current(t)'
  <2>1. world'[t] \in Int
    BY <1>2, <1>3, <1>7, ToolCallAssumption DEF IsWorld
  <2>2. t \notin Builds /\ STALE_THRESHOLD_HOURS \in Nat
    BY <1>3, DisclosureAssumption
  <2>3. world'[t] <= STALE_THRESHOLD_HOURS
    BY <1>7, <2>1, <2>2 DEF ageHours
  <2> QED BY <1>7, <2>1, <2>2, <2>3 DEF Current
<1>8. ASSUME call'.stamp = "fresh", probed
      PROVE  \A t \in step.counted : Current(t)'
  <2> DEFINE tableMax == [t \in step.probed |-> world'[t]]
  <2>1. tableHeadline(tableMax) = "fresh"
    BY <1>3, <1>8 DEF stampMirrorFreshness, fetchTableMax
  <2>2. \A t \in step.probed :
           world'[t] # NoTime /\ ageHours(world'[t]) <= STALE_THRESHOLD_HOURS
    BY <2>1 DEF tableHeadline
  <2> QED BY <1>3, <1>7, <1>8, <2>2
<1>9. ASSUME call'.stamp = "fresh", ~probed
      PROVE  \E t \in step.counted : Current(t)'
  <2>1. newestRowRecent({world'[t] : t \in shown})
    BY <1>9 DEF stampMirrorFreshness, fetchTableMax
  <2>2. PICK t \in shown : world'[t] # NoTime /\ ageHours(world'[t]) <= STALE_THRESHOLD_HOURS
    BY <2>1 DEF newestRowRecent
  <2> QED BY <1>3, <1>7, <1>9, <2>2
<1>10. call'.behind \subseteq DOMAIN world'
  BY <1>2, <1>6
<1> HIDE DEF step
<1> QED BY <1>2, <1>4, <1>6, <1>8, <1>9, <1>10 DEF FreshInv, IsWorld

\* What a read of rows makes of the call touches the verdict alone.
LEMMA RowsMove ==
    ASSUME Inv, steps # <<>>, Head(steps).op \in OfMirror \cup {"warehouse"}, Elsewhere,
           NEW stamp, NEW behind, NEW unprobed \in BOOLEAN, NEW unread \in BOOLEAN,
           unread => call.unread \/ Head(steps).op \in MayMiss,
           GoOn([call EXCEPT !.stamp = stamp, !.behind = behind,
                             !.unprobed = unprobed, !.unread = unread])
    PROVE  /\ RoleInv' /\ StepsInv' /\ WriteInv' /\ AbsenceInv' /\ HoleInv' /\ ReplyInv'
           /\ call'.stamp = stamp /\ call'.behind = behind /\ call'.unprobed = unprobed
           /\ steps' = Tail(steps)
<1> DEFINE c == [call EXCEPT !.stamp = stamp, !.behind = behind,
                             !.unprobed = unprobed, !.unread = unread]
<1>1. IsCall(call) /\ Head(steps).op \notin Disclaimers
  BY DEF Inv, StepsInv, OfMirror, Disclaimers
<1>2. /\ IsCall(c) /\ c.stamp = stamp /\ c.behind = behind /\ c.unprobed = unprobed
      /\ c.unread = unread
      /\ \A f \in Fields \ {"stamp", "behind", "unprobed", "unread"} : c[f] = call[f]
  BY <1>1 DEF IsCall, Fields, Flags
<1> HIDE DEF c
<1>3. Allowed(c, Head(steps)) /\ Disclaims(c, Head(steps))
  BY <1>1, <1>2 DEF Allowed, Disclaims, Fields, Flags
<1>4. GoOn(c)
  BY DEF c
<1>5. RoleInv' /\ StepsInv' /\ WriteInv' /\ AbsenceInv' /\ HoleInv' /\ ReplyInv'
  BY <1>2, <1>3, <1>4, GoesOn
<1>6. call'.stamp = c.stamp /\ call'.behind = c.behind /\ call'.unprobed = c.unprobed
  <2>1. \A f \in Fields \ {"tries"} : call'[f] = c[f]
    BY <1>2, <1>4, GoingOn DEF Inv
  <2> QED BY <2>1 DEF Fields, Flags
<1> QED BY <1>2, <1>4, <1>5, <1>6 DEF GoOn

LEMMA InvReadRows ==
    ASSUME Inv, steps # <<>>, Head(steps).op \in OfMirror, Elsewhere, ReadRows(Head(steps))
    PROVE  Inv'
<1> DEFINE step == Head(steps)
<1>2. PICK w \in Seen(step.counted \cup step.probed),
           probed \in BOOLEAN, shown \in SUBSET step.counted :
              /\ world' = w
              /\ GoOn([call EXCEPT
                    !.stamp = stampMirrorFreshness({w[t] : t \in shown},
                                                   fetchTableMax(w, step.probed, probed)),
                    !.behind = @ \cup step.counted,
                    !.unprobed = ~probed])
  BY DEF ReadRows
<1> DEFINE stamp == stampMirrorFreshness({w[t] : t \in shown},
                                         fetchTableMax(w, step.probed, probed))
           behind == call.behind \cup step.counted
<1>3. IsCall(call)
  BY DEF Inv, StepsInv
<1>4. call.unread \in BOOLEAN
  BY <1>3 DEF IsCall, Flags
<1> HIDE DEF stamp, step
<1>5. [call EXCEPT !.stamp = stamp, !.behind = @ \cup step.counted, !.unprobed = ~probed]
      = [call EXCEPT !.stamp = stamp, !.behind = behind, !.unprobed = ~probed,
                     !.unread = call.unread]
  BY <1>3 DEF IsCall, Fields, Flags
<1>6. GoOn([call EXCEPT !.stamp = stamp, !.behind = behind, !.unprobed = ~probed,
                        !.unread = call.unread])
  BY <1>2, <1>5 DEF stamp
<1> HIDE DEF behind
<1>7. /\ RoleInv' /\ StepsInv' /\ WriteInv' /\ AbsenceInv' /\ HoleInv' /\ ReplyInv'
      /\ call'.stamp = stamp /\ call'.behind = behind /\ call'.unprobed = ~probed
      /\ steps' = Tail(steps)
  BY <1>4, <1>6, RowsMove
<1>8. FreshInv'
  BY <1>2, <1>7, MirrorDates DEF stamp, behind, step
<1> QED BY <1>7, <1>8 DEF Inv

LEMMA InvFailed ==
    ASSUME Inv, steps # <<>>, Elsewhere, Throw(call), UNCHANGED world
    PROVE  Inv'
<1>1. IsCall(call) /\ Allowed(call, Head(steps))
  BY DEF Inv, StepsInv, Allowed
<1> QED BY <1>1, Moved

LEMMA InvMirrorRead == Inv /\ (MirrorRead \/ RetriedRead) => Inv'
<1> SUFFICES ASSUME Inv, MirrorRead \/ RetriedRead PROVE Inv'
  OBVIOUS
<1>1. steps # <<>> /\ Head(steps).op \in OfMirror /\ Elsewhere
  BY DEF MirrorRead, RetriedRead, At, OfMirror
<1>2. ReadRows(Head(steps)) \/ (Throw(call) /\ UNCHANGED world)
  BY DEF MirrorRead, RetriedRead
<1> QED BY <1>1, <1>2, InvReadRows, InvFailed

LEMMA InvSwallowingLookup == Inv /\ SwallowingLookup => Inv'
<1> SUFFICES ASSUME Inv, SwallowingLookup PROVE Inv'
  OBVIOUS
<1> DEFINE step == Head(steps)
<1>1. steps # <<>> /\ step.op \in OfMirror \intersect MayMiss /\ Elsewhere
  BY DEF SwallowingLookup, At, OfMirror, MayMiss
<1>2. CASE ReadRows(step)
  BY <1>1, <1>2, InvReadRows
<1>3. CASE ~ReadRows(step)
  <2>1. PICK w \in Seen(step.probed), probed \in BOOLEAN :
            /\ world' = w
            /\ GoOn([call EXCEPT
                  !.stamp = stampMirrorFreshness({}, fetchTableMax(w, step.probed, probed)),
                  !.behind = @ \cup step.counted,
                  !.unprobed = ~probed, !.unread = TRUE])
    BY <1>3 DEF SwallowingLookup
  <2> DEFINE stamp == stampMirrorFreshness({}, fetchTableMax(w, step.probed, probed))
             behind == call.behind \cup step.counted
  <2>2. IsCall(call) /\ IsPath(steps) /\ Disciplined(tool, steps)
    BY DEF Inv, StepsInv
  <2>3. step.counted \subseteq step.probed
    BY <1>1, <2>2, TailDisciplined DEF DatesRows
  <2> HIDE DEF stamp, step
  <2>4. [call EXCEPT !.stamp = stamp, !.behind = @ \cup step.counted,
                     !.unprobed = ~probed, !.unread = TRUE]
        = [call EXCEPT !.stamp = stamp, !.behind = behind,
                       !.unprobed = ~probed, !.unread = TRUE]
    BY <2>2 DEF IsCall, Fields, Flags
  <2>5. GoOn([call EXCEPT !.stamp = stamp, !.behind = behind,
                          !.unprobed = ~probed, !.unread = TRUE])
    BY <2>1, <2>4 DEF stamp
  <2> HIDE DEF behind
  <2>6. /\ RoleInv' /\ StepsInv' /\ WriteInv' /\ AbsenceInv' /\ HoleInv' /\ ReplyInv'
        /\ call'.stamp = stamp /\ call'.behind = behind /\ call'.unprobed = ~probed
        /\ steps' = Tail(steps)
    BY <1>1, <2>5, RowsMove DEF step
  <2>7. stamp = stampMirrorFreshness({world'[t] : t \in {}},
                                     fetchTableMax(world', step.probed, probed))
    BY <2>1 DEF stamp
  <2>8. FreshInv'
    BY <1>1, <2>1, <2>3, <2>6, <2>7, MirrorDates DEF behind, step
  <2> QED BY <2>6, <2>8 DEF Inv
<1> QED BY <1>2, <1>3

\* A stamp over builds that calls them fresh: each is as recent as it says.
LEMMA GoldIsCurrent ==
    ASSUME NEW w, NEW asked, \A s \in asked : w[s] \in Times,
           asked \subseteq Builds, "fresh" \in goldAsOf(w, asked), NEW s \in asked
    PROVE  /\ w[s] # NoTime
           /\ w[s] \in (-FUTURE_SKEW_TOLERANCE_HOURS)..GOLD_STALE_THRESHOLD_HOURS
<1>1. PICK seen \in [asked -> Times] :
          /\ \A b \in asked : seen[b] \in probeCached(w, b)
          /\ buildGoldStamp({seen[b] : b \in asked}) = "fresh"
  BY DEF goldAsOf
<1>2. /\ seen[s] # NoTime /\ seen[s] >= -FUTURE_SKEW_TOLERANCE_HOURS
      /\ ageHours(seen[s]) <= GOLD_STALE_THRESHOLD_HOURS
  <2> DEFINE parts == {seen[b] : b \in asked}
  <2>1. seen[s] \in parts
    OBVIOUS
  <2> HIDE DEF parts
  <2> QED BY <1>1, <2>1 DEF buildGoldStamp, parts
<1>3. /\ seen[s] \in Int
      /\ GOLD_STALE_THRESHOLD_HOURS \in Nat /\ FUTURE_SKEW_TOLERANCE_HOURS \in Nat
  BY <1>1, <1>2, ToolCallAssumption, DisclosureAssumption
<1>4. seen[s] <= GOLD_STALE_THRESHOLD_HOURS
  BY <1>2, <1>3 DEF ageHours
<1>5. CASE seen[s] = w[s]
  BY <1>2, <1>3, <1>4, <1>5
<1>6. CASE seen[s] # w[s]
  <2>1. w[s] # NoTime /\ seen[s] >= w[s] /\ w[s] >= 0
    BY <1>1, <1>2, <1>6 DEF probeCached
  <2>2. w[s] \in Int
    BY <2>1, ToolCallAssumption
  <2> QED BY <1>3, <1>4, <2>1, <2>2
<1> QED BY <1>5, <1>6

\* So do the rows of the warehouse: dated by this step, or by an earlier one.
LEMMA WarehouseDates ==
    ASSUME Inv, steps # <<>>, Head(steps).op = "warehouse", steps' = Tail(steps),
           world' \in Seen(Head(steps).reads \cup Upstream(Head(steps).asked)),
           call'.stamp \in (IF Head(steps).asked = {} THEN {call.stamp}
                            ELSE goldAsOf(world', Upstream(Head(steps).asked))),
           call'.behind = call.behind \cup Head(steps).reads,
           call'.unprobed = call.unprobed
    PROVE  FreshInv'
<1> DEFINE step == Head(steps)
<1>1. IsPath(steps) /\ Disciplined(tool, steps) /\ IsWorld(world)
  BY DEF Inv, StepsInv, FreshInv, IsWorld
<1>2. /\ IsWorld(world')
      /\ DOMAIN world' = DOMAIN world \cup (step.reads \cup Upstream(step.asked))
      /\ \A s \in DOMAIN world : world'[s] = world[s]
  BY <1>1, SeenIs
<1>3. \A s \in DOMAIN world : Current(s)' <=> Current(s)
  BY <1>2 DEF Current
<1>4. /\ \A i \in DOMAIN steps' : \E j \in DOMAIN steps : steps'[i] = steps[j]
      /\ \E j \in DOMAIN steps : step = steps[j]
  BY <1>1, TailIs
<1>5. /\ DatesRows(step) /\ Rows(step)
      /\ \A i \in DOMAIN steps' : Covers(step, steps'[i])
  BY <1>1, TailDisciplined DEF Rows
<1> HIDE DEF step
<1>6. \A i \in DOMAIN steps' : ~Dated(steps'[i])
  BY <1>5 DEF Covers
<1>7. call'.behind \subseteq DOMAIN world'
  BY <1>2 DEF Inv, FreshInv, step
<1>8. ASSUME call'.stamp = "fresh"
      PROVE  IF call'.unprobed THEN \E s \in call'.behind : Current(s)'
             ELSE /\ \A s \in call'.behind : Current(s)'
                  /\ \A i \in DOMAIN steps' : steps'[i].op = "warehouse" =>
                        \A s \in steps'[i].reads : s \in DOMAIN world' /\ Current(s)'
  <2>1. CASE step.asked = {}
    <3>1. call.stamp = "fresh"
      BY <1>8, <2>1 DEF step
    <3>2. step.op = "warehouse" /\ call.behind \subseteq DOMAIN world
      BY DEF step, Inv, FreshInv
    <3>3. CASE call.unprobed
      BY <1>3, <3>1, <3>2, <3>3 DEF Inv, FreshInv, step
    <3>4. CASE ~call.unprobed
      <4>1. /\ \A s \in call.behind : Current(s)
            /\ \A j \in DOMAIN steps : steps[j].op = "warehouse" =>
                  \A s \in steps[j].reads : s \in DOMAIN world /\ Current(s)
        BY <3>1, <3>4 DEF Inv, FreshInv
      <4>2. \A s \in step.reads : s \in DOMAIN world /\ Current(s)
        BY <1>4, <3>2, <4>1
      <4>3. \A s \in call'.behind : Current(s)'
        BY <1>3, <3>2, <4>1, <4>2 DEF step
      <4>4. \A i \in DOMAIN steps' : steps'[i].op = "warehouse" =>
               \A s \in steps'[i].reads : s \in DOMAIN world' /\ Current(s)'
        BY <1>2, <1>3, <1>4, <4>1
      <4> QED BY <3>4, <4>3, <4>4
    <3> QED BY <3>3, <3>4
  <2>2. CASE step.asked # {}
    <3>1. Dated(step) /\ step.op = "warehouse"
      BY <2>2 DEF Dated, step
    <3>2. call.behind = {} /\ ~call.unprobed
      BY <1>4, <3>1 DEF Inv, FreshInv
    <3>3. step.reads \subseteq Upstream(step.asked) /\ Upstream(step.asked) \subseteq Builds
      BY <1>5, <2>2, <3>1 DEF DatesRows
    <3>4. ASSUME NEW s \in Upstream(step.asked) PROVE s \in DOMAIN world' /\ Current(s)'
      <4>1. "fresh" \in goldAsOf(world', Upstream(step.asked))
        BY <1>8, <2>2 DEF step
      <4>2. \A b \in Upstream(step.asked) : world'[b] \in Times
        BY <1>2 DEF IsWorld
      <4>3. /\ world'[s] # NoTime
            /\ world'[s] \in (-FUTURE_SKEW_TOLERANCE_HOURS)..GOLD_STALE_THRESHOLD_HOURS
        BY <3>3, <4>1, <4>2, GoldIsCurrent
      <4> QED BY <1>2, <3>3, <4>3 DEF Current
    <3>5. call'.behind = step.reads /\ ~call'.unprobed
      BY <3>2 DEF step
    <3>6. \A i \in DOMAIN steps' : steps'[i].op = "warehouse" =>
             steps'[i].reads \subseteq Upstream(step.asked)
      BY <1>5, <3>1 DEF Covers
    <3> QED BY <3>3, <3>4, <3>5, <3>6
  <2> QED BY <2>1, <2>2
<1> QED BY <1>2, <1>6, <1>7, <1>8 DEF FreshInv, IsWorld

LEMMA InvWarehouseRead == Inv /\ WarehouseRead => Inv'
<1> SUFFICES ASSUME Inv, WarehouseRead PROVE Inv'
  OBVIOUS
<1> DEFINE step == Head(steps)
<1>1. steps # <<>> /\ step.op = "warehouse" /\ Elsewhere
  BY DEF WarehouseRead, At
<1>2. CASE Throw(call) /\ UNCHANGED world
  BY <1>1, <1>2, InvFailed
<1>3. ASSUME NEW w \in Seen(step.reads \cup Upstream(step.asked)), world' = w,
             NEW stamp \in IF step.asked = {} THEN {call.stamp}
                           ELSE goldAsOf(w, Upstream(step.asked)),
             GoOn([call EXCEPT !.stamp = stamp, !.behind = @ \cup step.reads])
      PROVE  Inv'
  <2> DEFINE behind == call.behind \cup step.reads
  <2>1. IsCall(call) /\ call.unread \in BOOLEAN /\ call.unprobed \in BOOLEAN
    BY DEF Inv, StepsInv, IsCall, Flags
  <2> HIDE DEF step
  <2>2. [call EXCEPT !.stamp = stamp, !.behind = @ \cup step.reads]
        = [call EXCEPT !.stamp = stamp, !.behind = behind,
                       !.unprobed = call.unprobed, !.unread = call.unread]
    BY <2>1 DEF IsCall, Fields, Flags
  <2>3. GoOn([call EXCEPT !.stamp = stamp, !.behind = behind,
                          !.unprobed = call.unprobed, !.unread = call.unread])
    BY <1>3, <2>2
  <2> HIDE DEF behind
  <2>4. /\ RoleInv' /\ StepsInv' /\ WriteInv' /\ AbsenceInv' /\ HoleInv' /\ ReplyInv'
        /\ call'.stamp = stamp /\ call'.behind = behind /\ call'.unprobed = call.unprobed
        /\ steps' = Tail(steps)
    BY <1>1, <2>1, <2>3, RowsMove DEF step
  <2>5. FreshInv'
    BY <1>1, <1>3, <2>4, WarehouseDates DEF behind, step
  <2> QED BY <2>4, <2>5 DEF Inv
<1> QED BY <1>1, <1>2, <1>3 DEF WarehouseRead

-----------------------------------------------------------------------------
(* The theorems.                                                            *)

LEMMA InvNext == Inv /\ [Next]_vars => Inv'
<1> SUFFICES ASSUME Inv, [Next]_vars PROVE Inv'
  OBVIOUS
<1>1. CASE Next
  BY <1>1, InvInvoke, InvRespond, InvMayThrow, InvLiveRead, InvSayNotFound, InvSoft,
     InvReadAllPages, InvSay, InvConfirmedWrite, InvMirrorRead, InvRetry,
     InvSwallowingLookup, InvUndated, InvWarehouseRead DEF Next
<1>2. CASE UNCHANGED vars
  <2> USE <1>2 DEF vars
  <2>1. RoleInv' /\ WriteInv' /\ AbsenceInv'
    BY DEF Inv, RoleInv, WriteInv, AbsenceInv
  <2>2. StepsInv' /\ HoleInv'
    BY DEF Inv, StepsInv, HoleInv
  <2>3. ReplyInv'
    BY DEF Inv, ReplyInv, Success
  <2>4. FreshInv'
    BY DEF Inv, FreshInv, Current
  <2> QED BY <2>1, <2>2, <2>3, <2>4 DEF Inv
<1> QED BY <1>1, <1>2

\* In every state of a call: the records, paths and roles are what they
\* should be, and what is in hand agrees with what the steps still to come may do.
THEOREM CallCorrect == Spec => []Inv
<1>1. Init => Inv
  BY InvInit
<1>2. Inv /\ [Next]_vars => Inv'
  BY InvNext
<1> QED BY <1>1, <1>2, PTL DEF Spec

\* An answer is either the failure or what Respond made of the call.
LEMMA AnswersAre ==
    ASSUME Inv, NEW r \in reply, ~r.isError
    PROVE  /\ reply # {Failure} /\ steps = <<>> /\ reply = {r}
           /\ \E large, put \in BOOLEAN : r = Success(large, put)
<1>1. reply # {Failure}
  BY DEF Failure
<1>2. PICK large \in BOOLEAN, put \in BOOLEAN : reply = {Success(large, put)}
  BY <1>1 DEF Inv, ReplyInv
<1>3. steps = <<>>
  BY DEF Inv, StepsInv
<1> QED BY <1>1, <1>2, <1>3

\* The verdict of stampMirrorFreshness and buildGoldStamp: an answer that calls
\* itself fresh is, table by table and build by build.
THEOREM FreshIsProved == Spec => []FreshIsEarned
<1>1. Inv => FreshIsEarned
  BY DEF Inv, FreshInv, FreshIsEarned
<1> QED BY <1>1, CallCorrect, PTL

\* Whatever says "there is no such thing" has read all it would be in.
THEOREM AbsenceIsProved == Spec => []AbsenceIsEarned
<1>1. Inv => AbsenceIsEarned
  BY DEF Inv, AbsenceInv, AbsenceIsEarned
<1> QED BY <1>1, CallCorrect, PTL

\* An answer with a hole in it says so, in the answer or in the audit.
THEOREM HolesAreTold == Spec => []HolesAreNamed
<1>1. Inv => HolesAreNamed
  <2> SUFFICES ASSUME Inv, Answered, call.holes, tool \notin DoNotLookAtTheCap
               PROVE  \/ call.warned
                      \/ /\ call.partial
                         /\ \A r \in reply : r.record.audit = "partial" /\ r.record.error_log
    BY DEF HolesAreNamed
  <2>1. PICK r \in reply : ~r.isError
    BY DEF Answered
  <2>2. /\ reply # {Failure} /\ steps = <<>> /\ reply = {r}
        /\ \E large, put \in BOOLEAN : r = Success(large, put)
    BY <2>1, AnswersAre
  <2>3. call.warned \/ call.partial
    BY <2>2, NoSteps DEF Inv, HoleInv
  <2>4. ASSUME call.partial PROVE r.record.audit = "partial" /\ r.record.error_log
    <3>1. r.record = Recorded("partial")
      BY <2>2, <2>4 DEF Success
    <3>2. Recorded("partial").audit = "partial" /\ Recorded("partial").error_log = TRUE
      BY DEF Recorded
    <3> QED BY <3>1, <3>2
  <2> QED BY <2>2, <2>3, <2>4
<1> QED BY <1>1, CallCorrect, PTL

\* Neither a lockdown nor a read-only session writes.
THEOREM ReadersAreKept == Spec => []ReadersNeverWrite
<1>1. Inv => ReadersNeverWrite
  BY DEF Inv, WriteInv, ReadersNeverWrite
<1> QED BY <1>1, CallCorrect, PTL

\* What was computed reaches the caller, large or not.
THEOREM AnswersAreWhole == Spec => []AnswerIsWhole
<1>1. Inv => AnswerIsWhole
  <2> SUFFICES ASSUME Inv, NEW r \in reply, ~r.isError
               PROVE  r.text = "whole" \/ r.structured = "whole" \/ r.stored
    BY DEF AnswerIsWhole
  <2>1. PICK large \in BOOLEAN, put \in BOOLEAN : r = Success(large, put)
    BY AnswersAre
  <2> QED BY <2>1 DEF Success, offloadIfLarge
<1> QED BY <1>1, CallCorrect, PTL
=============================================================================
