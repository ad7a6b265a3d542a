----------------------------- MODULE ToolsMirror -----------------------------
(***************************************************************************)
(* Tools that answer from a mirror: src/tools/dispatch-pro,                *)
(* src/tools/opportunities, and the composites and lookups over D1 and     *)
(* Supabase.                                                               *)
(***************************************************************************)
EXTENDS ToolSteps

dispatch_pro_alerts_list == {<<Table("dispatch_pro_alerts")>>}
dispatch_pro_ratio_list == {<<Table("dispatch_pro_ratio")>>}
dispatch_pro_utilization_list == {<<Table("dispatch_pro_utilization")>>}

opportunities_list == {<<Table("opportunities")>>}

\* Found, with the estimates of its job or project; without either; not found.
opportunity_get ==
    {<<Table("opportunities"), Unstamped>>,
     <<Table("opportunities")>>,
     <<Table("opportunities"), Absent>>}

tech_scorecard == {<<Table("job_timesheets")>>}

\* The roster, then the days of its technicians; the probe runs beside both.
tech_drive_time_summary == {<<Unstamped, Table("job_timesheets")>>}

open_opportunities_pulitzer_feed == {<<Unstamped, Table("opportunities")>>}

assigned_vs_sold_estimate_audit == {<<Table("estimates")>>}

\* Only the timesheets, which drive the money, are dated.  The invoice may be
\* missing; the names of technicians nobody assigned are read at the end.
job_cost_actuals ==
    {<<Unstamped, Table("job_timesheets"), Gather, SayPartial>>,
     <<Unstamped, Table("job_timesheets"), Gather, Unstamped, SayPartial>>}

GathersInSilence == {<<Gather>>}
job_closeout_report == {<<Gather, SayPartial>>}

pricebook_cost_drift ==
    {<<Stamped({"pb_materials", "pb_equipment"}, {"pb_materials", "pb_equipment"})>>}

\* The peers of a category, judged by materials and equipment; then, if asked
\* for, equipment without a price.
pricebook_markup_drift ==
    LET drift == Stamped({"pb_materials", "pb_equipment"},
                         {"pb_materials", "pb_equipment", "pb_categories"})
    IN {<<drift>>, <<Unstamped, drift>>}

pricebook_vendor_part_gaps ==
    LET gaps == Stamped({"pb_materials", "pb_equipment"}, {"pb_materials", "pb_equipment"})
    IN {<<gaps>>, <<Unstamped, gaps>>}

\* Of the name only "there is none" is an answer; the row is read once more.
find_technician_by_name ==
    {<<Resolve>>,
     <<Resolve, Table("technicians")>>,
     <<Resolve, Table("technicians"), Absent>>,
     <<Stamped({"technicians"}, {"technicians"}), Absent>>}

\* Too short a number; a voice the registry knows; a phone of the roster.
identify_tech_by_phone ==
    LET roster == Query({"technicians"}, {"technicians"})
    IN {<<Caught>>,
        <<Caught, Unstamped>>,
        <<Caught, Unstamped, roster>>,
        <<Caught, Unstamped, roster, Absent>>}
\* Arguments that are blank; an upsert by the chat's id, whose error is told.
save_tech_debrief == {<<>>, <<Caught, Insert>>}

\* A submission the mirror does not hold is looked for among all of its
\* form's, if the caller named the form.
get_form_submission ==
    {<<Table("form_submissions")>>,
     <<Unstamped, Check>>,
     <<Unstamped, ReadPages>>,
     <<Unstamped, ReadPages, NotFound>>}

\* From the mirror, or for one job from ServiceTitan when the mirror failed,
\* is empty or old; or from ServiceTitan because the caller said so.
payroll_job_timesheets_list ==
    {<<Unstamped>>, <<UnstampedOrElse, Live>>, <<Check, Live>>}
=============================================================================
