------------------------------ MODULE ToolsLive ------------------------------
(***************************************************************************)
(* Tools that read ServiceTitan (or Siro) live, and the writes built by    *)
(* defineWriteTool.  A list tool answers the page that was asked for.      *)
(***************************************************************************)
EXTENDS ToolSteps

Read == {<<Live>>}
\* By id through a list's ids filter: nothing came back, or another one did.
ReadById == {<<Live, Check>>}
Cached == {<<FromCache>>, <<Live, Store>>}
CheckedThenCached == {<<Check, FromCache>>, <<Check, Live, Store>>}

\* src/tools/crm
find_customer == CheckedThenCached
get_customer == Cached
get_customer_locations == Read
get_customer_membership == Read
list_customer_jobs == Read

\* src/tools/inventory
inventory_receipts_list == Read
inventory_transfers_list == Read
inventory_vendors_list == Read
inventory_warehouses_list == Read

\* src/tools/memberships
list_memberships_active == Read
list_memberships_expiring == Read

\* src/tools/dispatch
get_capacity == Read
get_technician_shifts == Read
list_non_job_events == Read
st_get_capacity_slots == Read
\* What ServiceTitan cannot filter by is said to be ignored.
list_technicians_available ==
    {<<Check, Live>>, <<Check, Live, SayWarning>>, <<Check, Resolve, Live, SayWarning>>}

\* src/tools/jobs
get_job == Read
get_job_appointments == Read
get_job_history == Read
jobs_hold_reasons_list == Read

\* src/tools/payroll
payroll_location_rates_list == Read
payroll_non_job_timesheets_list == Read
payroll_payrolls_list == Read
payroll_settings_get == Read

\* src/tools/calls_forms, estimates, invoicing, marketing, sales, tasks
get_call == ReadById
get_estimate == Read
list_estimates_job == Read
get_invoice == ReadById
get_invoice_balance == ReadById
list_invoices_job == Read
get_campaign_performance == Read
list_campaigns == Read
get_estimate_template == Read
\* Every page; that the cap ended the read is not looked at.
list_estimate_templates == {<<ReadPages>>}
list_open_tasks == Read

\* src/tools
st_get_customer == CheckedThenCached
st_list_customers == Cached
\* A lifetime of zero: never stored.
st_list_appointments == Read
st_list_jobs == Read
siro_get_engagement == CheckedThenCached
siro_get_recording_summary == CheckedThenCached
siro_list_mobile_events == Cached
\* Any path, straight to the proxy: a GET, or a write behind the gate.
st_call == {<<Check, Live>>, <<Check, Preview>>, <<Check, Write({})>>}

-----------------------------------------------------------------------------
(* Writes of the factory: the preview, or the confirmed request. *)

Factory(purged) == {<<Preview>>, <<Check, Write(purged)>>}

add_customer_note == Factory({"get_customer", "find_customer"})
dismiss_estimate == Factory({})
sell_estimate == Factory({})
unsell_estimate == Factory({})
\* The fields a kind of attribution requires are checked first.
st_post_marketing_attribution == {<<Check, Preview>>, <<Check, Check, Write({})>>}
create_call_with_campaign == Factory({})
create_recurring_service == Factory({})
add_job_note == Factory({})
book_job == Factory({})
hold_appointment == Factory({})
reschedule_appointment == Factory({})
create_estimate_template == Factory({})
delete_estimate_template == Factory({})
update_estimate_template == Factory({})
create_task == Factory({})
=============================================================================
