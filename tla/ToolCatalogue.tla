---------------------------- MODULE ToolCatalogue ----------------------------
(***************************************************************************)
(* The tools a session is offered, and what its credentials are worth:     *)
(* TOOLS and toolsForRole of tools/index.ts, resolveAuth of auth.ts.  The  *)
(* tools with a module of their own (line items, adjustment invoices,      *)
(* durable writes, assignments, reports, customer snapshots, the           *)
(* accounts-payable inbox, the composites over pages) are not repeated.    *)
(***************************************************************************)
EXTENDS ToolsMirror, ToolsPricebook, ToolsLive

Customers ==
    [find_customer |-> find_customer, get_customer |-> get_customer,
     get_customer_locations |-> get_customer_locations,
     list_customer_jobs |-> list_customer_jobs,
     get_customer_membership |-> get_customer_membership,
     add_customer_note |-> add_customer_note, st_get_customer |-> st_get_customer,
     st_list_customers |-> st_list_customers, get_call |-> get_call,
     get_form_submission |-> get_form_submission,
     list_memberships_active |-> list_memberships_active,
     list_memberships_expiring |-> list_memberships_expiring,
     create_recurring_service |-> create_recurring_service,
     list_campaigns |-> list_campaigns,
     get_campaign_performance |-> get_campaign_performance,
     create_call_with_campaign |-> create_call_with_campaign,
     st_post_marketing_attribution |-> st_post_marketing_attribution]

Jobs ==
    [get_job |-> get_job, get_job_appointments |-> get_job_appointments,
     get_job_history |-> get_job_history, add_job_note |-> add_job_note,
     book_job |-> book_job, reschedule_appointment |-> reschedule_appointment,
     hold_appointment |-> hold_appointment, st_list_jobs |-> st_list_jobs,
     st_list_appointments |-> st_list_appointments,
     jobs_hold_reasons_list |-> jobs_hold_reasons_list, create_task |-> create_task,
     list_open_tasks |-> list_open_tasks, get_capacity |-> get_capacity,
     list_technicians_available |-> list_technicians_available,
     get_technician_shifts |-> get_technician_shifts,
     list_non_job_events |-> list_non_job_events,
     st_get_capacity_slots |-> st_get_capacity_slots,
     find_technician_by_name |-> find_technician_by_name,
     identify_tech_by_phone |-> identify_tech_by_phone,
     save_tech_debrief |-> save_tech_debrief,
     siro_list_mobile_events |-> siro_list_mobile_events,
     siro_get_recording_summary |-> siro_get_recording_summary,
     siro_get_engagement |-> siro_get_engagement]

Books ==
    [get_invoice |-> get_invoice, list_invoices_job |-> list_invoices_job,
     get_invoice_balance |-> get_invoice_balance,
     list_estimates_job |-> list_estimates_job, get_estimate |-> get_estimate,
     dismiss_estimate |-> dismiss_estimate, sell_estimate |-> sell_estimate,
     unsell_estimate |-> unsell_estimate,
     list_estimate_templates |-> list_estimate_templates,
     get_estimate_template |-> get_estimate_template,
     create_estimate_template |-> create_estimate_template,
     update_estimate_template |-> update_estimate_template,
     delete_estimate_template |-> delete_estimate_template,
     inventory_vendors_list |-> inventory_vendors_list,
     inventory_warehouses_list |-> inventory_warehouses_list,
     inventory_receipts_list |-> inventory_receipts_list,
     inventory_transfers_list |-> inventory_transfers_list,
     payroll_payrolls_list |-> payroll_payrolls_list,
     payroll_non_job_timesheets_list |-> payroll_non_job_timesheets_list,
     payroll_job_timesheets_list |-> payroll_job_timesheets_list,
     payroll_location_rates_list |-> payroll_location_rates_list,
     payroll_settings_get |-> payroll_settings_get, st_call |-> st_call]

Pricebook ==
    [st_get_pricebook |-> st_get_pricebook,
     search_pricebook_services |-> search_pricebook_services,
     get_service_details |-> get_service_details, search_materials |-> search_materials,
     get_configurable_equipment_children |-> get_configurable_equipment_children,
     list_service_categories |-> list_service_categories,
     search_pricebook_all |-> search_pricebook_all,
     search_pricebook_semantic |-> search_pricebook_semantic,
     search_pricebook_templates |-> search_pricebook_templates,
     get_proposal_tiers |-> get_proposal_tiers,
     find_packages_with_item |-> find_packages_with_item,
     get_service_breakout |-> get_service_breakout,
     pricebook_markup_drift |-> pricebook_markup_drift,
     pricebook_cost_drift |-> pricebook_cost_drift,
     pricebook_vendor_part_gaps |-> pricebook_vendor_part_gaps]

Reports ==
    [job_closeout_report |-> job_closeout_report, job_cost_actuals |-> job_cost_actuals,
     opportunities_list |-> opportunities_list, opportunity_get |-> opportunity_get,
     dispatch_pro_utilization_list |-> dispatch_pro_utilization_list,
     dispatch_pro_ratio_list |-> dispatch_pro_ratio_list,
     dispatch_pro_alerts_list |-> dispatch_pro_alerts_list,
     tech_drive_time_summary |-> tech_drive_time_summary,
     assigned_vs_sold_estimate_audit |-> assigned_vs_sold_estimate_audit,
     open_opportunities_pulitzer_feed |-> open_opportunities_pulitzer_feed,
     semantic_search_gold |-> semantic_search_gold,
     gold_margin_by_bu |-> gold_margin_by_bu, tech_scorecard |-> tech_scorecard,
     titan_advisor_score |-> titan_advisor_score]

joined(f, g) == [x \in DOMAIN f \cup DOMAIN g |-> IF x \in DOMAIN f THEN f[x] ELSE g[x]]

TOOLS == joined(Customers, joined(Jobs, joined(Books, joined(Pricebook, Reports))))

\* Set by defineWriteTool for what it defines, and by hand in the other two.
isWrite ==
    {"add_customer_note", "dismiss_estimate", "sell_estimate", "unsell_estimate",
     "st_post_marketing_attribution", "create_call_with_campaign",
     "create_recurring_service", "add_job_note", "book_job", "hold_appointment",
     "reschedule_appointment", "create_estimate_template", "delete_estimate_template",
     "update_estimate_template", "create_task", "save_tech_debrief", "st_call"}
adminOnly == {"st_call"}
outputSchema ==
    {"job_cost_actuals", "get_estimate_template", "get_job", "find_customer",
     "search_pricebook_all", "payroll_job_timesheets_list", "get_invoice", "get_estimate"}

-----------------------------------------------------------------------------
OnlyAdminToolsStripped(role) ==
    {t \in DOMAIN TOOLS : role = "admin" \/ t \notin adminOnly}

toolsForRole(role) ==
    {t \in DOMAIN TOOLS :
        /\ role \in {"lockdown", "readonly"} => t \notin isWrite
        /\ role # "admin" => t \notin adminOnly}

\* What a session shows at /mcp: a JSON web token with its role, the sync key,
\* the sync key asking to be admin with what D1 says of that key; or it comes
\* through the OAuth door.  A token that does not verify falls back to the key.
Doors == {"jwt_default", "jwt_admin", "key", "key_admin", "key_asks_for_admin",
          "key_role_unread", "nothing", "oauth"}

resolveCredentials(door) ==
    IF door = "nothing" THEN {}
    ELSE IF door \in {"jwt_admin", "key_admin"} THEN {"admin"} ELSE {"default"}

resolveAuth(door, locked) ==
    IF resolveCredentials(door) # {} /\ locked THEN {"lockdown"} ELSE resolveCredentials(door)

\* The OAuth door does not ask resolveAuth.
roleOf(door, locked) == IF door = "oauth" THEN {"readonly"} ELSE resolveAuth(door, locked)
=============================================================================
