---------------------------- MODULE ToolsPricebook ----------------------------
(***************************************************************************)
(* Tools over the pricebook and the warehouse: src/tools/pricebook and     *)
(* src/tools/gold.                                                         *)
(***************************************************************************)
EXTENDS ToolSteps

\* The item's id, the templates with it, the services with it.
find_packages_with_item ==
    LET both == {"pricebook", "pricebook_templates"}
    IN {<<Warehouse({"pricebook"}, both), Warehouse({"pricebook_templates"}, {})>>,
        <<Warehouse({"pricebook"}, both), Warehouse(both, {})>>}

\* The parent, then each variant that is only a number, up to a cap.
get_configurable_equipment_children ==
    {<<Live>>, <<Live, Live>>, <<Live, Live, SayWarning>>}

\* The rows may come from the cache; the build they are stamped with may not.
get_proposal_tiers ==
    {<<FromCache, Warehouse({}, {"pricebook_templates"})>>,
     <<Warehouse({"pricebook_templates"}, {"pricebook_templates"}), Store>>}

get_service_breakout ==
    LET item == Warehouse({"pricebook"}, {"pricebook"})
    IN {<<item, Absent>>, <<item>>, <<item, Warehouse({"pricebook"}, {})>>}

get_service_details == {<<Live>>}
list_service_categories == {<<FromCache>>, <<Live, Store>>}

MissIsTheAnswer ==
    {<<Lookup("pb_materials")>>, <<Lookup("pb_materials"), Absent>>, <<Live>>}

\* By code, a miss of the mirror falls through to ServiceTitan.
search_materials ==
    {<<Lookup("pb_materials")>>, <<Lookup("pb_materials"), Live>>, <<Live>>}

ALL_TABLE_LIST == {"pb_services", "pb_materials", "pb_equipment"}

\* By code the first table with a row answers, with that table's verdict.
search_pricebook_all ==
    LET one(t) == Query({t}, {t})
        all == Query(ALL_TABLE_LIST, ALL_TABLE_LIST)
    IN {<<Check, one("pb_services")>>,
        <<Check, Unstamped, one("pb_materials")>>,
        <<Check, Unstamped, Unstamped, one("pb_equipment")>>,
        <<Check, all, Absent>>,
        <<Check, all>>}

search_pricebook_semantic == {<<Optional, SayWarning, Warehouse({"pricebook"}, {"pricebook"})>>}

\* By code, a miss of the mirror is the answer.
search_pricebook_services ==
    {<<Check, Lookup("pb_services")>>,
     <<Check, Lookup("pb_services"), Absent>>,
     <<Check, Live>>}

search_pricebook_templates == {<<Warehouse({"pricebook_templates"}, {"pricebook_templates"})>>}

st_get_pricebook == {<<Check, FromCache>>, <<Check, Live, Store>>}

gold_margin_by_bu == {<<Warehouse({"gold"}, {"gold"})>>}

\* The days, the sections and, if asked for, the features; capped lists say so.
titan_advisor_score ==
    LET days == Warehouse({"gold"}, {"gold"})
        more == Warehouse({"gold"}, {})
    IN {<<days, more>>, <<days, more, SayWarning>>,
        <<days, more, more>>, <<days, more, more, SayWarning>>}

\* Without an embedding there is no search.  What a trade filter leaves out is
\* measured, or said to be unknown.
semantic_search_gold ==
    LET chunks == Warehouse({"gold", "vec"}, {"vec"})
    IN {<<Live, chunks>>, <<Live, chunks, Optional, SayWarning>>, <<Live, chunks, Absent>>}
=============================================================================
