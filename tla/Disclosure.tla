------------------------------ MODULE Disclosure ------------------------------
(***************************************************************************)
(* What an answer says of the age of its rows: stampMirrorFreshness of     *)
(* mirror-freshness.ts for the D1 and Supabase mirrors, buildGoldStamp of  *)
(* gold-watermark.ts for the warehouse.  A time is the number of hours it  *)
(* lies back, negative when it lies ahead; NoTime is a missing or          *)
(* unreadable one.                                                         *)
(***************************************************************************)
EXTENDS Integers

CONSTANTS STALE_THRESHOLD_HOURS,        \* of a mirror table, 48
          GOLD_STALE_THRESHOLD_HOURS,   \* of a nightly build, 26
          FUTURE_SKEW_TOLERANCE_HOURS,  \* how far ahead a build may be dated
          NoTime

ASSUME DisclosureAssumption ==
    {STALE_THRESHOLD_HOURS, GOLD_STALE_THRESHOLD_HOURS, FUTURE_SKEW_TOLERANCE_HOURS} \subseteq Nat

ageHours(time) == IF time > 0 THEN time ELSE 0

\* Table-level mode: every table must prove that its sync is alive.
QuietHides(tableMax) ==
    IF \A t \in DOMAIN tableMax :
          tableMax[t] # NoTime => ageHours(tableMax[t]) <= STALE_THRESHOLD_HOURS
    THEN "fresh" ELSE "unknown"

tableHeadline(tableMax) ==
    IF \A t \in DOMAIN tableMax :
          /\ tableMax[t] # NoTime
          /\ ageHours(tableMax[t]) <= STALE_THRESHOLD_HOURS
    THEN "fresh" ELSE "unknown"

\* The newest row is recent as soon as one is.
newestRowRecent(rows) == \E t \in rows : t # NoTime /\ ageHours(t) <= STALE_THRESHOLD_HOURS

\* "rows" are the times of the rows of the page; without a table's maximum the
\* newest of them is all there is to go by.
stampMirrorFreshness(rows, tableMax) ==
    IF DOMAIN tableMax # {} THEN tableHeadline(tableMax)
    ELSE IF newestRowRecent(rows) THEN "fresh" ELSE "unknown"

\* "parts" are the times the builds completed, as their watermarks have it: the
\* oldest of them is recent when all are.
buildGoldStamp(parts) ==
    LET provable(t) == t # NoTime /\ t >= -FUTURE_SKEW_TOLERANCE_HOURS
    IN IF parts = {} \/ \E t \in parts : ~provable(t) THEN "unknown"
       ELSE IF \A t \in parts : ageHours(t) <= GOLD_STALE_THRESHOLD_HOURS THEN "fresh"
       ELSE "stale"
=============================================================================
