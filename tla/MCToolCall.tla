------------------------------ MODULE MCToolCall ------------------------------
(* Times on either side of both thresholds, now, and further ahead than the *)
(* tolerance; and a time that is missing.                                   *)
EXTENDS ToolCall

MCTimes == {NoTime, -2, 0, GOLD_STALE_THRESHOLD_HOURS + 1, STALE_THRESHOLD_HOURS,
            STALE_THRESHOLD_HOURS + 1}
=============================================================================
