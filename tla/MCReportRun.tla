---------------------------- MODULE MCReportRun ----------------------------
(* An instance of ReportRun for TLC. *)
EXTENDS ReportRun, TLC

CONSTANTS a, b, c, d, r, s, i, j

\* Three calls for one report, in both isolates, and one for another report,
\* which puts a ledger that tracks one above its ceiling.
MCCalls == {a, b, c, d}
MCReports == {r, s}
MCIsolates == {i, j}
MCReportOf == [call \in MCCalls |-> IF call = d THEN s ELSE r]
MCIsolateOf == [call \in MCCalls |-> IF call = b THEN j ELSE i]

CallSymmetry == Permutations({a, c})

\* The other report only comes where nothing throttles or fails.
OtherReportInHealth == pc[d] # "idle" => ~degraded /\ throttles = {}
=============================================================================
