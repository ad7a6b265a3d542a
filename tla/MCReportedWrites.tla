-------------------------- MODULE MCReportedWrites --------------------------
(* An instance of ReportedWrites for TLC. *)
EXTENDS ReportedWrites, TLC

CONSTANTS ann, bob

\* Each caller with a team of its own; one invoice has a line, the other two.
MCTeam == (ann :> {"joe"}) @@ (bob :> {"kim", "lee"})
MCLines == (ann :> 1) @@ (bob :> 2)
=============================================================================
