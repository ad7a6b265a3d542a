-------------------------- MODULE MCStRateLimiter --------------------------
(* Instances of StRateLimiter for TLC. *)
EXTENDS StRateLimiter, TLC

ReportSymmetry == Permutations(Identities)

Reported == runs # {} \/ RunsOf(grants) # {}

\* Two penalties can overlap in every way; more add none.  Penalties do not
\* matter to reports, and the family's two windows hold four calls.
FewPenalties ==
  /\ Cardinality(penalties) <= 2
  /\ Reported => penalties = {} /\ Cardinality(grants) <= 4
=============================================================================
