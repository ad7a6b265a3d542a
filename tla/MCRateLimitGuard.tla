-------------------------- MODULE MCRateLimitGuard -------------------------
(* An instance of RateLimitGuard for TLC: a fan-out on one family. *)
EXTENDS RateLimitGuard, TLC

SameFamily == [c \in Callers |-> CHOOSE f \in Families : TRUE]
NoReports == [c \in Callers |-> NoIdentity]
=============================================================================
