------------------------- MODULE MCCustomerSnapshot ------------------------
(* Instances of CustomerSnapshot for TLC. *)
EXTENDS CustomerSnapshot, TLC
=============================================================================
