---------------------------- MODULE MCPagedRead ----------------------------
(* Instances of CompositeReads for TLC. *)
EXTENDS CompositeReads, TLC

CONSTANTS historical, recent

MCReads == {historical, recent}
MCRows == 1 .. 3
MCLists == {SubSeq(<<1, 2, 3>>, 1, n) : n \in 0 .. 3}
MCCustomerOf == <<1, 2, 1>>
=============================================================================
