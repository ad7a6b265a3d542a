---------------------------- MODULE MCWriteGate ----------------------------
(* An instance of WriteGate for TLC. *)
EXTENDS WriteGate, TLC

CONSTANTS x, y, ann, bob, note, price

\* Two requests that differ in their arguments, and one of another tool.
MCRequests ==
  { [tool |-> note, args |-> x, actor |-> ann],
    [tool |-> note, args |-> y, actor |-> ann],
    [tool |-> price, args |-> x, actor |-> bob] }

\* One tool asks for less than the ceiling, the other for more.
MCTtl == (note :> 1) @@ (price :> 9)

MCSymmetry == Permutations(Previews) \cup Permutations(Confirms)
=============================================================================
