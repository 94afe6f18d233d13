--------------------------- MODULE MCSharedObject ---------------------------
(* Small instances of SharedObject for TLC. *)
EXTENDS SharedObject, TLC

CONSTANTS x, y, e   \* two arrays of length one, and the empty array

MCValue == {x, y, e}
MCSize == [v \in MCValue |-> IF v = e THEN 0 ELSE 1]

Symmetry == Permutations(Handle) \cup Permutations(Body \ {EmptyRep}) \cup Permutations({x, y})
=============================================================================
