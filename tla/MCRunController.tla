--------------------------- MODULE MCRunController ---------------------------
(* RunProperties on small instances. *)
EXTENDS RunProperties, TLC

Callers == Permutations(Owner)
=============================================================================
