---------------------------- MODULE MCUnitOfWork ----------------------------
(* Model-checking instance of UnitOfWork. *)
EXTENDS UnitOfWork, TLC

Symmetry == Permutations(Aggs) \cup Permutations(Changes)

=============================================================================
