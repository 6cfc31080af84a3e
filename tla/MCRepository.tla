--------------------------- MODULE MCRepository ---------------------------
(***************************************************************************)
(* A repository for TLC.  Callers and identifiers are interchangeable.     *)
(***************************************************************************)
EXTENDS Repository, TLC

Symmetry == Permutations(Callers) \cup Permutations(Ids)
=============================================================================
