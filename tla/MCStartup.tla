----------------------------- MODULE MCStartup -----------------------------
(***************************************************************************)
(* Starting servers for TLC; processes are interchangeable where only      *)
(* safety is checked.                                                      *)
(***************************************************************************)
EXTENDS Startup, TLC

Symmetry == Permutations(Processes)
=============================================================================
