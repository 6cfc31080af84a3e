--------------------------- MODULE MCOutboxWorker ---------------------------
(***************************************************************************)
(* The outbox worker for TLC.  Jobs and workers are model values; they are *)
(* interchangeable in the safety runs (the liveness runs use no symmetry). *)
(***************************************************************************)
EXTENDS OutboxWorker, TLC

Symmetry == Permutations(Jobs) \cup Permutations(Workers)
=============================================================================
