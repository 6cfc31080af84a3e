---------------------------- MODULE MCDecisions ----------------------------
(***************************************************************************)
(* Recording of decisions for TLC: every request has a request id of its   *)
(* own.                                                                    *)
(***************************************************************************)
EXTENDS Decisions

OwnKey == [r \in Requests |-> r]
=============================================================================
