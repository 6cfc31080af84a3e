----------------------------- MODULE MCListing -----------------------------
(***************************************************************************)
(* Listing for TLC: the requests of the reader, accepted and refused.      *)
(***************************************************************************)
EXTENDS Listing

CONSTANTS t1, open

Ask(limit, sort, desc, status) ==
  [tenant |-> t1, status |-> status, limit |-> limit, offset |-> 0, sort |-> sort, desc |-> desc]

MCRequests ==
  {Ask(1, "id", FALSE, AnyStatus), Ask(0, "created_at", TRUE, AnyStatus), Ask(1, "id", TRUE, open),
   Ask(2, "", FALSE, open), Ask(4, "id", FALSE, AnyStatus), Ask(1, "name", FALSE, AnyStatus)}
=============================================================================
