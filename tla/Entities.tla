------------------------------ MODULE Entities ------------------------------
(***************************************************************************)
(* The entities of internal/domain: for each, its statuses and the text    *)
(* fields Validate requires to hold more than blanks.  The fifteen models  *)
(* are one pattern; these records are what differs.  Fields Validate does  *)
(* not look at are left out.                                               *)
(***************************************************************************)
EXTENDS Integers

Identity == {"ID", "TenantID"}

Farm == [
  statuses |-> {"draft", "active", "suspended"},
  required |-> Identity \cup {"Name", "Timezone", "CoastZone"}]
Turbine == [
  statuses |-> {"commissioning", "available", "restricted", "offline"},
  required |-> Identity \cup {"FarmID", "Code"}]
WeatherWindow == [
  statuses |-> {"forecast", "confirmed", "expired"},
  required |-> Identity \cup {"FarmID"}]
Campaign == [
  statuses |-> {"draft", "planned", "approved", "in_progress", "completed", "canceled"},
  required |-> Identity \cup {"FarmID", "Name"}]
Slot == [
  statuses |-> {"open", "held", "booked", "released"},
  required |-> Identity \cup {"FarmID", "TurbineID", "WindowID"}]
CrewMember == [
  statuses |-> {"available", "assigned", "resting", "inactive"},
  required |-> Identity \cup {"Name", "HomePort"}]
Qualification == [
  statuses |-> {"valid", "suspended", "expired"},
  required |-> Identity \cup {"MemberID", "Kind"}]
Vessel == [
  statuses |-> {"available", "reserved", "underway", "maintenance"},
  required |-> Identity \cup {"Name", "HomePort"}]
Permit == [
  statuses |-> {"draft", "submitted", "approved", "activated", "closed", "rejected"},
  required |-> Identity \cup {"CampaignID", "VesselID", "WindowID", "RequestedBy"}]
Dispatch == [
  statuses |-> {"proposed", "reserved", "departed", "arrived", "released"},
  required |-> Identity \cup {"CampaignID", "VesselID", "PermitID"}]
WorkOrder == [
  statuses |-> {"queued", "assigned", "started", "awaiting_evidence", "completed", "failed", "canceled"},
  required |-> Identity \cup {"CampaignID", "TurbineID", "Summary"}]
Evidence == [
  statuses |-> {"pending", "accepted", "rejected"},
  required |-> Identity \cup {"WorkOrderID", "Kind", "ObjectKey", "Checksum"}]
AuditEvent == [
  statuses |-> {"recorded", "exported"},
  required |-> Identity \cup {"Actor", "Action", "ObjectType", "ObjectID"}]
OutboxJob == [
  statuses |-> {"pending", "running", "succeeded", "retry", "permanent_failure"},
  required |-> Identity \cup {"Topic", "ObjectID"}]
IdempotencyRecord == [
  statuses |-> {"processing", "completed", "failed"},
  required |-> Identity \cup {"Method", "Path", "Key", "PayloadHash"}]

Entities == {Farm, Turbine, WeatherWindow, Campaign, Slot,
             CrewMember, Qualification, Vessel, Permit, Dispatch,
             WorkOrder, Evidence, AuditEvent, OutboxJob, IdempotencyRecord}

-----------------------------------------------------------------------------
\* A value of entity e has a status, a version and filled, the set of its fields
\* that are set: text that is not blank, a timestamp that is not zero.
Stamps == {"CreatedAt", "UpdatedAt"}

Validate(e, v) ==
  /\ e.required \cup Stamps \subseteq v.filled
  /\ v.status \in e.statuses
  /\ v.version >= 1

\* WithStatus returns the value itself when its status is the new one already.
WithStatus(v, s) ==
  IF v.status = s THEN v
  ELSE [v EXCEPT !.status = s, !.version = @ + 1, !.filled = @ \cup {"UpdatedAt"}]

\* When WithStatus returns no error.
TransitionAllowed(e, v, s) ==
  s \in e.statuses /\ (v.status = s \/ Validate(e, WithStatus(v, s)))
=============================================================================
