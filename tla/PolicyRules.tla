---------------------------- MODULE PolicyRules ----------------------------
(***************************************************************************)
(* Rules of internal/policy that guard shared resources and times: for     *)
(* each, when it allows.  A denial and an error are both "not allowed";    *)
(* what is answered with them is left out, and so is the tenant check all  *)
(* rules begin with.  Each operator reads the fields of policy.Context its *)
(* rule reads, with the flags that are true as a set, the aligned vectors  *)
(* ExistingStarts and ExistingEnds as a set of intervals, and the vectors  *)
(* Labels and ExistingIDs as functions of their indices.                   *)
(* DispatchPriorityIsStable always allows: it is here for what it answers. *)
(***************************************************************************)
EXTENDS Integers, Sequences, SequencesExt

CONSTANTS
  MaxInt,      \* the largest int64
  PermitTime,  \* twelve hours
  NoName       \* the empty string

NoTime == 0

\* Addition of int64.
Wrap(n) == ((n + MaxInt + 1) % (2 * (MaxInt + 1))) - (MaxInt + 1)

\* The loops that add up line costs and manifest quantities.
Total(first, values) == FoldLeft(LAMBDA sum, v : Wrap(sum + v), first, values)

OverlapAfter(aStart, aEnd, bStart, bEnd) == bStart < aStart /\ aStart < bEnd
Overlap(aStart, aEnd, bStart, bEnd) == aStart < bEnd /\ bStart < aEnd

NoConflict(ctx) ==
  \A e \in ctx.Existing : ~Overlap(ctx.StartsAt, ctx.EndsAt, e.starts, e.ends)

-----------------------------------------------------------------------------
WeatherWindowIsSafe(ctx) ==
  /\ ctx.StartsAt # NoTime /\ ctx.EndsAt # NoTime /\ ctx.StartsAt < ctx.EndsAt
  /\ ctx.Confidence >= 70
  /\ ctx.WindKPH <= 70 /\ ctx.WaveCM <= 250

WeatherWindowDoesNotOverlap(ctx) == NoConflict(ctx)
CrewAssignmentsDoNotOverlap(ctx) == NoConflict(ctx)

SlotTakesAny(ctx) ==
  /\ ctx.Capacity >= 0 /\ ctx.Used >= 0
  /\ ctx.Used <= ctx.Capacity
  /\ ctx.Requested <= ctx.Capacity - ctx.Used
SlotFitsAlone(ctx) ==
  /\ ctx.Capacity >= 0 /\ ctx.Used >= 0 /\ ctx.Requested > 0
  /\ ctx.Used <= ctx.Capacity
  /\ ctx.Requested <= ctx.Capacity
SlotHasCapacity(ctx) ==
  /\ ctx.Capacity >= 0 /\ ctx.Used >= 0 /\ ctx.Requested > 0
  /\ ctx.Used <= ctx.Capacity
  /\ ctx.Requested <= ctx.Capacity - ctx.Used

CampaignCanBeApproved(ctx) ==
  /\ ctx.Status = "planned"
  /\ {"window_confirmed", "slots_booked", "budget_reviewed", "risk_assessed"} \subseteq ctx.Flags

FitsLineByLine(ctx) ==
  /\ ctx.Budget >= 0 /\ ctx.Cost >= 0
  /\ \A i \in DOMAIN ctx.Values : ctx.Values[i] >= 0
  /\ \A i \in DOMAIN ctx.Values : Wrap(ctx.Cost + ctx.Values[i]) <= ctx.Budget
CampaignFitsBudget(ctx) ==
  /\ ctx.Budget >= 0 /\ ctx.Cost >= 0
  /\ \A i \in DOMAIN ctx.Values : ctx.Values[i] >= 0
  /\ Total(ctx.Cost, ctx.Values) <= ctx.Budget

PermitWithoutCampaign(ctx) ==
  /\ ctx.Status = "draft"
  /\ {"vessel_reserved", "crew_complete", "window_confirmed"} \subseteq ctx.Flags
PermitCanBeSubmitted(ctx) ==
  /\ ctx.Status = "draft"
  /\ {"campaign_approved", "vessel_reserved", "crew_complete", "window_confirmed"} \subseteq ctx.Flags

PermitExpiryUnbounded(ctx) ==
  /\ NoTime \notin {ctx.StartsAt, ctx.EndsAt, ctx.Deadline}
  /\ ctx.Deadline >= ctx.StartsAt
  /\ ctx.Deadline - ctx.StartsAt <= PermitTime
PermitExpiryIsBounded(ctx) ==
  /\ NoTime \notin {ctx.StartsAt, ctx.EndsAt, ctx.Deadline}
  /\ ctx.Deadline <= ctx.EndsAt /\ ctx.Deadline >= ctx.StartsAt
  /\ ctx.Deadline - ctx.StartsAt <= PermitTime

PermitCanBeActivated(ctx) ==
  /\ ctx.Status = "approved"
  /\ ctx.StartsAt <= ctx.Now /\ ctx.Now < ctx.EndsAt
  /\ {"vessel_ready", "crew_checked_in"} \subseteq ctx.Flags
  /\ "weather_suspended" \notin ctx.Flags

WorkOrderCanStart(ctx) ==
  /\ ctx.Status = "assigned"
  /\ {"permit_active", "crew_on_site", "turbine_isolated"} \subseteq ctx.Flags
  /\ "stop_work" \notin ctx.Flags
  /\ ctx.Deadline = NoTime \/ ctx.Now < ctx.Deadline

-----------------------------------------------------------------------------
VesselCanBeReserved(ctx) ==
  /\ ctx.Status = "available"
  /\ {"inspection_valid", "insurance_valid"} \subseteq ctx.Flags
  /\ ctx.Capacity >= ctx.Requested
  /\ ctx.Deadline = NoTime \/ ctx.Now < ctx.Deadline

DispatchFitsVessel(ctx) ==
  /\ ctx.Requested >= 0 /\ ctx.Used >= 0 /\ ctx.Capacity >= 0
  /\ \A i \in DOMAIN ctx.Values : ctx.Values[i] >= 0
  /\ Total(Wrap(ctx.Used + ctx.Requested), ctx.Values) <= ctx.Capacity

DispatchDepartureIsUnique(ctx) ==
  /\ ctx.ResourceID # NoName
  /\ Range(ctx.ExistingIDs) \subseteq {ctx.ResourceID}

CrewMemberIsQualified(ctx) ==
  /\ NoName \notin {ctx.ActorID, ctx.Kind}
  /\ ctx.Status = "valid"
  /\ ctx.ValidFrom <= ctx.Now /\ ctx.Now < ctx.ValidUntil
  /\ "medical_clearance" \in ctx.Flags

WorkOrderCanComplete(ctx) ==
  /\ ctx.Status = "awaiting_evidence"
  /\ {"before_photo", "after_photo", "torque_record", "technician_signoff"} \subseteq ctx.Flags
  /\ "open_safety_observation" \notin ctx.Flags

\* A label counts only if there is an id to report it with.
EvidenceChecksumIsUnique(ctx) ==
  /\ \A i \in DOMAIN ctx.Labels \cap DOMAIN ctx.ExistingIDs : ctx.Labels[i] # ctx.PayloadHash
  /\ ctx.PayloadHash.length >= 32

CloseWithoutPermit(ctx) ==
  /\ ctx.Status = "in_progress"
  /\ {"all_work_terminal", "dispatch_released", "audit_complete"} \subseteq ctx.Flags
  /\ ctx.Cost <= ctx.Budget
CampaignCanClose(ctx) ==
  /\ ctx.Status = "in_progress"
  /\ {"all_work_terminal", "dispatch_released", "permit_closed", "audit_complete"} \subseteq ctx.Flags
  /\ ctx.Cost <= ctx.Budget

-----------------------------------------------------------------------------
\* The order of two dispatches: the higher value first, then the smaller id.
Precedes(x, y) == x.value > y.value \/ (x.value = y.value /\ x.id < y.id)

\* The inner loop: x moves left as long as it precedes its neighbour.
Insert(sorted, x) ==
  LET stays == {k \in DOMAIN sorted : ~Precedes(x, sorted[k])}
      at    == IF stays = {} THEN 0 ELSE Max(stays)
  IN SubSeq(sorted, 1, at) \o <<x>> \o SubSeq(sorted, at + 1, Len(sorted))

\* The IDs DispatchPriorityIsStable answers with, here with their values.
DispatchPriority(dispatches) == FoldLeft(Insert, <<>>, dispatches)
=============================================================================
