------------------------------ MODULE Workflow ------------------------------
(***************************************************************************)
(* The workflows of README.md, from planning over marine dispatch to field *)
(* execution, as a client performs them that does what the rules allow and *)
(* nothing else.  The code decides; recording what was decided is left to  *)
(* the client, so an action here is a decision and the client's record of  *)
(* it.  Each builds the context of its rule from what was recorded before. *)
(***************************************************************************)
EXTENDS PolicyRules

CONSTANTS
  Campaigns,
  Times,        \* instants of the model
  Windows,      \* weather windows asked for: [starts, ends]
  Shifts,       \* crew assignments asked for: [starts, ends]
  Forecasts,    \* [Confidence, WindKPH, WaveCM]
  Requests,     \* quantities asked for
  Lines,        \* sequences of line costs
  Capacity,     \* of the slot all campaigns share
  Budget,       \* of each campaign
  Manifests,    \* sequences of quantities a vessel is asked to carry
  VesselCapacity, InspectionDue,  \* of the vessel all campaigns share
  QualifiedUntil,                 \* the end of the crew member's qualification
  CrewMember,   \* who is assigned
  Checksums,    \* of evidence: [hash, length]
  Prices,       \* actual costs of campaigns
  None

ASSUME WorkflowAssumption ==
  /\ MaxInt \in Nat /\ PermitTime \in Nat
  /\ Times \subseteq Nat \ {NoTime}
  /\ Windows \cup Shifts \subseteq [starts : Times, ends : Times]
  /\ Requests \subseteq Int
  /\ Capacity \in 0..MaxInt /\ Budget \in 0..MaxInt
  /\ None \notin [starts : Times, ends : Times]
  /\ Lines \subseteq Seq(Int) /\ None \notin Lines
  /\ Manifests \subseteq Seq(Int) /\ VesselCapacity \in 0..MaxInt
  /\ None \notin Manifests /\ None \notin Checksums

VARIABLES
  now,
  window,     \* the confirmed window of each campaign, or None
  crew,       \* when the crew member is assigned to each campaign, or None
  used,       \* what is taken of the slot
  booked,     \* what each campaign took of it
  costs,      \* the approved line costs of each campaign, or None
  permit,     \* [status, expiry]
  work,       \* [status, startedAt]
  vessel,     \* the status of the vessel
  dispatch,   \* of each campaign: [status, load]
  evidence,   \* the checksum of each campaign's evidence, or None
  closed      \* the campaigns that were closed

Interval == [starts : Times, ends : Times]

planning == <<window, crew, used, booked, costs>>
field    == <<vessel, dispatch, evidence, closed>>
vars     == <<now, planning, permit, work, field>>

Recorded(records) == {records[c] : c \in {d \in Campaigns : records[d] # None}}

\* The vector of the names of some campaigns.
Names(campaigns) == [c \in campaigns |-> c]

Flags(claims) == {f \in DOMAIN claims : claims[f]}

HasVessel(c) == dispatch[c].status \in {"reserved", "departed"}

-----------------------------------------------------------------------------
Init ==
  /\ now \in Times
  /\ window = [c \in Campaigns |-> None]
  /\ crew = [c \in Campaigns |-> None]
  /\ used = 0 /\ booked = [c \in Campaigns |-> 0]
  /\ costs = [c \in Campaigns |-> None]
  /\ permit = [c \in Campaigns |-> [status |-> "draft", expiry |-> NoTime]]
  /\ work = [c \in Campaigns |-> [status |-> "assigned", startedAt |-> NoTime]]
  /\ vessel = "available"
  /\ dispatch = [c \in Campaigns |-> [status |-> "proposed", load |-> None]]
  /\ evidence = [c \in Campaigns |-> None]
  /\ closed = {}

Confirm(c, i, f) ==
  /\ window[c] = None
  /\ WeatherWindowIsSafe([StartsAt |-> i.starts, EndsAt |-> i.ends, Confidence |-> f.Confidence,
                          WindKPH |-> f.WindKPH, WaveCM |-> f.WaveCM])
  /\ WeatherWindowDoesNotOverlap([StartsAt |-> i.starts, EndsAt |-> i.ends, Existing |-> Recorded(window)])
  /\ window' = [window EXCEPT ![c] = i]
  /\ UNCHANGED <<now, crew, used, booked, costs, permit, work, field>>

AssignCrew(c, i) ==
  /\ crew[c] = None
  /\ CrewAssignmentsDoNotOverlap([StartsAt |-> i.starts, EndsAt |-> i.ends, Existing |-> Recorded(crew)])
  /\ crew' = [crew EXCEPT ![c] = i]
  /\ UNCHANGED <<now, window, used, booked, costs, permit, work, field>>

Book(c, n) ==
  /\ booked[c] = 0
  /\ SlotHasCapacity([Capacity |-> Capacity, Used |-> used, Requested |-> n])
  /\ used' = Wrap(used + n)
  /\ booked' = [booked EXCEPT ![c] = n]
  /\ UNCHANGED <<now, window, crew, costs, permit, work, field>>

Approve(c, lines) ==
  /\ CampaignCanBeApproved(
       [Status |-> IF costs[c] = None THEN "planned" ELSE "approved",
        Flags |-> Flags([window_confirmed |-> window[c] # None, slots_booked |-> booked[c] > 0,
                         budget_reviewed |-> TRUE, risk_assessed |-> TRUE])])
  /\ CampaignFitsBudget([Budget |-> Budget, Cost |-> 0, Values |-> lines])
  /\ costs' = [costs EXCEPT ![c] = lines]
  /\ UNCHANGED <<now, window, crew, used, booked, permit, work, field>>

Submit(c) ==
  /\ PermitCanBeSubmitted(
       [Status |-> permit[c].status,
        Flags |-> Flags([campaign_approved |-> costs[c] # None, vessel_reserved |-> HasVessel(c),
                         crew_complete |-> crew[c] # None, window_confirmed |-> window[c] # None])])
  /\ permit' = [permit EXCEPT ![c].status = "submitted"]
  /\ UNCHANGED <<now, planning, work, field>>

\* The expiry is decided with the approval.
Grant(c, expiry) ==
  /\ permit[c].status = "submitted"
  /\ PermitExpiryIsBounded([StartsAt |-> window[c].starts, EndsAt |-> window[c].ends, Deadline |-> expiry])
  /\ permit' = [permit EXCEPT ![c] = [status |-> "approved", expiry |-> expiry]]
  /\ UNCHANGED <<now, planning, work, field>>

\* The marine coordinator may have suspended departures.
Activate(c, suspended) ==
  /\ window[c] # None
  /\ PermitCanBeActivated(
       [Status |-> permit[c].status, Now |-> now,
        StartsAt |-> window[c].starts, EndsAt |-> window[c].ends,
        Flags |-> Flags([vessel_ready |-> HasVessel(c), crew_checked_in |-> crew[c] # None,
                         weather_suspended |-> suspended])])
  /\ CrewMemberIsQualified([ActorID |-> CrewMember, Kind |-> "offshore-lifting", Status |-> "valid", Now |-> now, ValidFrom |-> NoTime, ValidUntil |-> QualifiedUntil,
                            Flags |-> {"medical_clearance"}])
  /\ permit' = [permit EXCEPT ![c].status = "activated"]
  /\ UNCHANGED <<now, planning, work, field>>

StartWork(c) ==
  /\ WorkOrderCanStart(
       [Status |-> work[c].status, Now |-> now, Deadline |-> permit[c].expiry,
        Flags |-> Flags([permit_active |-> permit[c].status = "activated",
                         crew_on_site |-> dispatch[c].status = "departed", turbine_isolated |-> TRUE])])
  /\ work' = [work EXCEPT ![c] = [status |-> "started", startedAt |-> now]]
  /\ UNCHANGED <<now, planning, permit, field>>

-----------------------------------------------------------------------------
\* One vessel serves all campaigns.
Reserve(c, load) ==
  /\ dispatch[c].status = "proposed"
  /\ VesselCanBeReserved([Status |-> vessel, Capacity |-> VesselCapacity, Requested |-> 1,
                          Deadline |-> InspectionDue, Now |-> now,
                          Flags |-> {"inspection_valid", "insurance_valid"}])
  /\ DispatchFitsVessel([Capacity |-> VesselCapacity, Used |-> 0, Requested |-> 1, Values |-> load])
  /\ vessel' = "reserved"
  /\ dispatch' = [dispatch EXCEPT ![c] = [status |-> "reserved", load |-> load]]
  /\ UNCHANGED <<now, planning, permit, work, evidence, closed>>

Depart(c) ==
  /\ dispatch[c].status = "reserved"
  /\ DispatchDepartureIsUnique([ResourceID |-> c,
                                ExistingIDs |-> Names({d \in Campaigns : dispatch[d].status = "departed"})])
  /\ vessel' = "underway"
  /\ dispatch' = [dispatch EXCEPT ![c].status = "departed"]
  /\ UNCHANGED <<now, planning, permit, work, evidence, closed>>

\* The vessel is back, or was not needed.
Release(c) ==
  /\ HasVessel(c)
  /\ vessel' = "available"
  /\ dispatch' = [dispatch EXCEPT ![c].status = "released"]
  /\ UNCHANGED <<now, planning, permit, work, evidence, closed>>

FinishWork(c) ==
  /\ work[c].status = "started"
  /\ work' = [work EXCEPT ![c].status = "awaiting_evidence"]
  /\ UNCHANGED <<now, planning, permit, field>>

Register(c, sum) ==
  /\ work[c].status = "awaiting_evidence" /\ evidence[c] = None
  /\ LET known == {d \in Campaigns : evidence[d] # None}
     IN EvidenceChecksumIsUnique([PayloadHash |-> sum, Labels |-> [d \in known |-> evidence[d]],
                                  ExistingIDs |-> Names(known)])
  /\ evidence' = [evidence EXCEPT ![c] = sum]
  /\ UNCHANGED <<now, planning, permit, work, vessel, dispatch, closed>>

\* The evidence of a work order is its photos, its torque record and its signature.
CompleteWork(c) ==
  LET shown == evidence[c] # None
  IN /\ WorkOrderCanComplete(
          [Status |-> work[c].status,
           Flags |-> Flags([before_photo |-> shown, after_photo |-> shown, torque_record |-> shown,
                            technician_signoff |-> shown])])
     /\ work' = [work EXCEPT ![c].status = "completed"]
     /\ UNCHANGED <<now, planning, permit, field>>

\* The client closes a permit when it likes.
ClosePermit(c) ==
  /\ permit[c].status = "activated"
  /\ permit' = [permit EXCEPT ![c].status = "closed"]
  /\ UNCHANGED <<now, planning, work, field>>

\* A campaign is in progress once its work was started.
CloseCampaign(c, price) ==
  /\ c \notin closed
  /\ CampaignCanClose(
       [Status |-> IF work[c].status = "assigned" THEN "approved" ELSE "in_progress",
        Flags |-> Flags([all_work_terminal |-> work[c].status = "completed",
                         dispatch_released |-> dispatch[c].status = "released",
                         permit_closed |-> permit[c].status = "closed", audit_complete |-> TRUE]),
        Budget |-> Budget, Cost |-> price])
  /\ closed' = closed \cup {c}
  /\ UNCHANGED <<now, planning, permit, work, vessel, dispatch, evidence>>

-----------------------------------------------------------------------------
Elapse == \E t \in Times : t > now /\ now' = t /\ UNCHANGED <<planning, permit, work, field>>

Next ==
  \/ \E c \in Campaigns :
       \/ \E i \in Windows, f \in Forecasts : Confirm(c, i, f)
       \/ \E i \in Shifts : AssignCrew(c, i)
       \/ \E n \in Requests : Book(c, n)
       \/ \E lines \in Lines : Approve(c, lines)
       \/ \E expiry \in Times \cup {NoTime} : Grant(c, expiry)
       \/ Submit(c) \/ StartWork(c)
       \/ \E suspended \in BOOLEAN : Activate(c, suspended)
       \/ \E load \in Manifests : Reserve(c, load)
       \/ Depart(c) \/ Release(c) \/ FinishWork(c)
       \/ \E sum \in Checksums : Register(c, sum)
       \/ CompleteWork(c) \/ ClosePermit(c)
       \/ \E price \in Prices : CloseCampaign(c, price)
  \/ Elapse

Spec == Init /\ [][Next]_vars

-----------------------------------------------------------------------------
\* The types of the state.
Permit   == [status : {"draft", "submitted", "approved", "activated", "closed"}, expiry : Times \cup {NoTime}]
Work     == [status : {"assigned", "started", "awaiting_evidence", "completed"}, startedAt : Times \cup {NoTime}]
Dispatch == [status : {"proposed", "reserved", "departed", "released"}, load : Manifests \cup {None}]
TypeOK ==
  /\ now \in Times
  /\ window \in [Campaigns -> Windows \cup {None}]
  /\ crew \in [Campaigns -> Shifts \cup {None}]
  /\ used \in Nat
  /\ booked \in [Campaigns -> Int]
  /\ costs \in [Campaigns -> Lines \cup {None}]
  /\ permit \in [Campaigns -> Permit]
  /\ work \in [Campaigns -> Work]
  /\ vessel \in {"available", "reserved", "underway"}
  /\ dispatch \in [Campaigns -> Dispatch]
  /\ evidence \in [Campaigns -> Checksums \cup {None}]
  /\ closed \subseteq Campaigns

\* t is an instant of the half-open interval i.
Covers(i, t) == i # None /\ i.starts <= t /\ t < i.ends
CoveredOnce(records) ==
  \A t \in Times, c, d \in Campaigns : Covers(records[c], t) /\ Covers(records[d], t) => c = d

\* Nothing all campaigns share is given twice, in whatever order they ask: no instant
\* lies in two confirmed windows or in two shifts of the crew member, although that
\* rule accepts shifts that end before they start, and the vessel has one campaign.
WindowsDisjoint == CoveredOnce(window)
CrewBookedOnce  == CoveredOnce(crew)
VesselHeldOnce  == \A c, d \in Campaigns : HasVessel(c) /\ HasVessel(d) => c = d
NothingSharedTwice == WindowsDisjoint /\ CrewBookedOnce /\ VesselHeldOnce

\* The slot is never overbooked, for requests of any int64: its rule compares with
\* what remains and never adds.
SlotKept == used <= Capacity /\ \A c \in Campaigns : booked[c] \in 0..used

\* The costs of an approved campaign are within its budget, and the load of the vessel
\* within its capacity, unless their sum is more than int64 holds and comes back below
\* the limit when it is wrapped around.  The rules add line by line and wrap at each:
\* still only the sum decides, and no overspend that int64 can represent passes.
Sum(values) == FoldLeft(LAMBDA sum, v : sum + v, 0, values)
Fits(values, limit) ==
  \/ Sum(values) <= limit
  \/ Sum(values) > MaxInt /\ Wrap(Sum(values)) <= limit
SumsFit == \A c \in Campaigns :
  (costs[c] # None => Fits(costs[c], Budget)) /\ (dispatch[c].load # None => Fits(<<1>> \o dispatch[c].load, VesselCapacity))

\* Work starts only inside the confirmed window of its campaign and within twelve
\* hours of its begin.  The rule that starts work knows neither: it relies on the
\* expiry one rule bounded and on the activation another one timed.
WorkInsideWindow == \A c \in Campaigns :
  work[c].status # "assigned" =>
    /\ Covers(window[c], work[c].startedAt)
    /\ work[c].startedAt - window[c].starts < PermitTime

\* Work starts only in a campaign that was approved and whose crew was assigned:
\* four rules pass this on by the statuses and flags they read.
WorkIsPlanned == \A c \in Campaigns :
  work[c].status # "assigned" => costs[c] # None /\ booked[c] > 0 /\ crew[c] # None

\* A closed campaign stays done: its work was completed with evidence nobody else
\* registered, its permit is closed and its vessel is free for others, although each
\* rule on the way saw only statuses and flags.
ClosedIsDone == \A c \in closed :
  /\ work[c].status = "completed"
  /\ evidence[c] # None /\ \A d \in Campaigns \ {c} : evidence[d] # evidence[c]
  /\ permit[c].status = "closed"
  /\ ~HasVessel(c)
=============================================================================
