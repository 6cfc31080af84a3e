--------------------------- MODULE WorkflowProofs ---------------------------
(***************************************************************************)
(* Theorems about Workflow, for any campaigns, instants, permit time,      *)
(* capacities and checksums.                                               *)
(*                                                                         *)
(* No rule sees window and work at once.  The chain is: a submitted permit *)
(* has a confirmed window, an approved one an expiry inside it, an         *)
(* activated one a past begin, and work starts before the expiry.  From    *)
(* there to the end of a campaign each rule relies on statuses no later    *)
(* decision takes back.                                                    *)
(*                                                                         *)
(* The last two parts are about what the rules compute from a list: sums   *)
(* in integers that wrap around, and the order of dispatches.              *)
(***************************************************************************)
EXTENDS Workflow, FiniteSetTheorems, SequenceTheorems, TLAPS

Active(c)    == permit[c].status \in {"activated", "closed"}
Permitted(c) == permit[c].status = "approved" \/ Active(c)

\* What campaigns share while they are planned.
PlanInv == SlotKept /\ WindowsDisjoint /\ CrewBookedOnce

\* What the rules pass on about the window of a campaign.
WindowChain ==
  \A c \in Campaigns :
    /\ permit[c].status # "draft" => window[c] # None
    /\ Permitted(c) =>
         /\ permit[c].expiry # NoTime
         /\ permit[c].expiry <= window[c].ends
         /\ permit[c].expiry - window[c].starts <= PermitTime
    /\ Active(c) => window[c].starts <= now
    /\ work[c].status # "assigned" => Active(c)

\* What they pass on about its approval and its crew.
ApprovalChain ==
  \A c \in Campaigns :
    /\ costs[c] # None => booked[c] > 0
    /\ permit[c].status # "draft" => costs[c] # None /\ crew[c] # None

PermitInv == WindowChain /\ ApprovalChain /\ WorkInsideWindow

\* Whoever has the vessel keeps it from being available.
VesselChain == \A c \in Campaigns : HasVessel(c) => vessel # "available"

\* What they pass on about the end of a campaign.
CloseChain ==
  /\ \A c, d \in Campaigns : evidence[c] # None /\ evidence[c] = evidence[d] => c = d
  /\ \A c \in Campaigns : work[c].status = "completed" => evidence[c] # None
  /\ \A c \in closed : work[c].status = "completed" /\ permit[c].status = "closed"
                       /\ dispatch[c].status = "released"

FieldInv == VesselHeldOnce /\ VesselChain /\ CloseChain

\* The inductive invariant.
IInv == TypeOK /\ PlanInv /\ PermitInv /\ FieldInv

-----------------------------------------------------------------------------
\* The constants a proof about times and records needs.
LEMMA NoneIsNoInterval == None \notin Interval /\ Windows \subseteq Interval /\ Shifts \subseteq Interval
  BY WorkflowAssumption DEF Interval

\* The state types of the intervals, for one campaign.
LEMMA IntervalTypes ==
  ASSUME NEW i \in Interval
  PROVE  i.starts \in Nat /\ i.ends \in Nat /\ i.starts \in Times /\ i.ends \in Times
  BY WorkflowAssumption DEF Interval

\* A claim that is flagged holds.
LEMMA FlagsHold ==
  ASSUME NEW claims, NEW f, f \in Flags(claims)
  PROVE  claims[f]
  BY DEF Flags

\* An interval that conflicts with no recorded one shares no instant with them.
LEMMA FreeMeansUncovered ==
  ASSUME NEW records, records \in [Campaigns -> Interval \cup {None}], NEW i \in Interval,
         NoConflict([StartsAt |-> i.starts, EndsAt |-> i.ends, Existing |-> Recorded(records)]),
         NEW d \in Campaigns, NEW t \in Times, Covers(records[d], t)
  PROVE  ~Covers(i, t)
<1>1. records[d] \in Interval /\ records[d] \in Recorded(records)
  BY NoneIsNoInterval DEF Covers, Recorded
<1>2. ~Overlap(i.starts, i.ends, records[d].starts, records[d].ends)
  BY <1>1 DEF NoConflict
<1> QED
  BY <1>1, <1>2, IntervalTypes, WorkflowAssumption DEF Overlap, Covers

\* Recording such an interval keeps the instants covered at most once.
LEMMA RecordingKeepsCoveredOnce ==
  ASSUME NEW records, records \in [Campaigns -> Interval \cup {None}], CoveredOnce(records),
         NEW i \in Interval, NEW c \in Campaigns, NEW new,
         new = [records EXCEPT ![c] = i],
         NoConflict([StartsAt |-> i.starts, EndsAt |-> i.ends, Existing |-> Recorded(records)])
  PROVE  CoveredOnce(new)
<1> SUFFICES ASSUME NEW t \in Times, NEW a \in Campaigns, NEW b \in Campaigns,
                    Covers(new[a], t), Covers(new[b], t), a # b
             PROVE  FALSE
  BY DEF CoveredOnce
<1>1. CASE a # c /\ b # c
  BY <1>1 DEF CoveredOnce
<1>2. CASE a = c
  BY <1>2, FreeMeansUncovered
<1>3. CASE b = c
  BY <1>3, FreeMeansUncovered
<1> QED
  BY <1>1, <1>2, <1>3

-----------------------------------------------------------------------------
\* A step that leaves the plan alone keeps what is shared in it.
LEMMA PlanFrame == ASSUME PlanInv, UNCHANGED planning PROVE PlanInv'
  BY DEF PlanInv, planning, SlotKept, WindowsDisjoint, CrewBookedOnce, CoveredOnce, Covers

\* So do the chains when nothing they read changes.
LEMMA PermitFrame == ASSUME PermitInv, UNCHANGED <<now, planning, permit, work>> PROVE PermitInv'
  BY DEF PermitInv, planning, WindowChain, ApprovalChain, WorkInsideWindow, Permitted, Active, Covers

LEMMA FieldFrame == ASSUME FieldInv, UNCHANGED <<permit, work, field>> PROVE FieldInv'
  BY DEF FieldInv, field, VesselHeldOnce, VesselChain, CloseChain, HasVessel

\* Neither the vessel nor the evidence depends on a permit or a work order that is not
\* closed or completed.
LEMMA OpenCampaign ==
  ASSUME FieldInv, NEW c \in Campaigns, c \notin closed, UNCHANGED field,
         \A d \in Campaigns \ {c} : permit'[d] = permit[d] /\ work'[d] = work[d],
         work'[c].status = "completed" => evidence[c] # None,
         closed \subseteq Campaigns
  PROVE  FieldInv'
<1>1. VesselHeldOnce' /\ VesselChain'
  BY DEF FieldInv, field, VesselHeldOnce, VesselChain, HasVessel
<1>2. CloseChain'
  BY DEF FieldInv, field, CloseChain
<1> QED
  BY <1>1, <1>2 DEF FieldInv

\* One record of a function of records is updated.
LEMMA StatusUpdate ==
  ASSUME NEW S, NEW T, NEW records, records \in [Campaigns -> [status : S, expiry : T]],
         NEW c \in Campaigns, NEW s \in S, NEW new, new = [records EXCEPT ![c].status = s]
  PROVE  /\ new \in [Campaigns -> [status : S, expiry : T]]
         /\ new[c].status = s /\ new[c].expiry = records[c].expiry
         /\ \A d \in Campaigns \ {c} : new[d] = records[d]
  OBVIOUS

LEMMA WorkUpdate ==
  ASSUME NEW S, NEW T, NEW records, records \in [Campaigns -> [status : S, startedAt : T]],
         NEW c \in Campaigns, NEW s \in S, NEW new, new = [records EXCEPT ![c].status = s]
  PROVE  /\ new \in [Campaigns -> [status : S, startedAt : T]]
         /\ new[c].status = s /\ new[c].startedAt = records[c].startedAt
         /\ \A d \in Campaigns \ {c} : new[d] = records[d]
  OBVIOUS

LEMMA DispatchUpdate ==
  ASSUME NEW S, NEW T, NEW records, records \in [Campaigns -> [status : S, load : T]],
         NEW c \in Campaigns, NEW s \in S, NEW new, new = [records EXCEPT ![c].status = s]
  PROVE  /\ new \in [Campaigns -> [status : S, load : T]]
         /\ new[c].status = s
         /\ \A d \in Campaigns \ {c} : new[d] = records[d]
  OBVIOUS

\* A whole record is replaced.
LEMMA Replace ==
  ASSUME NEW R, NEW records, records \in [Campaigns -> R], NEW c \in Campaigns, NEW r \in R,
         NEW new, new = [records EXCEPT ![c] = r]
  PROVE  new \in [Campaigns -> R] /\ new[c] = r /\ \A d \in Campaigns \ {c} : new[d] = records[d]
  OBVIOUS

-----------------------------------------------------------------------------
\* Initial states satisfy the inductive invariant.
LEMMA InitIInv == Init => IInv
<1> SUFFICES ASSUME Init PROVE IInv
  OBVIOUS
<1>1. TypeOK
  <2>1. permit \in [Campaigns -> Permit] /\ work \in [Campaigns -> Work]
    BY DEF Init, Permit, Work
  <2>2. dispatch \in [Campaigns -> Dispatch]
    BY DEF Init, Dispatch
  <2>3. /\ window \in [Campaigns -> Windows \cup {None}]
        /\ crew \in [Campaigns -> Shifts \cup {None}]
        /\ costs \in [Campaigns -> Lines \cup {None}]
        /\ evidence \in [Campaigns -> Checksums \cup {None}]
    BY DEF Init
  <2>4. now \in Times /\ used \in Nat /\ booked \in [Campaigns -> Int]
    BY DEF Init
  <2>5. vessel = "available" /\ closed = {}
    BY DEF Init
  <2> QED
    BY <2>1, <2>2, <2>3, <2>4, <2>5 DEF TypeOK
<1>2. PlanInv
  BY WorkflowAssumption DEF Init, PlanInv, SlotKept, WindowsDisjoint, CrewBookedOnce, CoveredOnce, Covers
<1>3. PermitInv
  BY DEF Init, PermitInv, WindowChain, ApprovalChain, WorkInsideWindow, Permitted, Active
<1>4. FieldInv
  BY DEF Init, FieldInv, VesselHeldOnce, VesselChain, CloseChain, HasVessel
<1> QED
  BY <1>1, <1>2, <1>3, <1>4 DEF IInv

\* Each decision keeps the inductive invariant.
LEMMA ConfirmKeeps ==
  ASSUME IInv, NEW c \in Campaigns, NEW i \in Windows, NEW f \in Forecasts, Confirm(c, i, f)
  PROVE  IInv'
<1>1. window' = [window EXCEPT ![c] = i] /\ window[c] = None /\ i \in Interval
      /\ UNCHANGED <<now, crew, used, booked, costs, permit, work, field>>
  BY NoneIsNoInterval DEF Confirm
<1>2. TypeOK'
  BY <1>1 DEF IInv, TypeOK, field
<1>3. PlanInv'
  <2>1. window \in [Campaigns -> Interval \cup {None}]
    BY NoneIsNoInterval DEF IInv, TypeOK
  <2>2. CoveredOnce(window')
    BY <1>1, <2>1, RecordingKeepsCoveredOnce
    DEF Confirm, WeatherWindowDoesNotOverlap, IInv, PlanInv, WindowsDisjoint
  <2> QED
    BY <1>1, <2>2 DEF IInv, PlanInv, SlotKept, WindowsDisjoint, CrewBookedOnce, CoveredOnce
<1>4. WindowChain'
  BY <1>1, NoneIsNoInterval DEF IInv, PermitInv, TypeOK, WindowChain, Permitted, Active
<1>5. ApprovalChain' /\ WorkInsideWindow'
  BY <1>1 DEF IInv, PermitInv, TypeOK, ApprovalChain, WorkInsideWindow, Covers
<1>6. FieldInv'
  BY <1>1, FieldFrame DEF IInv
<1> QED
  BY <1>2, <1>3, <1>4, <1>5, <1>6 DEF IInv, PermitInv

\* A shift is assigned only where it covers no instant of another one.
LEMMA AssignCrewKeeps ==
  ASSUME IInv, NEW c \in Campaigns, NEW i \in Shifts, AssignCrew(c, i)
  PROVE  IInv'
<1>1. crew' = [crew EXCEPT ![c] = i] /\ i \in Interval
      /\ UNCHANGED <<now, window, used, booked, costs, permit, work, field>>
  BY NoneIsNoInterval DEF AssignCrew
<1>2. TypeOK'
  BY <1>1 DEF IInv, TypeOK, field
<1>3. PlanInv'
  <2>1. crew \in [Campaigns -> Interval \cup {None}]
    BY NoneIsNoInterval DEF IInv, TypeOK
  <2>2. CoveredOnce(crew')
    BY <1>1, <2>1, RecordingKeepsCoveredOnce
    DEF AssignCrew, CrewAssignmentsDoNotOverlap, IInv, PlanInv, CrewBookedOnce
  <2> QED
    BY <1>1, <2>2 DEF IInv, PlanInv, SlotKept, WindowsDisjoint, CrewBookedOnce, CoveredOnce
<1>4. WindowChain' /\ WorkInsideWindow'
  BY <1>1 DEF IInv, PermitInv, WindowChain, Permitted, Active, WorkInsideWindow
<1>5. ApprovalChain'
  BY <1>1, NoneIsNoInterval DEF IInv, PermitInv, TypeOK, ApprovalChain
<1>6. FieldInv'
  BY <1>1, FieldFrame DEF IInv
<1> QED
  BY <1>2, <1>3, <1>4, <1>5, <1>6 DEF IInv, PermitInv

\* A booking fits what remains of the slot, so the sum does not wrap.
LEMMA BookKeeps ==
  ASSUME IInv, NEW c \in Campaigns, NEW n \in Requests, Book(c, n)
  PROVE  IInv'
<1>1. /\ used \in Nat /\ used <= Capacity /\ n \in Int /\ 0 < n /\ n <= Capacity - used
      /\ Capacity \in Nat /\ MaxInt \in Nat /\ Capacity <= MaxInt
  BY WorkflowAssumption DEF IInv, PlanInv, TypeOK, SlotKept, Book, SlotHasCapacity
<1>2. Wrap(used + n) = used + n
  <2> DEFINE k == used + n + MaxInt + 1
             m == 2 * (MaxInt + 1)
  <2>1. k \in Nat /\ m \in Nat /\ k < m
    BY <1>1
  <2>2. k - (MaxInt + 1) = used + n
    BY <1>1
  <2>3. Wrap(used + n) = (k % m) - (MaxInt + 1)
    BY DEF Wrap
  <2> HIDE DEF k, m
  <2>4. k % m = k
    BY <2>1
  <2> QED
    BY <2>2, <2>3, <2>4
<1>3. used' = used + n /\ booked' = [booked EXCEPT ![c] = n] /\ booked[c] = 0
      /\ UNCHANGED <<now, window, crew, costs, permit, work, field>>
  BY <1>2 DEF Book
<1>4. TypeOK'
  BY <1>1, <1>3 DEF IInv, TypeOK, field
<1>5. PlanInv'
  BY <1>1, <1>3 DEF IInv, TypeOK, PlanInv, SlotKept, WindowsDisjoint, CrewBookedOnce, CoveredOnce
<1>6. ApprovalChain'
  BY <1>1, <1>3 DEF IInv, TypeOK, PermitInv, ApprovalChain
<1>7. WindowChain' /\ WorkInsideWindow'
  BY <1>3 DEF IInv, PermitInv, WindowChain, Permitted, Active, WorkInsideWindow
<1>8. FieldInv'
  BY <1>3, FieldFrame DEF IInv
<1> QED
  BY <1>4, <1>5, <1>6, <1>7, <1>8 DEF IInv, PermitInv

\* A campaign is approved after its slots are booked.
LEMMA ApproveKeeps ==
  ASSUME IInv, NEW c \in Campaigns, NEW lines \in Lines, Approve(c, lines)
  PROVE  IInv'
<1>1. costs' = [costs EXCEPT ![c] = lines] /\ lines # None
      /\ UNCHANGED <<now, window, crew, used, booked, permit, work, field>>
  BY WorkflowAssumption DEF Approve
<1>2. booked[c] > 0
  <2> DEFINE claims == [window_confirmed |-> window[c] # None, slots_booked |-> booked[c] > 0,
                        budget_reviewed |-> TRUE, risk_assessed |-> TRUE]
  <2>1. "slots_booked" \in Flags(claims)
    BY DEF Approve, CampaignCanBeApproved
  <2> QED
    BY <2>1, FlagsHold
<1>3. TypeOK'
  BY <1>1 DEF IInv, TypeOK, field
<1>4. PlanInv'
  BY <1>1 DEF IInv, PlanInv, SlotKept, WindowsDisjoint, CrewBookedOnce, CoveredOnce
<1>5. ApprovalChain'
  BY <1>1, <1>2 DEF IInv, TypeOK, PermitInv, ApprovalChain
<1>6. WindowChain' /\ WorkInsideWindow'
  BY <1>1 DEF IInv, PermitInv, WindowChain, Permitted, Active, WorkInsideWindow
<1>7. FieldInv'
  BY <1>1, FieldFrame DEF IInv
<1> QED
  BY <1>3, <1>4, <1>5, <1>6, <1>7 DEF IInv, PermitInv

\* What a step that changes the permit of one campaign has to show.
LEMMA PermitStep ==
  ASSUME IInv, NEW c \in Campaigns, c \notin closed, UNCHANGED <<now, planning, work, field>>,
         permit' \in [Campaigns -> Permit],
         \A d \in Campaigns \ {c} : permit'[d] = permit[d],
         permit'[c].status # "draft" => costs[c] # None /\ crew[c] # None /\ window[c] # None,
         Permitted(c)' =>
           /\ permit'[c].expiry # NoTime
           /\ permit'[c].expiry <= window[c].ends
           /\ permit'[c].expiry - window[c].starts <= PermitTime,
         Active(c)' => window[c].starts <= now,
         work[c].status # "assigned" => Active(c)'
  PROVE  IInv'
<1>1. TypeOK'
  BY DEF IInv, TypeOK, planning, field
<1>2. WindowChain'
  BY DEF IInv, PermitInv, WindowChain, Permitted, Active, planning
<1>3. ApprovalChain'
  BY DEF IInv, PermitInv, ApprovalChain, planning
<1>4. WorkInsideWindow'
  BY DEF IInv, PermitInv, WorkInsideWindow, Covers, planning
<1>5. PlanInv'
  BY PlanFrame DEF IInv
<1>6. FieldInv'
  <2>1. work'[c].status = "completed" => evidence[c] # None
    BY DEF IInv, FieldInv, CloseChain
  <2> QED
    BY <2>1, OpenCampaign DEF IInv, TypeOK
<1> QED
  BY <1>1, <1>2, <1>3, <1>4, <1>5, <1>6 DEF IInv, PermitInv

\* A permit is submitted for an approved campaign with a window and a crew.
LEMMA SubmitKeeps == ASSUME IInv, NEW c \in Campaigns, Submit(c) PROVE IInv'
<1>1. permit' = [permit EXCEPT ![c].status = "submitted"] /\ permit[c].status = "draft"
      /\ UNCHANGED <<now, planning, work, field>>
  BY DEF Submit, PermitCanBeSubmitted
<1>2. costs[c] # None /\ crew[c] # None /\ window[c] # None
  <2> DEFINE claims == [campaign_approved |-> costs[c] # None, vessel_reserved |-> HasVessel(c),
                        crew_complete |-> crew[c] # None, window_confirmed |-> window[c] # None]
  <2>1. {"campaign_approved", "crew_complete", "window_confirmed"} \subseteq Flags(claims)
    BY DEF Submit, PermitCanBeSubmitted
  <2>2. claims["campaign_approved"] /\ claims["crew_complete"] /\ claims["window_confirmed"]
    BY <2>1, FlagsHold
  <2> QED
    BY <2>2
<1>3. permit' \in [Campaigns -> Permit] /\ permit'[c].status = "submitted"
      /\ \A d \in Campaigns \ {c} : permit'[d] = permit[d]
  BY <1>1, StatusUpdate DEF IInv, TypeOK, Permit
<1>4. c \notin closed /\ work[c].status = "assigned"
  BY <1>1 DEF IInv, PermitInv, FieldInv, CloseChain, WindowChain, Active
<1>5. ~Permitted(c)' /\ ~Active(c)'
  BY <1>3 DEF Permitted, Active
<1> QED
  BY <1>1, <1>2, <1>3, <1>4, <1>5, PermitStep

\* A permit expires inside its window and within its lifetime.
LEMMA GrantKeeps ==
  ASSUME IInv, NEW c \in Campaigns, NEW expiry \in Times \cup {NoTime}, Grant(c, expiry)
  PROVE  IInv'
<1>1. permit' = [permit EXCEPT ![c] = [status |-> "approved", expiry |-> expiry]]
      /\ permit[c].status = "submitted"
      /\ UNCHANGED <<now, planning, work, field>>
  BY DEF Grant
<1>2. expiry # NoTime /\ expiry <= window[c].ends /\ expiry - window[c].starts <= PermitTime
  BY DEF Grant, PermitExpiryIsBounded
<1>3. permit' \in [Campaigns -> Permit] /\ permit'[c] = [status |-> "approved", expiry |-> expiry]
      /\ \A d \in Campaigns \ {c} : permit'[d] = permit[d]
  <2>1. [status |-> "approved", expiry |-> expiry] \in Permit
    BY DEF Permit
  <2> QED
    BY <1>1, <2>1, Replace DEF IInv, TypeOK
<1>4. c \notin closed /\ work[c].status = "assigned" /\ costs[c] # None /\ crew[c] # None /\ window[c] # None
  BY <1>1 DEF IInv, PermitInv, FieldInv, CloseChain, WindowChain, ApprovalChain, Active
<1>5. ~Active(c)'
  BY <1>3 DEF Active
<1> QED
  BY <1>1, <1>2, <1>3, <1>4, <1>5, PermitStep

\* A permit is activated once its window has begun.
LEMMA ActivateKeeps ==
  ASSUME IInv, NEW c \in Campaigns, NEW suspended \in BOOLEAN, Activate(c, suspended)
  PROVE  IInv'
<1>1. permit' = [permit EXCEPT ![c].status = "activated"] /\ permit[c].status = "approved"
      /\ window[c].starts <= now
      /\ UNCHANGED <<now, planning, work, field>>
  BY DEF Activate, PermitCanBeActivated
<1>2. permit' \in [Campaigns -> Permit]
      /\ permit'[c].status = "activated" /\ permit'[c].expiry = permit[c].expiry
      /\ \A d \in Campaigns \ {c} : permit'[d] = permit[d]
  BY <1>1, StatusUpdate DEF IInv, TypeOK, Permit
<1>3. /\ c \notin closed /\ costs[c] # None /\ crew[c] # None /\ window[c] # None
      /\ permit[c].expiry # NoTime
      /\ permit[c].expiry <= window[c].ends
      /\ permit[c].expiry - window[c].starts <= PermitTime
  BY <1>1 DEF IInv, PermitInv, FieldInv, CloseChain, WindowChain, ApprovalChain, Permitted
<1>4. Active(c)'
  BY <1>2 DEF Active
<1> QED
  BY <1>1, <1>2, <1>3, <1>4, PermitStep

\* Closing a permit takes nothing back.
LEMMA ClosePermitKeeps == ASSUME IInv, NEW c \in Campaigns, ClosePermit(c) PROVE IInv'
<1>1. permit' = [permit EXCEPT ![c].status = "closed"] /\ permit[c].status = "activated"
      /\ UNCHANGED <<now, planning, work, field>>
  BY DEF ClosePermit
<1>2. permit' \in [Campaigns -> Permit]
      /\ permit'[c].status = "closed" /\ permit'[c].expiry = permit[c].expiry
      /\ \A d \in Campaigns \ {c} : permit'[d] = permit[d]
  BY <1>1, StatusUpdate DEF IInv, TypeOK, Permit
<1>3. /\ c \notin closed /\ costs[c] # None /\ crew[c] # None /\ window[c] # None
      /\ permit[c].expiry # NoTime
      /\ permit[c].expiry <= window[c].ends
      /\ permit[c].expiry - window[c].starts <= PermitTime
      /\ window[c].starts <= now
  BY <1>1 DEF IInv, PermitInv, FieldInv, CloseChain, WindowChain, ApprovalChain, Permitted, Active
<1>4. Active(c)'
  BY <1>2 DEF Active
<1> QED
  BY <1>1, <1>2, <1>3, <1>4, PermitStep

\* What a step that changes the work order of one campaign has to show.
LEMMA WorkStep ==
  ASSUME IInv, NEW c \in Campaigns, c \notin closed, UNCHANGED <<now, planning, permit, field>>,
         work' \in [Campaigns -> Work],
         \A d \in Campaigns \ {c} : work'[d] = work[d],
         Active(c),
         Covers(window[c], work'[c].startedAt),
         work'[c].startedAt - window[c].starts < PermitTime,
         work'[c].status = "completed" => evidence[c] # None
  PROVE  IInv'
<1>1. TypeOK'
  BY DEF IInv, TypeOK, planning, field
<1>2. WindowChain'
  BY DEF IInv, PermitInv, WindowChain, Permitted, Active, planning
<1>3. ApprovalChain'
  BY DEF IInv, PermitInv, ApprovalChain, planning
<1>4. WorkInsideWindow'
  BY DEF IInv, PermitInv, WorkInsideWindow, Covers, planning
<1>5. PlanInv'
  BY PlanFrame DEF IInv
<1>6. FieldInv'
  BY OpenCampaign DEF IInv, TypeOK
<1> QED
  BY <1>1, <1>2, <1>3, <1>4, <1>5, <1>6 DEF IInv, PermitInv

\* Work starts before the permit expires, hence inside the window.
LEMMA StartWorkKeeps == ASSUME IInv, NEW c \in Campaigns, StartWork(c) PROVE IInv'
<1> DEFINE begun == [status |-> "started", startedAt |-> now]
<1>1. /\ work' = [work EXCEPT ![c] = begun]
      /\ work[c].status = "assigned"
      /\ permit[c].expiry = NoTime \/ now < permit[c].expiry
      /\ UNCHANGED <<now, planning, permit, field>>
  BY DEF StartWork, WorkOrderCanStart
<1>2. permit[c].status = "activated"
  <2> DEFINE claims == [permit_active |-> permit[c].status = "activated",
                        crew_on_site |-> dispatch[c].status = "departed", turbine_isolated |-> TRUE]
  <2>1. "permit_active" \in Flags(claims)
    BY DEF StartWork, WorkOrderCanStart
  <2>2. claims["permit_active"]
    BY <2>1, FlagsHold
  <2> QED
    BY <2>2
<1>3. begun \in Work
  BY DEF IInv, TypeOK, Work
<1>4. work' \in [Campaigns -> Work] /\ work'[c] = begun
      /\ \A d \in Campaigns \ {c} : work'[d] = work[d]
  <2> HIDE DEF begun
  <2> QED
    BY <1>1, <1>3, Replace DEF IInv, TypeOK
<1>5. Covers(window[c], now) /\ now - window[c].starts < PermitTime
  <2>1. /\ window[c] \in Interval /\ window[c] # None
        /\ window[c].starts <= now
        /\ permit[c].expiry \in Times
        /\ permit[c].expiry <= window[c].ends
        /\ permit[c].expiry - window[c].starts <= PermitTime
        /\ now < permit[c].expiry
        /\ now \in Times
    BY <1>1, <1>2, NoneIsNoInterval
    DEF IInv, PermitInv, TypeOK, Permit, WindowChain, Permitted, Active
  <2>2. window[c].starts \in Nat /\ window[c].ends \in Nat /\ permit[c].expiry \in Nat /\ now \in Nat
        /\ PermitTime \in Nat
    BY <2>1, IntervalTypes, WorkflowAssumption
  <2> QED
    BY <2>1, <2>2 DEF Covers
<1>6. c \notin closed /\ Active(c)
  BY <1>1, <1>2 DEF IInv, FieldInv, CloseChain, Active
<1> QED
  BY <1>1, <1>4, <1>5, <1>6, WorkStep

\* Work that goes on keeps the instant it started at.
LEMMA WorkGoesOn ==
  ASSUME IInv, NEW c \in Campaigns, NEW s \in {"awaiting_evidence", "completed"},
         work' = [work EXCEPT ![c].status = s], UNCHANGED <<now, planning, permit, field>>,
         work[c].status \notin {"assigned", "completed"}, s = "completed" => evidence[c] # None
  PROVE  IInv'
<1>1. work' \in [Campaigns -> Work] /\ work'[c].status = s /\ work'[c].startedAt = work[c].startedAt
      /\ \A d \in Campaigns \ {c} : work'[d] = work[d]
  BY WorkUpdate DEF IInv, TypeOK, Work
<1>2. Covers(window[c], work[c].startedAt) /\ work[c].startedAt - window[c].starts < PermitTime
  BY DEF IInv, PermitInv, WorkInsideWindow
<1>3. c \notin closed /\ Active(c)
  BY DEF IInv, PermitInv, FieldInv, CloseChain, WindowChain
<1> QED
  BY <1>1, <1>2, <1>3, WorkStep

\* A work order is finished, and completed once its evidence is there.
LEMMA FinishWorkKeeps == ASSUME IInv, NEW c \in Campaigns, FinishWork(c) PROVE IInv'
  BY WorkGoesOn DEF FinishWork

LEMMA CompleteWorkKeeps == ASSUME IInv, NEW c \in Campaigns, CompleteWork(c) PROVE IInv'
<1> DEFINE shown  == evidence[c] # None
           claims == [before_photo |-> shown, after_photo |-> shown, torque_record |-> shown,
                      technician_signoff |-> shown]
<1>1. /\ work' = [work EXCEPT ![c].status = "completed"]
      /\ work[c].status = "awaiting_evidence" /\ "before_photo" \in Flags(claims)
      /\ UNCHANGED <<now, planning, permit, field>>
  BY DEF CompleteWork, WorkOrderCanComplete
<1>2. claims["before_photo"]
  BY <1>1, FlagsHold
<1> QED
  BY <1>1, <1>2, WorkGoesOn

-----------------------------------------------------------------------------
\* What a step of the vessel has to show: nobody else has it while c has it, and it is
\* available only when nobody does.
LEMMA VesselStep ==
  ASSUME IInv, NEW c \in Campaigns, c \notin closed,
         UNCHANGED <<now, planning, permit, work, evidence, closed>>,
         dispatch' \in [Campaigns -> Dispatch], vessel' \in {"available", "reserved", "underway"},
         \A d \in Campaigns \ {c} : dispatch'[d] = dispatch[d] /\ ~HasVessel(d),
         HasVessel(c)' => vessel' # "available"
  PROVE  IInv'
<1>1. TypeOK'
  BY DEF IInv, TypeOK, planning
<1>2. PlanInv' /\ PermitInv'
  BY PlanFrame, PermitFrame DEF IInv
<1>3. \A d \in Campaigns \ {c} : ~HasVessel(d)'
  BY DEF HasVessel
<1>4. VesselHeldOnce' /\ VesselChain'
  BY <1>3 DEF VesselHeldOnce, VesselChain
<1>5. CloseChain'
  BY DEF IInv, TypeOK, FieldInv, CloseChain
<1> QED
  BY <1>1, <1>2, <1>4, <1>5 DEF IInv, FieldInv

\* Only an available vessel is reserved, and then nobody has it.
LEMMA ReserveKeeps ==
  ASSUME IInv, NEW c \in Campaigns, NEW load \in Manifests, Reserve(c, load)
  PROVE  IInv'
<1> DEFINE taken == [status |-> "reserved", load |-> load]
<1>1. /\ dispatch[c].status = "proposed" /\ vessel = "available" /\ vessel' = "reserved"
      /\ dispatch' = [dispatch EXCEPT ![c] = taken]
      /\ UNCHANGED <<now, planning, permit, work, evidence, closed>>
  BY DEF Reserve, VesselCanBeReserved
<1>2. taken \in Dispatch
  BY DEF Dispatch
<1>3. dispatch' \in [Campaigns -> Dispatch] /\ \A d \in Campaigns \ {c} : dispatch'[d] = dispatch[d]
  <2> HIDE DEF taken
  <2> QED
    BY <1>1, <1>2, Replace DEF IInv, TypeOK
<1>4. c \notin closed /\ \A d \in Campaigns : ~HasVessel(d)
  BY <1>1 DEF IInv, FieldInv, CloseChain, VesselChain
<1> QED
  BY <1>1, <1>3, <1>4, VesselStep

\* Who has the vessel is the only one.
LEMMA HolderStep ==
  ASSUME IInv, NEW c \in Campaigns, HasVessel(c), NEW s \in {"departed", "released"},
         dispatch' = [dispatch EXCEPT ![c].status = s],
         vessel' = IF s = "departed" THEN "underway" ELSE "available",
         UNCHANGED <<now, planning, permit, work, evidence, closed>>
  PROVE  IInv'
<1>1. dispatch' \in [Campaigns -> Dispatch] /\ dispatch'[c].status = s
      /\ \A d \in Campaigns \ {c} : dispatch'[d] = dispatch[d]
  <2> DEFINE S == {"proposed", "reserved", "departed", "released"}
             T == Manifests \cup {None}
  <2>1. dispatch \in [Campaigns -> [status : S, load : T]] /\ s \in S
    BY DEF IInv, TypeOK, Dispatch
  <2> HIDE DEF S, T
  <2>2. /\ dispatch' \in [Campaigns -> [status : S, load : T]] /\ dispatch'[c].status = s
        /\ \A d \in Campaigns \ {c} : dispatch'[d] = dispatch[d]
    BY <2>1, DispatchUpdate
  <2> QED
    BY <2>2 DEF S, T, Dispatch
<1>2. \A d \in Campaigns \ {c} : ~HasVessel(d)
  BY DEF IInv, FieldInv, VesselHeldOnce
<1>3. c \notin closed
  BY DEF IInv, FieldInv, CloseChain, HasVessel
<1>4. HasVessel(c)' => vessel' # "available"
  BY <1>1 DEF HasVessel
<1> QED
  BY <1>1, <1>2, <1>3, <1>4, VesselStep

LEMMA DepartKeeps == ASSUME IInv, NEW c \in Campaigns, Depart(c) PROVE IInv'
  BY HolderStep DEF Depart, HasVessel

LEMMA ReleaseKeeps == ASSUME IInv, NEW c \in Campaigns, Release(c) PROVE IInv'
  BY HolderStep DEF Release

\* Evidence is new to every campaign.
LEMMA RegisterKeeps ==
  ASSUME IInv, NEW c \in Campaigns, NEW sum \in Checksums, Register(c, sum)
  PROVE  IInv'
<1>1. /\ evidence' = [evidence EXCEPT ![c] = sum] /\ evidence[c] = None
      /\ sum \notin Recorded(evidence) /\ sum # None
      /\ UNCHANGED <<now, planning, permit, work, vessel, dispatch, closed>>
  <2> DEFINE known == {d \in Campaigns : evidence[d] # None}
             labels == [d \in known |-> evidence[d]]
             ids == [d \in known |-> d]
  <2>1. EvidenceChecksumIsUnique([PayloadHash |-> sum, Labels |-> labels, ExistingIDs |-> ids])
    BY DEF Register, Names
  <2>2. \A d \in known : labels[d] # sum
    BY <2>1 DEF EvidenceChecksumIsUnique
  <2>3. sum \notin Recorded(evidence)
    BY <2>2 DEF Recorded
  <2> QED
    BY <2>3, WorkflowAssumption DEF Register
<1>2. TypeOK'
  BY <1>1 DEF IInv, TypeOK, planning
<1>3. PlanInv' /\ PermitInv'
  BY <1>1, PlanFrame, PermitFrame DEF IInv
<1>4. \A d \in Campaigns : evidence[d] # sum
  BY <1>1 DEF Recorded
<1>5. VesselHeldOnce' /\ VesselChain'
  BY <1>1 DEF IInv, FieldInv, VesselHeldOnce, VesselChain, HasVessel
<1>6. CloseChain'
  BY <1>1, <1>4 DEF IInv, TypeOK, FieldInv, CloseChain
<1> QED
  BY <1>2, <1>3, <1>5, <1>6 DEF IInv, FieldInv

\* A campaign is closed when its work, its permit and its dispatch are.
LEMMA CloseCampaignKeeps ==
  ASSUME IInv, NEW c \in Campaigns, NEW price \in Prices, CloseCampaign(c, price)
  PROVE  IInv'
<1> DEFINE claims == [all_work_terminal |-> work[c].status = "completed",
                      dispatch_released |-> dispatch[c].status = "released",
                      permit_closed |-> permit[c].status = "closed", audit_complete |-> TRUE]
<1>1. /\ closed' = closed \cup {c}
      /\ {"all_work_terminal", "dispatch_released", "permit_closed"} \subseteq Flags(claims)
      /\ UNCHANGED <<now, planning, permit, work, vessel, dispatch, evidence>>
  BY DEF CloseCampaign, CampaignCanClose
<1>2. claims["all_work_terminal"] /\ claims["dispatch_released"] /\ claims["permit_closed"]
  BY <1>1, FlagsHold
<1>3. TypeOK'
  BY <1>1 DEF IInv, TypeOK, planning
<1>4. PlanInv' /\ PermitInv'
  BY <1>1, PlanFrame, PermitFrame DEF IInv
<1>5. FieldInv'
  BY <1>1, <1>2 DEF IInv, FieldInv, VesselHeldOnce, VesselChain, HasVessel, CloseChain
<1> QED
  BY <1>3, <1>4, <1>5 DEF IInv

\* Time passes, or nothing happens.
LEMMA OtherStepsKeep == ASSUME IInv, Elapse \/ UNCHANGED vars PROVE IInv'
<1>1. UNCHANGED <<planning, permit, work, field>>
  BY DEF Elapse, vars
<1>2. now' \in Times /\ now <= now'
  BY WorkflowAssumption DEF Elapse, vars, IInv, TypeOK
<1>3. TypeOK'
  BY <1>1, <1>2 DEF IInv, TypeOK, planning, field
<1>4. WindowChain'
  <2> SUFFICES ASSUME NEW c \in Campaigns, Active(c)
               PROVE  window[c].starts <= now'
    BY <1>1 DEF IInv, PermitInv, WindowChain, Permitted, Active, planning
  <2>1. window[c] \in Interval /\ window[c].starts <= now
    BY NoneIsNoInterval DEF IInv, PermitInv, TypeOK, WindowChain, Active
  <2> QED
    BY <1>2, <2>1, IntervalTypes, WorkflowAssumption DEF IInv, TypeOK
<1>5. PlanInv' /\ FieldInv'
  BY <1>1, PlanFrame, FieldFrame DEF IInv
<1>6. ApprovalChain' /\ WorkInsideWindow'
  BY <1>1 DEF IInv, PermitInv, ApprovalChain, WorkInsideWindow, planning
<1> QED
  BY <1>3, <1>4, <1>5, <1>6 DEF IInv, PermitInv

\* Every step keeps the inductive invariant.
LEMMA NextIInv == IInv /\ [Next]_vars => IInv'
<1> SUFFICES ASSUME IInv, [Next]_vars PROVE IInv'
  OBVIOUS
<1>1. CASE Elapse \/ UNCHANGED vars
  BY <1>1, OtherStepsKeep
<1>2. CASE \E c \in Campaigns :
             \/ \E i \in Windows, f \in Forecasts : Confirm(c, i, f)
             \/ \E i \in Shifts : AssignCrew(c, i)
             \/ \E n \in Requests : Book(c, n)
             \/ \E lines \in Lines : Approve(c, lines)
  BY <1>2, ConfirmKeeps, AssignCrewKeeps, BookKeeps, ApproveKeeps
<1>3. CASE \E c \in Campaigns :
             \/ \E expiry \in Times \cup {NoTime} : Grant(c, expiry)
             \/ \E suspended \in BOOLEAN : Activate(c, suspended)
             \/ Submit(c) \/ StartWork(c) \/ FinishWork(c) \/ CompleteWork(c) \/ ClosePermit(c)
  BY <1>3, SubmitKeeps, GrantKeeps, ActivateKeeps, StartWorkKeeps, FinishWorkKeeps, CompleteWorkKeeps,
     ClosePermitKeeps
<1>4. CASE \E c \in Campaigns :
             \/ \E load \in Manifests : Reserve(c, load)
             \/ Depart(c) \/ Release(c)
             \/ \E sum \in Checksums : Register(c, sum)
             \/ \E price \in Prices : CloseCampaign(c, price)
  BY <1>4, ReserveKeeps, DepartKeeps, ReleaseKeeps, RegisterKeeps, CloseCampaignKeeps
<1> QED
  BY <1>1, <1>2, <1>3, <1>4 DEF Next

-----------------------------------------------------------------------------
\* Every behaviour of the workflow satisfies the inductive invariant.
THEOREM Inductive == Spec => []IInv
  BY InitIInv, NextIInv, PTL DEF Spec

\* The workflow keeps its types; the sum a client records for the slot never wraps.
THEOREM TypeCorrect == Spec => []TypeOK
<1>1. IInv => TypeOK
  BY DEF IInv
<1> QED
  BY <1>1, Inductive, PTL

\* The overlap rules and the status of the vessel are enough: nothing that is booked by
\* asking shares an instant, for windows and shifts of any shape, and the vessel serves
\* one campaign at a time.
THEOREM NothingDoubleBooked == Spec => []NothingSharedTwice
<1>1. IInv => NothingSharedTwice
  BY DEF IInv, PlanInv, FieldInv, NothingSharedTwice
<1> QED
  BY <1>1, Inductive, PTL

\* The capacity rule never lets a slot be overbooked, for requests of any size.
THEOREM SlotNeverOverbooked == Spec => []SlotKept
<1>1. IInv => SlotKept
  BY DEF IInv, PlanInv
<1> QED
  BY <1>1, Inductive, PTL

\* Work starts only inside the confirmed window and the twelve hours of its permit,
\* for any window, expiry and instant.
THEOREM WorkStaysInside == Spec => []WorkInsideWindow
<1>1. IInv => WorkInsideWindow
  BY DEF IInv, PermitInv
<1> QED
  BY <1>1, Inductive, PTL

\* Work starts only in an approved campaign with a slot and a crew.
THEOREM WorkWasPlanned == Spec => []WorkIsPlanned
<1>1. IInv => WorkIsPlanned
  BY DEF IInv, PermitInv, WindowChain, ApprovalChain, WorkIsPlanned, Active
<1> QED
  BY <1>1, Inductive, PTL

\* A closed campaign stays done, for any number of campaigns, checksums and prices.
THEOREM ClosedStaysDone == Spec => []ClosedIsDone
<1>1. IInv => ClosedIsDone
  BY DEF IInv, TypeOK, FieldInv, CloseChain, ClosedIsDone, HasVessel
<1> QED
  BY <1>1, Inductive, PTL

-----------------------------------------------------------------------------
(***************************************************************************)
(* What the rules add up.  The library's induction theorems take an        *)
(* operator as a parameter, so induction is stated for a set of numbers    *)
(* here, and a fold is treated as what it is, a function of sets of        *)
(* indices that takes the last index out of each.                          *)
(***************************************************************************)

\* Ordinary induction over the numbers, as a statement about sets.
LEMMA NatSets ==
  ASSUME NEW S, S \subseteq Nat, 0 \in S, \A n \in S : n + 1 \in S
  PROVE  S = Nat
<1>. DEFINE R == {p \in Nat \X Nat : p[1] < p[2]}
            T == Nat \ S
<1>1. SUFFICES ASSUME T # {} PROVE FALSE
  OBVIOUS
<1>2. IsWellFoundedOn(R, Nat)
  BY NatLessThanWellFounded DEF OpToRel
<1>. HIDE DEF R
<1>3. PICK x \in T : \A y \in T : ~ (<<y, x>> \in R)
  BY <1>1, <1>2, WFMin
<1>4. x # 0 /\ x - 1 \in Nat /\ x - 1 \in T
  OBVIOUS
<1>5. <<x - 1, x>> \in R
  BY <1>4 DEF R
<1>. QED
  BY <1>3, <1>4, <1>5

\* The greatest of some integers.
LEMMA MaxIs ==
  ASSUME NEW s \in SUBSET Int, NEW m \in s, \A y \in s : y <= m
  PROVE  Max(s) = m
<1>1. m \in s /\ \A y \in s : m >= y
  OBVIOUS
<1>2. Max(s) \in s /\ \A y \in s : Max(s) >= y
  BY <1>1, Zenon DEF Max
<1>3. Max(s) \in Int /\ m \in Int /\ m >= Max(s) /\ Max(s) >= m
  BY <1>1, <1>2
<1>. QED
  BY <1>3

\* g is the fold of the n values v by step, over all sets of their indices; V holds what it
\* yields on the way.
IsFold(g, n, v, base, step, V) ==
  /\ g \in [SUBSET (1..n) -> V]
  /\ \A s \in SUBSET (1..n) :
       /\ s # {} => Max(s) \in s
       /\ g[s] = IF s = {} THEN base ELSE step[<<g[s \ {Max(s)}], v[Max(s)]>>]

\* There is one.
LEMMA FoldExists ==
  ASSUME NEW n \in Nat, NEW V, NEW D, NEW v \in [1..n -> D],
         NEW base \in V, NEW step \in [V \X D -> V]
  PROVE  \E g : IsFold(g, n, v, base, step, V)
<1>. DEFINE Exists(m) == \E g : IsFold(g, m, v, base, step, V)
            S == {m \in Nat : m <= n => Exists(m)}
<1>1. 0 \in S
  <2>. DEFINE g == [s \in SUBSET (1..0) |-> base]
  <2>1. g \in [SUBSET (1..0) -> V] /\ \A s \in SUBSET (1..0) : s = {} /\ g[s] = base
    OBVIOUS
  <2>. HIDE DEF g
  <2>2. IsFold(g, 0, v, base, step, V)
    BY <2>1 DEF IsFold
  <2>. QED
    BY <2>2
<1>2. ASSUME NEW m \in Nat, m + 1 <= n, Exists(m)
      PROVE  Exists(m + 1)
  <2>1. m \in Nat /\ m <= n
    BY <1>2
  <2>2. PICK g : IsFold(g, m, v, base, step, V)
    BY <1>2
  <2>. DEFINE h == [s \in SUBSET (1..m + 1) |->
                      IF m + 1 \in s THEN step[<<g[s \ {m + 1}], v[m + 1]>>] ELSE g[s]]
  <2>7. g \in [SUBSET (1..m) -> V]
    BY <2>2 DEF IsFold
  <2>3. \A s \in SUBSET (1..m + 1) : s \ {m + 1} \in SUBSET (1..m)
    BY <2>1
  <2>4. m + 1 \in 1..n
    BY <1>2, <2>1
  <2>5. ASSUME NEW s \in SUBSET (1..m + 1)
        PROVE  /\ h[s] \in V
               /\ s # {} => Max(s) \in s
               /\ h[s] = IF s = {} THEN base ELSE step[<<h[s \ {Max(s)}], v[Max(s)]>>]
    <3>1. CASE m + 1 \in s
      <4>1. Max(s) = m + 1
        <5>1. s \in SUBSET Int /\ \A y \in s : y <= m + 1
          BY <2>1
        <5>. QED
          BY <3>1, <5>1, MaxIs
      <4>2. s \ {m + 1} \in SUBSET (1..m + 1) /\ m + 1 \notin s \ {m + 1}
        OBVIOUS
      <4>3. h[s \ {m + 1}] = g[s \ {m + 1}]
        BY <4>2
      <4>4. h[s] = step[<<g[s \ {m + 1}], v[m + 1]>>]
        BY <3>1
      <4>5. g[s \ {m + 1}] \in V /\ v[m + 1] \in D
        BY <2>3, <2>4, <2>7
      <4>. QED
        BY <3>1, <4>1, <4>3, <4>4, <4>5
    <3>2. CASE m + 1 \notin s
      <4>1. s \in SUBSET (1..m)
        BY <2>3, <3>2
      <4>2. s \ {Max(s)} \in SUBSET (1..m + 1) /\ m + 1 \notin s \ {Max(s)}
        BY <3>2
      <4>3. h[s] = g[s] /\ h[s \ {Max(s)}] = g[s \ {Max(s)}]
        BY <3>2, <4>2
      <4>4. g[s] \in V
        BY <2>7, <4>1
      <4>. QED
        BY <2>2, <4>1, <4>3, <4>4 DEF IsFold
    <3>. QED
      BY <3>1, <3>2
  <2>6. h \in [SUBSET (1..m + 1) -> V]
    BY <2>5
  <2>. HIDE DEF h
  <2>8. IsFold(h, m + 1, v, base, step, V)
    BY <2>5, <2>6 DEF IsFold
  <2>. QED
    BY <2>8
<1>. HIDE DEF Exists
<1>3. ASSUME NEW m \in S
      PROVE  m + 1 \in S
  <2>1. m \in Nat /\ m + 1 \in Nat /\ (m + 1 <= n => m <= n)
    OBVIOUS
  <2>2. m + 1 <= n => Exists(m + 1)
    BY <1>2, <2>1
  <2>. QED
    BY <2>1, <2>2
<1>. HIDE DEF S
<1>4. S \subseteq Nat
  BY DEF S
<1>5. n \in S
  BY <1>1, <1>3, <1>4, NatSets
<1>6. Exists(n)
  BY <1>5 DEF S
<1>. QED
  BY <1>6 DEF Exists

\* What the fold f yields of the first values.
Steps(f, n) == [k \in 0..n |-> f[1..k]]

\* What a fold yields after each of the values v.
Accumulates(t, n, v, base, step, V) ==
  /\ t \in [0..n -> V]
  /\ t[0] = base
  /\ \A k \in 1..n : t[k] = step[<<t[k - 1], v[k]>>]

\* f folds the first indices as it should, as long as it stays in V.
FoldsPrefixes(f, n, v, base, step, V) ==
  /\ f[{}] = base
  /\ \A k \in 1..n : f[1..k - 1] \in V => f[1..k] = step[<<f[1..k - 1], v[k]>>]

\* A function that folds the first values is typed, and yields one value after the other.
LEMMA FoldSteps ==
  ASSUME NEW n \in Nat, NEW V, NEW D, NEW v \in [1..n -> D],
         NEW base \in V, NEW step \in [V \X D -> V],
         NEW f, FoldsPrefixes(f, n, v, base, step, V)
  PROVE  Accumulates(Steps(f, n), n, v, base, step, V)
<1>. DEFINE S == {k \in Nat : k <= n => f[1..k] \in V}
            t == [k \in 0..n |-> f[1..k]]
<1>. USE DEF FoldsPrefixes
<1>1. 1..0 = {}
  OBVIOUS
<1>2. 0 \in S
  BY <1>1
<1>3. ASSUME NEW k \in S PROVE k + 1 \in S
  <2>1. ASSUME k + 1 <= n PROVE f[1..k + 1] \in V
    <3>1. k + 1 \in 1..n /\ (k + 1) - 1 = k /\ f[1..k] \in V
      BY <2>1
    <3>2. v[k + 1] \in D /\ f[1..k + 1] = step[<<f[1..k], v[k + 1]>>]
      BY <3>1
    <3>. QED
      BY <3>1, <3>2
  <2>. QED
    BY <2>1
<1>4. S = Nat
  <2>1. S \subseteq Nat
    OBVIOUS
  <2>. HIDE DEF S
  <2>. QED
    BY <1>2, <1>3, <2>1, NatSets
<1>5. \A k \in 0..n : f[1..k] \in V
  <2>. SUFFICES ASSUME NEW k \in 0..n PROVE f[1..k] \in V
    OBVIOUS
  <2>1. k \in Nat /\ k <= n
    OBVIOUS
  <2>2. k \in S
    BY <1>4, <2>1, Zenon
  <2>. QED
    BY <2>1, <2>2
<1>6. t \in [0..n -> V]
  BY <1>5
<1>7. t[0] = base
  BY <1>1
<1>8. ASSUME NEW k \in 1..n PROVE t[k] = step[<<t[k - 1], v[k]>>]
  <2>1. k \in 0..n /\ k - 1 \in 0..n
    OBVIOUS
  <2>. QED
    BY <1>5, <2>1
<1>. QED
  BY <1>6, <1>7, <1>8 DEF Accumulates, Steps

\* The sets of the first indices, one index after the other.
LEMMA FirstIndices ==
  ASSUME NEW n \in Nat, NEW k \in 1..n
  PROVE  /\ 1..k \in SUBSET (1..n) /\ 1..k # {}
         /\ Max(1..k) = k /\ (1..k) \ {k} = 1..k - 1
<1>1. k \in Nat /\ k >= 1 /\ k <= n
  OBVIOUS
<1>2. 1..k \in SUBSET (1..n) /\ k \in 1..k
  BY <1>1
<1>3. (1..k) \ {k} = 1..k - 1
  BY <1>1
<1>4. 1..k \in SUBSET Int /\ \A y \in 1..k : y <= k
  BY <1>1
<1>5. Max(1..k) = k
  BY <1>2, <1>4, MaxIs
<1>. QED
  BY <1>2, <1>3, <1>5

\* What an addition that wraps around does to small numbers.
LEMMA WrapSmall ==
  ASSUME MaxInt \in Nat
  PROVE  /\ \A n \in Int : Wrap(n) \in Int
         /\ \A n \in 0..MaxInt : Wrap(n) = n
<1>1. ASSUME NEW n \in Int PROVE Wrap(n) \in Int
  BY DEF Wrap
<1>2. ASSUME NEW n \in 0..MaxInt PROVE Wrap(n) = n
  <2>1. n + MaxInt + 1 \in 0..2 * (MaxInt + 1) - 1
    OBVIOUS
  <2>2. (n + MaxInt + 1) % (2 * (MaxInt + 1)) = n + MaxInt + 1
    BY <2>1
  <2>. QED
    BY <2>2 DEF Wrap
<1>. QED
  BY <1>1, <1>2

\* Sum adds one value after the other.
LEMMA SumSteps ==
  ASSUME NEW values \in Seq(Int)
  PROVE  \E t \in [0..Len(values) -> Int] :
           /\ t[0] = 0
           /\ \A k \in 1..Len(values) : t[k] = t[k - 1] + values[k]
           /\ Sum(values) = t[Len(values)]
<1>. DEFINE n == Len(values)
            step == [p \in Int \X Int |-> p[1] + p[2]]
            f == CHOOSE g : g = [s \in SUBSET (1..n) |->
                                   IF s = {} THEN 0 ELSE g[s \ {Max(s)}] + values[Max(s)]]
<1>1. n \in Nat /\ values \in [1..n -> Int] /\ DOMAIN values = 1..n
  BY LenProperties
<1>2. Sum(values) = f[1..n]
  BY <1>1 DEF Sum, FoldLeft, MapThenFoldSet
<1>3. 0 \in Int
  OBVIOUS
<1>4. step \in [Int \X Int -> Int] /\ \A a \in Int, b \in Int : step[<<a, b>>] = a + b
  OBVIOUS
<1>. HIDE DEF n, step
<1>5. PICK g : IsFold(g, n, values, 0, step, Int)
  BY <1>1, <1>3, <1>4, FoldExists, Zenon
<1>6. g \in [SUBSET (1..n) -> Int]
  BY <1>5 DEF IsFold
<1>7. \A s \in SUBSET (1..n) : g[s] = IF s = {} THEN 0 ELSE g[s \ {Max(s)}] + values[Max(s)]
  <2>. SUFFICES ASSUME NEW s \in SUBSET (1..n), s # {}
                PROVE  g[s] = g[s \ {Max(s)}] + values[Max(s)]
    BY <1>5 DEF IsFold
  <2>1. Max(s) \in 1..n /\ g[s] = step[<<g[s \ {Max(s)}], values[Max(s)]>>]
    BY <1>5 DEF IsFold
  <2>2. g[s \ {Max(s)}] \in Int /\ values[Max(s)] \in Int
    BY <1>1, <1>6, <2>1
  <2>. QED
    BY <1>4, <2>1, <2>2
<1>8. g = [s \in SUBSET (1..n) |-> IF s = {} THEN 0 ELSE g[s \ {Max(s)}] + values[Max(s)]]
  BY <1>6, <1>7
<1>9. f = [s \in SUBSET (1..n) |-> IF s = {} THEN 0 ELSE f[s \ {Max(s)}] + values[Max(s)]]
  BY <1>8
<1>. HIDE DEF f
<1>10. f[{}] = 0
  BY <1>9
<1>11. ASSUME NEW k \in 1..n, f[1..k - 1] \in Int PROVE f[1..k] = step[<<f[1..k - 1], values[k]>>]
  <2>1. /\ 1..k \in SUBSET (1..n) /\ 1..k # {}
        /\ Max(1..k) = k /\ (1..k) \ {k} = 1..k - 1
    BY <1>1, FirstIndices
  <2>2. f[1..k] = f[1..k - 1] + values[k]
    BY <1>9, <2>1
  <2>3. values[k] \in Int
    BY <1>1
  <2>. QED
    BY <1>4, <1>11, <2>2, <2>3
<1>. DEFINE t == Steps(f, n)
<1>12. Accumulates(t, n, values, 0, step, Int)
  <2>1. FoldsPrefixes(f, n, values, 0, step, Int)
    BY <1>10, <1>11 DEF FoldsPrefixes
  <2>2. n \in Nat /\ values \in [1..n -> Int] /\ step \in [Int \X Int -> Int]
    BY <1>1, <1>4
  <2>. QED
    BY <1>3, <2>1, <2>2, FoldSteps, Zenon
<1>16. t[n] = f[1..n]
  <2>1. n \in 0..n
    BY <1>1
  <2>. QED
    BY <2>1 DEF Steps
<1>. HIDE DEF t
<1>13. ASSUME NEW k \in 1..n PROVE t[k] = t[k - 1] + values[k]
  <2>1. k - 1 \in 0..n /\ values[k] \in Int
    BY <1>1
  <2>2. t \in [0..n -> Int] /\ t[k] = step[<<t[k - 1], values[k]>>]
    BY <1>12 DEF Accumulates
  <2>3. t[k - 1] \in Int
    BY <2>1, <2>2
  <2>. QED
    BY <1>4, <2>1, <2>2, <2>3
<1>14. t \in [0..n -> Int] /\ t[0] = 0
  BY <1>12 DEF Accumulates
<1>15. Sum(values) = t[n]
  BY <1>2, <1>16
<1>. QED
  BY <1>13, <1>14, <1>15 DEF n

\* So do the loops of the rules, in integers that wrap around.
LEMMA TotalSteps ==
  ASSUME NEW values \in Seq(Int), NEW first \in Int, MaxInt \in Nat
  PROVE  \E t \in [0..Len(values) -> Int] :
           /\ t[0] = first
           /\ \A k \in 1..Len(values) : t[k] = Wrap(t[k - 1] + values[k])
           /\ Total(first, values) = t[Len(values)]
<1>. DEFINE n == Len(values)
            step == [p \in Int \X Int |-> Wrap(p[1] + p[2])]
            f == CHOOSE g : g = [s \in SUBSET (1..n) |->
                                   IF s = {} THEN first ELSE Wrap(g[s \ {Max(s)}] + values[Max(s)])]
<1>1. n \in Nat /\ values \in [1..n -> Int] /\ DOMAIN values = 1..n
  BY LenProperties
<1>2. Total(first, values) = f[1..n]
  BY <1>1 DEF Total, FoldLeft, MapThenFoldSet
<1>3. first \in Int
  OBVIOUS
<1>4. step \in [Int \X Int -> Int] /\ \A a \in Int, b \in Int : step[<<a, b>>] = Wrap(a + b)
  <2>1. \A a, b \in Int : Wrap(a + b) \in Int
    BY WrapSmall
  <2>. QED
    BY <2>1
<1>. HIDE DEF n, step
<1>5. PICK g : IsFold(g, n, values, first, step, Int)
  BY <1>1, <1>3, <1>4, FoldExists, Zenon
<1>6. g \in [SUBSET (1..n) -> Int]
  BY <1>5 DEF IsFold
<1>7. \A s \in SUBSET (1..n) : g[s] = IF s = {} THEN first ELSE Wrap(g[s \ {Max(s)}] + values[Max(s)])
  <2>. SUFFICES ASSUME NEW s \in SUBSET (1..n), s # {}
                PROVE  g[s] = Wrap(g[s \ {Max(s)}] + values[Max(s)])
    BY <1>5 DEF IsFold
  <2>1. Max(s) \in 1..n /\ g[s] = step[<<g[s \ {Max(s)}], values[Max(s)]>>]
    BY <1>5 DEF IsFold
  <2>2. g[s \ {Max(s)}] \in Int /\ values[Max(s)] \in Int
    BY <1>1, <1>6, <2>1
  <2>. QED
    BY <1>4, <2>1, <2>2
<1>8. g = [s \in SUBSET (1..n) |-> IF s = {} THEN first ELSE Wrap(g[s \ {Max(s)}] + values[Max(s)])]
  BY <1>6, <1>7
<1>9. f = [s \in SUBSET (1..n) |-> IF s = {} THEN first ELSE Wrap(f[s \ {Max(s)}] + values[Max(s)])]
  BY <1>8
<1>. HIDE DEF f
<1>10. f[{}] = first
  BY <1>9
<1>11. ASSUME NEW k \in 1..n, f[1..k - 1] \in Int PROVE f[1..k] = step[<<f[1..k - 1], values[k]>>]
  <2>1. /\ 1..k \in SUBSET (1..n) /\ 1..k # {}
        /\ Max(1..k) = k /\ (1..k) \ {k} = 1..k - 1
    BY <1>1, FirstIndices
  <2>2. f[1..k] = Wrap(f[1..k - 1] + values[k])
    BY <1>9, <2>1
  <2>3. values[k] \in Int
    BY <1>1
  <2>. QED
    BY <1>4, <1>11, <2>2, <2>3
<1>. DEFINE t == Steps(f, n)
<1>12. Accumulates(t, n, values, first, step, Int)
  <2>1. FoldsPrefixes(f, n, values, first, step, Int)
    BY <1>10, <1>11 DEF FoldsPrefixes
  <2>2. n \in Nat /\ values \in [1..n -> Int] /\ step \in [Int \X Int -> Int]
    BY <1>1, <1>4
  <2>. QED
    BY <1>3, <2>1, <2>2, FoldSteps, Zenon
<1>16. t[n] = f[1..n]
  <2>1. n \in 0..n
    BY <1>1
  <2>. QED
    BY <2>1 DEF Steps
<1>. HIDE DEF t
<1>13. ASSUME NEW k \in 1..n PROVE t[k] = Wrap(t[k - 1] + values[k])
  <2>1. k - 1 \in 0..n /\ values[k] \in Int
    BY <1>1
  <2>2. t \in [0..n -> Int] /\ t[k] = step[<<t[k - 1], values[k]>>]
    BY <1>12 DEF Accumulates
  <2>3. t[k - 1] \in Int
    BY <2>1, <2>2
  <2>. QED
    BY <1>4, <2>1, <2>2, <2>3
<1>14. t \in [0..n -> Int] /\ t[0] = first
  BY <1>12 DEF Accumulates
<1>15. Total(first, values) = t[n]
  BY <1>2, <1>16
<1>. QED
  BY <1>13, <1>14, <1>15 DEF n

\* A number is its remainder and a multiple.
LEMMA Division ==
  ASSUME NEW a \in Int, NEW m \in Nat \ {0}
  PROVE  a % m \in 0..m - 1 /\ \E q \in Int : a = m * q + (a % m)
<1>1. a = m * (a \div m) + (a % m) /\ (a \div m) \in Int
  OBVIOUS
<1>2. a % m \in 0..m - 1
  OBVIOUS
<1>. QED
  BY <1>1, <1>2, Zenon

\* The only multiple of m that is closer to zero than m is zero.
LEMMA SmallMultiple ==
  ASSUME NEW k \in Int, NEW m \in Nat \ {0}, NEW d \in Int, d = m * k, d < m, -m < d
  PROVE  d = 0
<1>1. CASE k >= 1
  <2>1. m * k >= m
    BY <1>1
  <2>. QED
    BY <2>1
<1>2. CASE k <= -1
  <2>1. m * k <= -m
    BY <1>2
  <2>. QED
    BY <2>1
<1>3. CASE k = 0
  BY <1>3
<1>. QED
  BY <1>1, <1>2, <1>3

\* Adding first and taking the remainder later makes no difference.
LEMMA ModAdds ==
  ASSUME NEW a \in Int, NEW b \in Int, NEW m \in Nat \ {0}
  PROVE  ((a % m) + b) % m = (a + b) % m
<1>. DEFINE r == a % m
            x == (r + b) % m
            y == (a + b) % m
<1>1. r \in 0..m - 1 /\ r + b \in Int /\ a + b \in Int
  BY Division
<1>2. x \in 0..m - 1 /\ y \in 0..m - 1
  BY <1>1, Division
<1>3. PICK q \in Int : a = m * q + r
  BY Division
<1>4. PICK i \in Int : r + b = m * i + x
  BY <1>1, Division
<1>5. PICK j \in Int : a + b = m * j + y
  BY <1>1, Division
<1>. HIDE DEF r, x, y
<1>6. x - y = m * j - m * i - m * q
  <2>1. m * j \in Int /\ m * i \in Int /\ m * q \in Int
    OBVIOUS
  <2>. QED
    BY <1>1, <1>2, <1>3, <1>4, <1>5, <2>1
<1>7. m * j - m * i - m * q = m * (j - i - q)
  OBVIOUS
<1>8. x - y = 0
  <2>1. x - y \in Int /\ x - y < m /\ -m < x - y /\ j - i - q \in Int
    BY <1>2
  <2>. QED
    BY <1>6, <1>7, <2>1, SmallMultiple
<1>9. x = y
  BY <1>2, <1>8
<1>. QED
  BY <1>9 DEF r, x, y

\* Nor does wrapping around between two additions.
LEMMA WrapAdds ==
  ASSUME NEW a \in Int, NEW b \in Int, MaxInt \in Nat
  PROVE  Wrap(Wrap(a) + b) = Wrap(a + b)
<1>. DEFINE h == MaxInt + 1
            m == 2 * h
<1>1. m \in Nat \ {0} /\ h \in Nat
  OBVIOUS
<1>2. Wrap(a) = ((a + h) % m) - h /\ Wrap(a + b) = ((a + b + h) % m) - h
  BY DEF Wrap
<1>3. Wrap(Wrap(a) + b) = ((Wrap(a) + b + h) % m) - h
  BY DEF Wrap
<1>4. Wrap(a) + b + h = ((a + h) % m) + b /\ a + h \in Int
  BY <1>1, <1>2
<1>. HIDE DEF m, h
<1>5. (((a + h) % m) + b) % m = ((a + h) + b) % m
  BY <1>1, <1>4, ModAdds
<1>6. (a + h) + b = a + b + h
  BY <1>1
<1>. QED
  BY <1>2, <1>3, <1>4, <1>5, <1>6

\* An addition of natural numbers that wraps around at every step ends where the true
\* sum, wrapped around once, ends: nothing but the sum decides.
LEMMA WrapsAsOne ==
  ASSUME NEW n \in Nat, NEW v \in [1..n -> Nat], MaxInt \in Nat,
         NEW s \in [0..n -> Int], s[0] \in Nat, \A k \in 1..n : s[k] = s[k - 1] + v[k],
         NEW t \in [0..n -> Int], t[0] = Wrap(s[0]), \A k \in 1..n : t[k] = Wrap(t[k - 1] + v[k])
  PROVE  t[n] = Wrap(s[n]) /\ s[n] \in Nat
<1>. DEFINE Up(k) == k <= n => s[k] \in Nat /\ t[k] = Wrap(s[k])
            U == {k \in Nat : Up(k)}
<1>1. U = Nat
  <2>1. 0 \in U
    OBVIOUS
  <2>2. ASSUME NEW k \in U PROVE k + 1 \in U
    <3>1. ASSUME k + 1 <= n PROVE s[k + 1] \in Nat /\ t[k + 1] = Wrap(s[k + 1])
      <4>1. k + 1 \in 1..n /\ k <= n /\ (k + 1) - 1 = k
        BY <3>1
      <4>2. s[k + 1] = s[k] + v[k + 1] /\ v[k + 1] \in Nat /\ s[k] \in Nat
        BY <4>1
      <4>3. t[k + 1] = Wrap(t[k] + v[k + 1]) /\ t[k] = Wrap(s[k])
        BY <4>1
      <4>4. Wrap(Wrap(s[k]) + v[k + 1]) = Wrap(s[k] + v[k + 1])
        <5>1. s[k] \in Int
          BY <4>2
        <5>2. v[k + 1] \in Int
          BY <4>2
        <5>. QED
          BY <5>1, <5>2, WrapAdds, Zenon
      <4>5. t[k + 1] = Wrap(s[k + 1])
        <5>1. t[k + 1] = Wrap(Wrap(s[k]) + v[k + 1])
          BY <4>3
        <5>2. Wrap(s[k + 1]) = Wrap(s[k] + v[k + 1])
          BY <4>2
        <5>. QED
          BY <5>1, <5>2, <4>4
      <4>6. s[k + 1] \in Nat
        BY <4>2
      <4>. QED
        BY <4>5, <4>6
    <3>. QED
      BY <3>1
  <2>3. U \subseteq Nat
    OBVIOUS
  <2>. HIDE DEF U
  <2>. QED
    BY <2>1, <2>2, <2>3, NatSets
<1>2. n \in U
  BY <1>1, Zenon
<1>. QED
  BY <1>2

\* A sum whose wrapped value is within a limit is within it, or beyond the integers.
LEMMA WrappedWithin ==
  ASSUME NEW values, Sum(values) \in Nat, NEW limit, MaxInt \in Nat, Wrap(Sum(values)) <= limit
  PROVE  Fits(values, limit)
<1>1. CASE Sum(values) <= MaxInt
  <2>1. Wrap(Sum(values)) = Sum(values)
    BY <1>1, WrapSmall
  <2>. QED
    BY <2>1 DEF Fits
<1>2. CASE ~(Sum(values) <= MaxInt)
  <2>1. Sum(values) > MaxInt
    BY <1>2
  <2>. QED
    BY <2>1 DEF Fits
<1>. QED
  BY <1>1, <1>2

\* Costs the rule of the budget accepts.
LEMMA LinesFit ==
  ASSUME NEW lines \in Seq(Int), MaxInt \in Nat,
         \A i \in DOMAIN lines : lines[i] >= 0, Total(0, lines) <= Budget
  PROVE  Fits(lines, Budget)
<1>. DEFINE n == Len(lines)
<1>1. n \in Nat /\ lines \in [1..n -> Int] /\ DOMAIN lines = 1..n
  BY LenProperties
<1>2. lines \in [1..n -> Nat]
  BY <1>1
<1>3. PICK s \in [0..n -> Int] : /\ s[0] = 0
                                 /\ \A k \in 1..n : s[k] = s[k - 1] + lines[k]
                                 /\ Sum(lines) = s[n]
  BY SumSteps
<1>4. PICK t \in [0..n -> Int] : /\ t[0] = 0
                                 /\ \A k \in 1..n : t[k] = Wrap(t[k - 1] + lines[k])
                                 /\ Total(0, lines) = t[n]
  BY TotalSteps
<1>. HIDE DEF n
<1>5. Wrap(0) = 0
  BY WrapSmall
<1>6. t[n] = Wrap(s[n]) /\ s[n] \in Nat
  <2>1. s[0] \in Nat /\ t[0] = Wrap(s[0])
    BY <1>3, <1>4, <1>5
  <2>. QED
    BY <1>1, <1>2, <1>3, <1>4, <2>1, WrapsAsOne
<1>. QED
  BY <1>3, <1>4, <1>6, WrappedWithin

\* Loads the rule of the vessel accepts for one more on board.
LEMMA LoadFits ==
  ASSUME NEW load \in Seq(Int), MaxInt \in Nat,
         \A i \in DOMAIN load : load[i] >= 0, Total(Wrap(0 + 1), load) <= VesselCapacity
  PROVE  Fits(<<1>> \o load, VesselCapacity)
<1>. DEFINE n == Len(load)
            all == <<1>> \o load
<1>1. n \in Nat /\ load \in [1..n -> Int] /\ DOMAIN load = 1..n
  BY LenProperties
<1>2. load \in [1..n -> Nat]
  BY <1>1
<1>3. /\ all \in Seq(Int) /\ Len(all) = n + 1
      /\ all[1] = 1 /\ \A k \in 1..n : all[k + 1] = load[k]
  <2>1. <<1>> \in Seq(Int) /\ Len(<<1>>) = 1 /\ <<1>>[1] = 1
    OBVIOUS
  <2>2. /\ all \in Seq(Int) /\ Len(all) = 1 + n
        /\ \A i \in 1..1 + n : all[i] = IF i <= 1 THEN <<1>>[i] ELSE load[i - 1]
    BY <2>1, ConcatProperties
  <2>. HIDE DEF all
  <2>3. all[1] = 1
    BY <1>1, <2>1, <2>2
  <2>4. ASSUME NEW k \in 1..n PROVE all[k + 1] = load[k]
    <3>1. k + 1 \in 1..1 + n /\ ~ (k + 1 <= 1) /\ (k + 1) - 1 = k
      BY <1>1
    <3>2. all[k + 1] = load[(k + 1) - 1]
      BY <2>2, <3>1
    <3>. QED
      BY <3>1, <3>2
  <2>. QED
    BY <1>1, <2>2, <2>3, <2>4
<1>. HIDE DEF all
<1>4. PICK s \in [0..n + 1 -> Int] : /\ s[0] = 0
                                     /\ \A k \in 1..n + 1 : s[k] = s[k - 1] + all[k]
                                     /\ Sum(all) = s[n + 1]
  BY <1>3, SumSteps
<1>5. Wrap(0 + 1) \in Int
  BY WrapSmall
<1>6. PICK t \in [0..n -> Int] : /\ t[0] = Wrap(0 + 1)
                                 /\ \A k \in 1..n : t[k] = Wrap(t[k - 1] + load[k])
                                 /\ Total(Wrap(0 + 1), load) = t[n]
  BY <1>5, TotalSteps
<1>. HIDE DEF n
<1>. DEFINE r == [k \in 0..n |-> s[k + 1]]
<1>7. r \in [0..n -> Int]
  BY <1>1
<1>8. r[0] = 1
  <2>1. 1 \in 1..n + 1 /\ 0 \in 0..n
    BY <1>1
  <2>2. s[1] = s[0] + all[1]
    BY <1>4, <2>1
  <2>. QED
    BY <1>3, <1>4, <2>1, <2>2
<1>9. ASSUME NEW k \in 1..n PROVE r[k] = r[k - 1] + load[k]
  <2>1. k + 1 \in 1..n + 1 /\ k \in 0..n /\ k - 1 \in 0..n /\ (k + 1) - 1 = k /\ (k - 1) + 1 = k
    BY <1>1
  <2>2. s[k + 1] = s[k] + all[k + 1]
    BY <1>4, <2>1
  <2>. QED
    BY <1>3, <2>1, <2>2
<1>10. r[n] = Sum(all)
  <2>1. n \in 0..n
    BY <1>1
  <2>. QED
    BY <1>4, <2>1
<1>. HIDE DEF r
<1>11. t[n] = Wrap(r[n]) /\ r[n] \in Nat
  <2>1. r[0] \in Nat /\ t[0] = Wrap(r[0])
    BY <1>6, <1>8
  <2>. QED
    BY <1>1, <1>2, <1>6, <1>7, <1>9, <2>1, WrapsAsOne
<1>12. Fits(all, VesselCapacity)
  BY <1>6, <1>10, <1>11, WrappedWithin
<1>. QED
  BY <1>12 DEF all

\* A campaign whose costs were accepted and a dispatch whose load was accepted keep
\* them.
LEMMA SumsStep ==
  ASSUME TypeOK, SumsFit, [Next]_vars
  PROVE  SumsFit'
<1>. DEFINE Costs(x) == x # None => Fits(x, Budget)
            Load(x) == x # None => Fits(<<1>> \o x, VesselCapacity)
<1>1. MaxInt \in Nat /\ Lines \subseteq Seq(Int) /\ Manifests \subseteq Seq(Int)
  BY WorkflowAssumption
<1>2. SumsFit <=> \A c \in Campaigns : Costs(costs[c]) /\ Load(dispatch[c].load)
  BY DEF SumsFit
<1>3. SumsFit' <=> \A c \in Campaigns : Costs(costs'[c]) /\ Load(dispatch'[c].load)
  BY DEF SumsFit, Fits
<1>4. costs \in [Campaigns -> Lines \cup {None}] /\ dispatch \in [Campaigns -> Dispatch]
  BY DEF TypeOK
<1>5. SUFFICES \A d \in Campaigns : Costs(costs'[d]) /\ Load(dispatch'[d].load)
  BY <1>3
<1>6. \A d \in Campaigns : Costs(costs[d]) /\ Load(dispatch[d].load)
  BY <1>2
<1>. HIDE DEF Costs, Load
<1>7. ASSUME NEW c \in Campaigns, NEW lines \in Lines, Approve(c, lines)
      PROVE  \A d \in Campaigns : Costs(costs'[d]) /\ Load(dispatch'[d].load)
  <2>1. /\ CampaignFitsBudget([Budget |-> Budget, Cost |-> 0, Values |-> lines])
        /\ costs' = [costs EXCEPT ![c] = lines] /\ UNCHANGED field
    BY <1>7 DEF Approve
  <2>2. (\A i \in DOMAIN lines : lines[i] >= 0) /\ Total(0, lines) <= Budget
    BY <2>1 DEF CampaignFitsBudget
  <2>3. Costs(lines)
    BY <1>1, <2>2, LinesFit DEF Costs
  <2>4. \A d \in Campaigns : costs'[d] = IF d = c THEN lines ELSE costs[d]
    BY <1>4, <2>1
  <2>5. dispatch' = dispatch
    BY <2>1 DEF field
  <2>. QED
    BY <1>6, <2>3, <2>4, <2>5
<1>8. ASSUME NEW c \in Campaigns, NEW load \in Manifests, Reserve(c, load)
      PROVE  \A d \in Campaigns : Costs(costs'[d]) /\ Load(dispatch'[d].load)
  <2>. DEFINE taken == [status |-> "reserved", load |-> load]
  <2>1. /\ DispatchFitsVessel([Capacity |-> VesselCapacity, Used |-> 0, Requested |-> 1, Values |-> load])
        /\ dispatch' = [dispatch EXCEPT ![c] = taken] /\ UNCHANGED planning
    BY <1>8 DEF Reserve
  <2>2. (\A i \in DOMAIN load : load[i] >= 0) /\ Total(Wrap(0 + 1), load) <= VesselCapacity
    BY <2>1 DEF DispatchFitsVessel
  <2>3. Load(load)
    BY <1>1, <2>2, LoadFits DEF Load
  <2>4. taken.load = load
    OBVIOUS
  <2>. HIDE DEF taken
  <2>5. \A d \in Campaigns : dispatch'[d] = IF d = c THEN taken ELSE dispatch[d]
    BY <1>4, <2>1
  <2>6. costs' = costs
    BY <2>1 DEF planning
  <2>. QED
    BY <1>6, <2>3, <2>4, <2>5, <2>6
<1>9. ASSUME costs' = costs, \A d \in Campaigns : dispatch'[d].load = dispatch[d].load
      PROVE  \A d \in Campaigns : Costs(costs'[d]) /\ Load(dispatch'[d].load)
  BY <1>6, <1>9
<1>10. ASSUME NEW c \in Campaigns, Depart(c) \/ Release(c)
       PROVE  costs' = costs /\ \A d \in Campaigns : dispatch'[d].load = dispatch[d].load
  <2>1. costs' = costs
    BY <1>10 DEF Depart, Release, planning
  <2>2. PICK s : dispatch' = [dispatch EXCEPT ![c].status = s]
    BY <1>10 DEF Depart, Release
  <2>. DEFINE moved == [dispatch[c] EXCEPT !.status = s]
  <2>3. moved.load = dispatch[c].load
    BY <1>4 DEF Dispatch
  <2>4. dispatch' = [dispatch EXCEPT ![c] = moved]
    BY <2>2
  <2>. HIDE DEF moved
  <2>5. \A d \in Campaigns : dispatch'[d] = IF d = c THEN moved ELSE dispatch[d]
    BY <1>4, <2>4
  <2>. QED
    BY <2>1, <2>3, <2>5
<1>11. ASSUME NEW c \in Campaigns,
              \/ \E i \in Windows, f \in Forecasts : Confirm(c, i, f)
              \/ \E i \in Shifts : AssignCrew(c, i)
              \/ \E n \in Requests : Book(c, n)
              \/ \E expiry \in Times \cup {NoTime} : Grant(c, expiry)
              \/ Submit(c) \/ StartWork(c)
              \/ \E suspended \in BOOLEAN : Activate(c, suspended)
              \/ FinishWork(c) \/ \E sum \in Checksums : Register(c, sum)
              \/ CompleteWork(c) \/ ClosePermit(c)
              \/ \E price \in Prices : CloseCampaign(c, price)
       PROVE  costs' = costs /\ dispatch' = dispatch
  BY <1>11 DEF Confirm, AssignCrew, Book, Grant, Submit, StartWork, Activate, FinishWork, Register,
               CompleteWork, ClosePermit, CloseCampaign, planning, field
<1>12. Elapse \/ UNCHANGED vars => costs' = costs /\ dispatch' = dispatch
  BY DEF Elapse, vars, planning, field
<1>. QED
  BY <1>7, <1>8, <1>9, <1>10, <1>11, <1>12 DEF Next

\* What the rules on budgets and on the vessel accept has a sum within the limit, or one
\* beyond int64 that wraps around to a value within it, for lists of any length.  The
\* second case is real: the rules accept such lists.  But wrapping at every addition
\* lets nothing else through, whatever the order of the lines.
THEOREM SumsAlwaysFit == Spec => []SumsFit
<1>1. Init => SumsFit
  BY DEF Init, SumsFit, Fits
<1>2. TypeOK /\ SumsFit /\ [Next]_vars => SumsFit'
  BY SumsStep
<1>. QED
  BY <1>1, <1>2, TypeCorrect, PTL DEF Spec
-----------------------------------------------------------------------------
(***************************************************************************)
(* The order DispatchPriorityIsStable answers in.  Ids are numbers here:   *)
(* all that is used of them is their order.                                *)
(***************************************************************************)
Queued == [value : Int, id : Int]

\* x may stand before y.
InOrder(x, y) == x.value > y.value \/ (x.value = y.value /\ x.id <= y.id)

Sorted(queue) == \A i, j \in DOMAIN queue : i < j => InOrder(queue[i], queue[j])

\* The queue holds the first n of the given dispatches, each of them once.
Arranges(queue, given, n) ==
  /\ queue \in Seq(Queued) /\ Len(queue) = n
  /\ \E p \in [1..n -> 1..n] :
       /\ \A i, j \in 1..n : p[i] = p[j] => i = j
       /\ \A k \in 1..n : \E i \in 1..n : p[i] = k
       /\ \A i \in 1..n : queue[i] = given[p[i]]

\* queue is what x makes of the sorted dispatches behind the first at of them.
Places(queue, sorted, x, at) ==
  /\ at \in 0..Len(sorted)
  /\ queue \in Seq(Queued) /\ Len(queue) = Len(sorted) + 1
  /\ \A i \in 1..Len(sorted) + 1 :
       queue[i] = IF i <= at THEN sorted[i] ELSE IF i = at + 1 THEN x ELSE sorted[i - 1]
  /\ at # 0 => ~ Precedes(x, sorted[at])
  /\ \A k \in 1..Len(sorted) : k > at => Precedes(x, sorted[k])

\* Some indices have a greatest one.
LEMMA GreatestIndex ==
  ASSUME NEW n \in Nat, NEW s \in SUBSET (1..n), s # {}
  PROVE  Max(s) \in s /\ \A y \in s : y <= Max(s)
<1>. DEFINE Has(r) == r # {} => \E m \in r : \A y \in r : y <= m
            S == {k \in Nat : \A r \in SUBSET (1..k) : Has(r)}
<1>1. 0 \in S
  <2>1. \A r \in SUBSET (1..0) : r = {}
    OBVIOUS
  <2>. QED
    BY <2>1
<1>2. ASSUME NEW k \in S PROVE k + 1 \in S
  <2>. SUFFICES ASSUME NEW r \in SUBSET (1..k + 1) PROVE Has(r)
    OBVIOUS
  <2>1. CASE k + 1 \in r
    BY <2>1
  <2>2. CASE k + 1 \notin r
    <3>1. r \in SUBSET (1..k)
      BY <2>2
    <3>. QED
      BY <3>1
  <2>. QED
    BY <2>1, <2>2
<1>3. S = Nat
  <2>1. S \subseteq Nat
    OBVIOUS
  <2>. HIDE DEF S
  <2>. QED
    BY <1>1, <1>2, <2>1, NatSets
<1>4. PICK m \in s : \A y \in s : y <= m
  BY <1>3
<1>5. s \in SUBSET Int
  OBVIOUS
<1>6. Max(s) = m
  BY <1>4, <1>5, MaxIs
<1>. QED
  BY <1>4, <1>6

\* The inner loop of the rule puts a dispatch behind the last one it does not precede.
LEMMA InsertPlaces ==
  ASSUME NEW sorted \in Seq(Queued), NEW x \in Queued
  PROVE  \E at : Places(Insert(sorted, x), sorted, x, at)
<1>. DEFINE n == Len(sorted)
            stays == {k \in DOMAIN sorted : ~ Precedes(x, sorted[k])}
            at == IF stays = {} THEN 0 ELSE Max(stays)
            before == SubSeq(sorted, 1, at)
            after == SubSeq(sorted, at + 1, n)
<1>1. n \in Nat /\ DOMAIN sorted = 1..n /\ \A k \in 1..n : sorted[k] \in Queued
  BY LenProperties
<1>2. stays \in SUBSET (1..n)
  BY <1>1
<1>15. /\ \A k \in stays : ~ Precedes(x, sorted[k])
       /\ \A k \in 1..n : k \notin stays => Precedes(x, sorted[k])
  BY <1>1 DEF Precedes
<1>16. Insert(sorted, x) = before \o <<x>> \o after
  BY DEF Insert
<1>. HIDE DEF stays, n
<1>3. /\ at \in 0..n
      /\ at # 0 => at \in stays
      /\ \A k \in stays : k <= at
  <2>1. CASE stays = {}
    BY <1>1, <2>1
  <2>2. CASE stays # {}
    <3>1. Max(stays) \in stays /\ \A y \in stays : y <= Max(stays)
      BY <1>1, <1>2, <2>2, GreatestIndex
    <3>2. at = Max(stays)
      BY <2>2
    <3>. HIDE DEF at
    <3>3. at \in stays /\ \A k \in stays : k <= at
      BY <3>1, <3>2
    <3>4. at \in 1..n
      BY <1>2, <3>3
    <3>5. at \in 0..n
      BY <1>1, <3>4
    <3>. QED
      BY <3>3, <3>5
  <2>. QED
    BY <2>1, <2>2
<1>4. at # 0 => ~ Precedes(x, sorted[at])
  BY <1>3, <1>15
<1>5. \A k \in 1..n : k > at => Precedes(x, sorted[k])
  <2>. SUFFICES ASSUME NEW k \in 1..n, k > at PROVE Precedes(x, sorted[k])
    OBVIOUS
  <2>1. k \notin stays
    BY <1>1, <1>3
  <2>. QED
    BY <1>15, <2>1
<1>. HIDE DEF at
<1>7. /\ before \in Seq(Queued) /\ Len(before) = at
      /\ \A i \in 1..at : before[i] = sorted[i]
  BY <1>1, <1>3, SubSeqProperties
<1>8. /\ after \in Seq(Queued) /\ Len(after) = n - at
      /\ \A i \in 1..n - at : after[i] = sorted[at + i]
  <2>1. at + 1 \in Int /\ n \in Int /\ \A i \in at + 1..n : sorted[i] \in Queued
    BY <1>1, <1>3
  <2>2. /\ after \in Seq(Queued) /\ Len(after) = IF at + 1 <= n THEN n - (at + 1) + 1 ELSE 0
        /\ \A i \in 1..n - (at + 1) + 1 : after[i] = sorted[(at + 1) + i - 1]
    BY <2>1, SubSeqProperties
  <2>. HIDE DEF after
  <2>3. n - (at + 1) + 1 = n - at /\ (IF at + 1 <= n THEN n - (at + 1) + 1 ELSE 0) = n - at
    BY <1>1, <1>3
  <2>4. \A i \in 1..n - at : (at + 1) + i - 1 = at + i
    BY <1>1, <1>3
  <2>. QED
    BY <2>2, <2>3, <2>4
<1>9. <<x>> \in Seq(Queued) /\ Len(<<x>>) = 1 /\ <<x>>[1] = x
  OBVIOUS
<1>. HIDE DEF before, after
<1>10. /\ before \o <<x>> \in Seq(Queued) /\ Len(before \o <<x>>) = at + 1
       /\ \A i \in 1..at + 1 : (before \o <<x>>)[i] = IF i <= at THEN before[i] ELSE <<x>>[i - at]
  BY <1>7, <1>9, ConcatProperties
<1>. DEFINE front == before \o <<x>>
<1>. HIDE DEF front
<1>11. /\ front \in Seq(Queued) /\ Len(front) = at + 1
       /\ \A i \in 1..at : front[i] = sorted[i]
       /\ front[at + 1] = x
  <2>1. at + 1 \in 1..at + 1 /\ ~ (at + 1 <= at) /\ (at + 1) - at = 1
    BY <1>1, <1>3
  <2>2. \A i \in 1..at : i \in 1..at + 1 /\ i <= at
    BY <1>1, <1>3
  <2>. QED
    BY <1>7, <1>9, <1>10, <2>1, <2>2 DEF front
<1>12. /\ front \o after \in Seq(Queued) /\ Len(front \o after) = (at + 1) + (n - at)
       /\ \A i \in 1..(at + 1) + (n - at) :
            (front \o after)[i] = IF i <= at + 1 THEN front[i] ELSE after[i - (at + 1)]
  <2>1. /\ front \o after \in Seq(Queued) /\ Len(front \o after) = Len(front) + Len(after)
        /\ \A i \in 1..Len(front) + Len(after) :
             (front \o after)[i] = IF i <= Len(front) THEN front[i] ELSE after[i - Len(front)]
    BY <1>8, <1>11, ConcatProperties
  <2>2. Len(front) = at + 1 /\ Len(after) = n - at
    BY <1>8, <1>11
  <2>. QED
    BY <2>1, <2>2
<1>13. /\ front \o after \in Seq(Queued) /\ Len(front \o after) = n + 1
       /\ \A i \in 1..n + 1 : (front \o after)[i] =
            IF i <= at THEN sorted[i] ELSE IF i = at + 1 THEN x ELSE sorted[i - 1]
  <2>1. (at + 1) + (n - at) = n + 1
    BY <1>1, <1>3
  <2>2. ASSUME NEW i \in 1..n + 1, i > at + 1 PROVE after[i - (at + 1)] = sorted[i - 1]
    <3>1. i - (at + 1) \in 1..n - at /\ at + (i - (at + 1)) = i - 1
      BY <1>1, <1>3, <2>2
    <3>. QED
      BY <1>8, <3>1
  <2>3. front \o after \in Seq(Queued) /\ Len(front \o after) = n + 1
    BY <1>12, <2>1
  <2>4. ASSUME NEW i \in 1..n + 1
        PROVE  (front \o after)[i] =
                 IF i <= at THEN sorted[i] ELSE IF i = at + 1 THEN x ELSE sorted[i - 1]
    <3>1. (front \o after)[i] = IF i <= at + 1 THEN front[i] ELSE after[i - (at + 1)]
      BY <1>12, <2>1
    <3>2. i \in Int /\ i >= 1 /\ at \in Int
      BY <1>1, <1>3
    <3>3. CASE i <= at
      BY <1>11, <3>1, <3>2, <3>3
    <3>4. CASE i = at + 1
      BY <1>11, <3>1, <3>2, <3>4
    <3>5. CASE i > at + 1
      BY <2>2, <3>1, <3>2, <3>5
    <3>6. i <= at \/ i = at + 1 \/ i > at + 1
      BY <3>2
    <3>. QED
      BY <3>3, <3>4, <3>5, <3>6, Zenon
  <2>. QED
    BY <2>3, <2>4
<1>14. Insert(sorted, x) = front \o after
  BY <1>16 DEF front
<1>. QED
  <2>1. Places(front \o after, sorted, x, at)
    BY <1>3, <1>4, <1>5, <1>13 DEF Places, n
  <2>. QED
    BY <1>14, <2>1

\* A dispatch put there leaves the queue in order.
LEMMA PlacingSorts ==
  ASSUME NEW sorted \in Seq(Queued), NEW x \in Queued, NEW queue, NEW at,
         Sorted(sorted), Places(queue, sorted, x, at)
  PROVE  Sorted(queue)
<1>. DEFINE n == Len(sorted)
<1>1. n \in Nat /\ DOMAIN sorted = 1..n /\ \A k \in 1..n : sorted[k] \in Queued
  BY LenProperties
<1>2. at \in 0..n /\ DOMAIN queue = 1..n + 1
  BY LenProperties DEF Places
<1>3. \A i \in 1..n + 1 : queue[i] = IF i <= at THEN sorted[i] ELSE IF i = at + 1 THEN x ELSE sorted[i - 1]
  BY DEF Places
<1>4. \A i, j \in 1..n : i < j => InOrder(sorted[i], sorted[j])
  BY <1>1 DEF Sorted
<1>5. ASSUME NEW i \in 1..n, i <= at PROVE InOrder(sorted[i], x)
  <2>1. at \in 1..n /\ ~ Precedes(x, sorted[at])
    BY <1>1, <1>2, <1>5 DEF Places
  <2>5. x.value \in Int /\ x.id \in Int /\ sorted[at].value \in Int /\ sorted[at].id \in Int
    BY <1>1, <2>1 DEF Queued
  <2>2. InOrder(sorted[at], x)
    BY <2>1, <2>5 DEF Precedes, InOrder
  <2>3. i = at \/ InOrder(sorted[i], sorted[at])
    BY <1>1, <1>4, <1>5, <2>1
  <2>4. sorted[i] \in Queued /\ sorted[at] \in Queued
    BY <1>1, <2>1
  <2>. QED
    BY <2>2, <2>3, <2>4 DEF InOrder, Queued
<1>6. ASSUME NEW k \in 1..n, k > at PROVE InOrder(x, sorted[k])
  <2>1. Precedes(x, sorted[k])
    BY <1>6 DEF Places
  <2>2. sorted[k] \in Queued
    BY <1>1
  <2>. QED
    BY <2>1, <2>2 DEF Precedes, InOrder, Queued
<1>. SUFFICES ASSUME NEW i \in 1..n + 1, NEW j \in 1..n + 1, i < j
              PROVE  InOrder(queue[i], queue[j])
  BY <1>2 DEF Sorted
<1>. HIDE DEF n
<1>7. CASE j <= at
  <2>1. queue[i] = sorted[i] /\ queue[j] = sorted[j] /\ i \in 1..n /\ j \in 1..n
    BY <1>1, <1>2, <1>3, <1>7
  <2>. QED
    BY <1>4, <2>1
<1>8. CASE i <= at /\ j = at + 1
  <2>1. queue[i] = sorted[i] /\ queue[j] = x /\ i \in 1..n
    BY <1>1, <1>2, <1>3, <1>8
  <2>. QED
    BY <1>5, <1>8, <2>1
<1>9. CASE i <= at /\ j > at + 1
  <2>1. queue[i] = sorted[i] /\ queue[j] = sorted[j - 1] /\ i \in 1..n /\ j - 1 \in 1..n /\ i < j - 1
    BY <1>1, <1>2, <1>3, <1>9
  <2>. QED
    BY <1>4, <2>1
<1>10. CASE i = at + 1
  <2>1. queue[i] = x /\ queue[j] = sorted[j - 1] /\ j - 1 \in 1..n /\ j - 1 > at
    BY <1>1, <1>2, <1>3, <1>10
  <2>. QED
    BY <1>6, <2>1
<1>11. CASE i > at + 1
  <2>1. /\ queue[i] = sorted[i - 1] /\ queue[j] = sorted[j - 1]
        /\ i - 1 \in 1..n /\ j - 1 \in 1..n /\ i - 1 < j - 1
    BY <1>1, <1>2, <1>3, <1>11
  <2>. QED
    BY <1>4, <2>1
<1>. QED
  BY <1>1, <1>2, <1>7, <1>8, <1>9, <1>10, <1>11

\* It adds that dispatch to those the queue holds.
LEMMA PlacingArranges ==
  ASSUME NEW n \in Nat, NEW given, NEW sorted, NEW queue, NEW at,
         Arranges(sorted, given, n), Places(queue, sorted, given[n + 1], at)
  PROVE  Arranges(queue, given, n + 1)
<1>1. sorted \in Seq(Queued) /\ Len(sorted) = n
  BY DEF Arranges
<1>2. PICK p \in [1..n -> 1..n] : /\ \A i, j \in 1..n : p[i] = p[j] => i = j
                                  /\ \A k \in 1..n : \E i \in 1..n : p[i] = k
                                  /\ \A i \in 1..n : sorted[i] = given[p[i]]
  BY DEF Arranges
<1>3. /\ at \in 0..n /\ queue \in Seq(Queued) /\ Len(queue) = n + 1
      /\ \A i \in 1..n + 1 : queue[i] = IF i <= at THEN sorted[i]
                                        ELSE IF i = at + 1 THEN given[n + 1] ELSE sorted[i - 1]
  BY <1>1 DEF Places
<1>. DEFINE q == [i \in 1..n + 1 |-> IF i <= at THEN p[i] ELSE IF i = at + 1 THEN n + 1 ELSE p[i - 1]]
<1>4. ASSUME NEW i \in 1..n + 1
      PROVE  /\ i <= at => i \in 1..n /\ p[i] \in 1..n
             /\ i > at + 1 => i - 1 \in 1..n /\ p[i - 1] \in 1..n
  <2>1. i <= at => i \in 1..n
    BY <1>3
  <2>2. i > at + 1 => i - 1 \in 1..n
    BY <1>3
  <2>. QED
    BY <1>2, <2>1, <2>2
<1>5. q \in [1..n + 1 -> 1..n + 1]
  <2>. SUFFICES ASSUME NEW i \in 1..n + 1
                PROVE  (IF i <= at THEN p[i] ELSE IF i = at + 1 THEN n + 1 ELSE p[i - 1]) \in 1..n + 1
    OBVIOUS
  <2>. QED
    BY <1>3, <1>4
<1>6. ASSUME NEW i \in 1..n + 1, NEW j \in 1..n + 1, q[i] = q[j] PROVE i = j
  <2>1. ASSUME NEW a \in 1..n + 1
        PROVE  /\ a <= at => q[a] = p[a] /\ a \in 1..n /\ q[a] # n + 1
               /\ a = at + 1 => q[a] = n + 1
               /\ a > at + 1 => q[a] = p[a - 1] /\ a - 1 \in 1..n /\ q[a] # n + 1
    BY <1>3, <1>4
  <2>. HIDE DEF q
  <2>2. \A a, b \in 1..n : p[a] = p[b] => a = b
    BY <1>2
  <2>3. at \in Int /\ i \in Int /\ j \in Int
    BY <1>3
  <2>4. CASE i <= at /\ j <= at
    BY <1>6, <2>1, <2>2, <2>4
  <2>5. CASE i <= at /\ j > at + 1
    <3>1. i = j - 1
      BY <1>6, <2>1, <2>2, <2>5
    <3>. QED
      BY <2>3, <2>5, <3>1
  <2>6. CASE i > at + 1 /\ j <= at
    <3>1. i - 1 = j
      BY <1>6, <2>1, <2>2, <2>6
    <3>. QED
      BY <2>3, <2>6, <3>1
  <2>7. CASE i > at + 1 /\ j > at + 1
    <3>1. i - 1 = j - 1
      BY <1>6, <2>1, <2>2, <2>7
    <3>. QED
      BY <2>3, <3>1
  <2>8. CASE i = at + 1 \/ j = at + 1
    <3>1. q[i] = n + 1 /\ q[j] = n + 1
      BY <1>6, <2>1, <2>8
    <3>2. ~ (i <= at) /\ ~ (i > at + 1) /\ ~ (j <= at) /\ ~ (j > at + 1)
      BY <2>1, <3>1
    <3>. QED
      BY <2>3, <3>2
  <2>. QED
    BY <2>3, <2>4, <2>5, <2>6, <2>7, <2>8
<1>7. ASSUME NEW k \in 1..n + 1 PROVE \E i \in 1..n + 1 : q[i] = k
  <2>1. CASE k = n + 1
    <3>1. at + 1 \in 1..n + 1 /\ ~ (at + 1 <= at)
      BY <1>3
    <3>. QED
      BY <2>1, <3>1
  <2>2. CASE k \in 1..n
    <3>1. PICK i \in 1..n : p[i] = k
      BY <1>2, <2>2
    <3>2. CASE i <= at
      <4>1. i \in 1..n + 1 /\ q[i] = k
        BY <3>1, <3>2
      <4>. QED
        BY <4>1
    <3>3. CASE i > at
      <4>1. i + 1 \in 1..n + 1 /\ ~ (i + 1 <= at) /\ i + 1 # at + 1 /\ (i + 1) - 1 = i
        BY <1>3, <3>3
      <4>2. q[i + 1] = k
        BY <3>1, <4>1
      <4>. QED
        BY <4>1, <4>2
    <3>. QED
      BY <1>3, <3>2, <3>3
  <2>. QED
    BY <2>1, <2>2
<1>8. ASSUME NEW i \in 1..n + 1 PROVE queue[i] = given[q[i]]
  <2>1. CASE i <= at
    <3>1. queue[i] = sorted[i] /\ q[i] = p[i] /\ i \in 1..n
      BY <1>3, <1>4, <2>1
    <3>. QED
      BY <1>2, <3>1
  <2>2. CASE i = at + 1
    <3>1. queue[i] = given[n + 1] /\ q[i] = n + 1
      BY <1>3, <2>2
    <3>. QED
      BY <3>1
  <2>3. CASE i > at + 1
    <3>2. ~ (i <= at) /\ i # at + 1
      BY <1>3, <2>3
    <3>1. queue[i] = sorted[i - 1] /\ q[i] = p[i - 1] /\ i - 1 \in 1..n
      BY <1>3, <1>4, <2>3, <3>2
    <3>. QED
      BY <1>2, <3>1
  <2>. QED
    BY <1>3, <2>1, <2>2, <2>3
<1>. HIDE DEF q
<1>. QED
  BY <1>3, <1>5, <1>6, <1>7, <1>8 DEF Arranges

\* The outer loop inserts one dispatch after the other.
LEMMA PrioritySteps ==
  ASSUME NEW given \in Seq(Queued)
  PROVE  \E t : /\ t[0] = <<>>
                /\ \A k \in 1..Len(given) : t[k - 1] \in Seq(Queued) /\ t[k] = Insert(t[k - 1], given[k])
                /\ DispatchPriority(given) = t[Len(given)]
<1>. DEFINE n == Len(given)
            V == Seq(Queued)
            step == [p \in V \X Queued |-> Insert(p[1], p[2])]
            f == CHOOSE g : g = [s \in SUBSET (1..n) |->
                                   IF s = {} THEN <<>> ELSE Insert(g[s \ {Max(s)}], given[Max(s)])]
<1>1. n \in Nat /\ given \in [1..n -> Queued] /\ DOMAIN given = 1..n
  BY LenProperties
<1>2. DispatchPriority(given) = f[1..n]
  BY <1>1 DEF DispatchPriority, FoldLeft, MapThenFoldSet
<1>3. <<>> \in V
  OBVIOUS
<1>4. step \in [V \X Queued -> V] /\ \A a \in V, b \in Queued : step[<<a, b>>] = Insert(a, b)
  <2>1. \A a \in V, b \in Queued : Insert(a, b) \in V
    BY InsertPlaces DEF Places
  <2>. QED
    BY <2>1
<1>. HIDE DEF n, step, V
<1>5. PICK g : IsFold(g, n, given, <<>>, step, V)
  BY <1>1, <1>3, <1>4, FoldExists, Zenon
<1>6. g \in [SUBSET (1..n) -> V]
  BY <1>5 DEF IsFold
<1>7. \A s \in SUBSET (1..n) : g[s] = IF s = {} THEN <<>> ELSE Insert(g[s \ {Max(s)}], given[Max(s)])
  <2>. SUFFICES ASSUME NEW s \in SUBSET (1..n), s # {}
                PROVE  g[s] = Insert(g[s \ {Max(s)}], given[Max(s)])
    BY <1>5 DEF IsFold
  <2>1. Max(s) \in 1..n /\ g[s] = step[<<g[s \ {Max(s)}], given[Max(s)]>>]
    BY <1>5 DEF IsFold
  <2>2. g[s \ {Max(s)}] \in V /\ given[Max(s)] \in Queued
    BY <1>1, <1>6, <2>1
  <2>. QED
    BY <1>4, <2>1, <2>2
<1>8. g = [s \in SUBSET (1..n) |-> IF s = {} THEN <<>> ELSE Insert(g[s \ {Max(s)}], given[Max(s)])]
  BY <1>6, <1>7
<1>9. f = [s \in SUBSET (1..n) |-> IF s = {} THEN <<>> ELSE Insert(f[s \ {Max(s)}], given[Max(s)])]
  BY <1>8
<1>. HIDE DEF f
<1>10. f[{}] = <<>>
  BY <1>9
<1>11. ASSUME NEW k \in 1..n, f[1..k - 1] \in V PROVE f[1..k] = step[<<f[1..k - 1], given[k]>>]
  <2>1. /\ 1..k \in SUBSET (1..n) /\ 1..k # {}
        /\ Max(1..k) = k /\ (1..k) \ {k} = 1..k - 1
    BY <1>1, FirstIndices
  <2>2. f[1..k] = Insert(f[1..k - 1], given[k])
    BY <1>9, <2>1
  <2>3. given[k] \in Queued
    BY <1>1
  <2>. QED
    BY <1>4, <1>11, <2>2, <2>3
<1>. DEFINE t == Steps(f, n)
<1>12. Accumulates(t, n, given, <<>>, step, V)
  <2>1. FoldsPrefixes(f, n, given, <<>>, step, V)
    BY <1>10, <1>11 DEF FoldsPrefixes
  <2>2. n \in Nat /\ given \in [1..n -> Queued] /\ step \in [V \X Queued -> V]
    BY <1>1, <1>4
  <2>. QED
    BY <1>3, <2>1, <2>2, FoldSteps, Zenon
<1>13. t[n] = f[1..n]
  <2>1. n \in 0..n
    BY <1>1
  <2>. QED
    BY <2>1 DEF Steps
<1>. HIDE DEF t
<1>14. ASSUME NEW k \in 1..n PROVE t[k - 1] \in V /\ t[k] = Insert(t[k - 1], given[k])
  <2>1. k - 1 \in 0..n /\ given[k] \in Queued
    BY <1>1
  <2>2. t \in [0..n -> V] /\ t[k] = step[<<t[k - 1], given[k]>>]
    BY <1>12 DEF Accumulates
  <2>3. t[k - 1] \in V
    BY <2>1, <2>2
  <2>. QED
    BY <1>4, <2>1, <2>2, <2>3
<1>15. t[0] = <<>>
  BY <1>12 DEF Accumulates
<1>16. DispatchPriority(given) = t[n]
  BY <1>2, <1>13
<1>. QED
  BY <1>14, <1>15, <1>16 DEF n, V

\* The rule on dispatch priority answers with the dispatches it was given, by falling
\* value and by rising id among equals, for queues of any length and in any order.
THEOREM PriorityIsSorted ==
  ASSUME NEW given \in Seq(Queued)
  PROVE  /\ Sorted(DispatchPriority(given))
         /\ Arranges(DispatchPriority(given), given, Len(given))
<1>. DEFINE n == Len(given)
<1>1. n \in Nat /\ given \in [1..n -> Queued]
  BY LenProperties
<1>2. PICK t : /\ t[0] = <<>>
               /\ \A k \in 1..n : t[k - 1] \in Seq(Queued) /\ t[k] = Insert(t[k - 1], given[k])
               /\ DispatchPriority(given) = t[n]
  BY PrioritySteps
<1>. HIDE DEF n
<1>. DEFINE S == {k \in Nat : k <= n => Sorted(t[k]) /\ Arranges(t[k], given, k)}
<1>3. 0 \in S
  <2>1. Sorted(<<>>)
    BY DEF Sorted
  <2>2. Arranges(<<>>, given, 0)
    <3>1. <<>> \in Seq(Queued) /\ Len(<<>>) = 0 /\ 1..0 = {}
      OBVIOUS
    <3>2. [i \in 1..0 |-> i] \in [1..0 -> 1..0]
      OBVIOUS
    <3>. QED
      BY <3>1, <3>2 DEF Arranges
  <2>. QED
    BY <1>2, <2>1, <2>2
<1>4. ASSUME NEW k \in S PROVE k + 1 \in S
  <2>. SUFFICES ASSUME k + 1 <= n PROVE Sorted(t[k + 1]) /\ Arranges(t[k + 1], given, k + 1)
    OBVIOUS
  <2>1. k \in Nat /\ k + 1 \in 1..n /\ (k + 1) - 1 = k
    BY <1>1
  <2>2. Sorted(t[k]) /\ Arranges(t[k], given, k)
    BY <1>1, <2>1
  <2>3. t[k] \in Seq(Queued) /\ t[k + 1] = Insert(t[k], given[k + 1]) /\ given[k + 1] \in Queued
    BY <1>1, <1>2, <2>1
  <2>4. PICK at : Places(t[k + 1], t[k], given[k + 1], at)
    BY <2>3, InsertPlaces
  <2>5. Sorted(t[k + 1])
    BY <2>2, <2>3, <2>4, PlacingSorts
  <2>6. Arranges(t[k + 1], given, k + 1)
    BY <2>1, <2>2, <2>4, PlacingArranges
  <2>. QED
    BY <2>5, <2>6
<1>5. S = Nat
  <2>1. S \subseteq Nat
    OBVIOUS
  <2>. HIDE DEF S
  <2>. QED
    BY <1>3, <1>4, <2>1, NatSets
<1>6. n \in S
  BY <1>1, <1>5
<1>. QED
  BY <1>1, <1>2, <1>6 DEF n
=============================================================================
