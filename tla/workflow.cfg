\* The end of the work, and of the instants, is no deadlock.
\* Two campaigns, four instants, permits of at most two steps, a slot of three and a
\* budget of four in integers up to seven.
SPECIFICATION Spec
CONSTANTS
  MaxInt = 7
  PermitTime = 2
  Campaigns = {c1, c2}
  Times = {1, 2, 3, 4}
  Windows <- MCWindows
  Shifts <- MCShifts
  Forecasts <- MCForecasts
  Requests <- MCRequests
  Lines <- MCLines
  Capacity = 3
  Budget = 4
  Manifests <- MCManifests
  VesselCapacity = 3
  InspectionDue = 3
  QualifiedUntil = 4
  CrewMember = CrewMember
  NoName = NoName
  Checksums <- MCChecksums
  Prices = {4, 5}
  None = None
SYMMETRY Symmetry
INVARIANTS
  TypeOK
  NothingSharedTwice
  SlotKept
  SumsFit
  WorkInsideWindow
  WorkIsPlanned
  ClosedIsDone
CHECK_DEADLOCK FALSE
