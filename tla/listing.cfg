\* Three rows of two tenants, one update, pages of one and two rows.  A walk that
\* is over over a full table with no update left stops: no deadlock check.
SPECIFICATION Spec
CONSTANTS
  t1 = t1
  open = open
  Ids = {1, 2, 3}
  Tenants = {t1, t2}
  Statuses = {open, closed}
  Times = {1, 2}
  AnyStatus = AnyStatus
  None = None
  Requests <- MCRequests
  DefaultLimit = 2
  MaxLimit = 3
  MaxChanges = 1
INVARIANTS
  TypeOK
  PageMatchesTotal
  WalkMissesNothing
CHECK_DEADLOCK FALSE
