\* A process is started for two tenants in turn.
SPECIFICATION FairSpec
CONSTANTS
  Processes = {p1}
  Tenants = {t1, t2}
  Turbines = 2
  Vessels = 1
  None = None
  MaxDisruptions = 1
PROPERTIES
  EveryProcessServes
\* A server that serves has nothing left to do here.
CHECK_DEADLOCK FALSE
