\* Three processes, two tenants, two interruptions.
SPECIFICATION FairSpec
CONSTANTS
  Processes = {p1, p2, p3}
  Tenants = {t1, t2}
  Turbines = 2
  Vessels = 1
  None = None
  MaxDisruptions = 2
INVARIANTS
  TypeOK
  MigratedWhole
  SeededOnce
PROPERTIES
  ServesItsTenant
\* Servers that all serve have nothing left to do here.
CHECK_DEADLOCK FALSE
