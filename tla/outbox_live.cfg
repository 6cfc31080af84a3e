\* One process and a backlog larger than its batch: a failing publisher, backoffs of
\* two and four seconds, one disruption.
SPECIFICATION FairSpec
CONSTANTS
  Jobs = {j1, j2}
  Unaddressed = {}
  Workers = {w1}
  Batch = 1
  MaxAttempts = 3
  Outcomes = {"ok", "error"}
  MaxDisruptions = 1
  Horizon = 4
  HistoryCap = 3
INVARIANTS
  DuplicatesNeedDisruption
PROPERTIES
  BackoffRespected
  EveryJobSettles
