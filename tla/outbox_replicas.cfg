\* Two processes over one table.
SPECIFICATION Spec
CONSTANTS
  Jobs = {j1, j2}
  Unaddressed = {}
  Workers = {w1, w2}
  Batch = 2
  MaxAttempts = 2
  Outcomes = {"ok", "error"}
  MaxDisruptions = 1
  Horizon = 2
  HistoryCap = 3
SYMMETRY Symmetry
INVARIANTS
  TypeOK
  VersionCountsOutcomes
  SucceededWasPublished
  GivenUpAfterRefusals
  CopiesAgree
PROPERTIES
  ImplementsLifecycle
