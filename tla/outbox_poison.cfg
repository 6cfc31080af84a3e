\* A job stored under a blank tenant beside one that is not, as many as a poll reads,
\* and a publisher that always accepts.
SPECIFICATION FairSpec
CONSTANTS
  Jobs = {j1, j2}
  Unaddressed = {j1}
  Workers = {w1}
  Batch = 1
  MaxAttempts = 2
  Outcomes = {"ok"}
  MaxDisruptions = 0
  Horizon = 2
  HistoryCap = 2
PROPERTIES
  BacklogMoves
