\* Two handlers, a decision after a restart.
SPECIFICATION Spec
CONSTANTS
  Requests = {r1, r2, r3}
  Allowed = {r1}
  Rejected = {r3}
  Keys = {r1, r2, r3}
  KeyOf <- OwnKey
  None = None
  Handlers = {h1, h2}
  SeedIds = 1
  MaxDisruptions = 1
  MaxReplays = 1
INVARIANTS
  SurvivorsDoNotBlock
\* The run ends when every request is recorded and no client asks again.
CHECK_DEADLOCK FALSE
