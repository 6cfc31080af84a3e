\* Two handlers and clients that send their requests again: an allowed, a denied and a
\* rejected one; one replay of a recorded request, one restart or failure.
SPECIFICATION RetrySpec
CONSTANTS
  Requests = {r1, r2, r3}
  Allowed = {r1}
  Rejected = {r3}
  Keys = {r1, r2, r3}
  KeyOf <- OwnKey
  None = None
  Handlers = {h1, h2}
  SeedIds = 1
  MaxDisruptions = 1
  MaxReplays = 1
INVARIANTS
  TypeOK
  DecisionsAreWhole
  RecordedOnce
  AnswersHold
PROPERTIES
  ImplementsDecisionLog
  EveryCallEnds
  RetriesSucceed
