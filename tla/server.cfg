\* Two decisions, one of them under a blank tenant, and a reader; a batch of two, one signal, crash or listener failure.
SPECIFICATION FairSpec
CONSTANTS
  Allowed = {a1, a2}
  Denied = {}
  Unaddressed = {a2}
  Readers = {r1}
  BatchSize = 2
  None = None
  MaxDisruptions = 1
INVARIANTS
  TypeOK
  CleanStop
  ViewsAddUp
  OncePerLife
PROPERTIES
  ImplementsParts
  NothingHangs
  EveryDecisionDelivered
\* The system may rest when every request is answered and every job settled.
CHECK_DEADLOCK FALSE
