\* Three instants.
SPECIFICATION Spec
CONSTANTS
  Times = {1, 2, 3}
  Undecided = Undecided
INVARIANTS
  DetachedIsDenied
\* One question is asked.
CHECK_DEADLOCK FALSE
