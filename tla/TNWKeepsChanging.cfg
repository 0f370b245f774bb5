CONSTANTS
  OLDER = 1
  Start = 2
  MaxTime = 30
SPECIFICATION Spec
INVARIANT GotOldEnough
