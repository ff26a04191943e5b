SPECIFICATION Spec
CONSTANTS
  Requests = {r1, r2, r3}
  Bundles = {none, k1}
  NoBundle = none
  Free = Free
  Window = 3
  Skew = 1
  MaxTx = 1
  MaxTime = 5
INVARIANTS TwinsAreApart LaterSubmissionIsApart
CHECK_DEADLOCK FALSE
