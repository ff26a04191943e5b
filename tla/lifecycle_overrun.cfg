SPECIFICATION FairSpec
CONSTANTS
  Replicas = {r1, r2}
  Items = {i1}
  Ttl = 2
  MaxRun = 3
  None = None
INVARIANTS OverlapNeedsOverrun
PROPERTIES ReleaseFreesOwnLock OverdueIsDeleted LaterPhasesRun
