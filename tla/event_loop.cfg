SPECIFICATION LoopSpec
CONSTANTS
  Threaded = {t1, t2}
  Uploads = {u1, u2}
  PoolSize = 2
  Nobody = Nobody
INVARIANTS LoopTypeOK
PROPERTIES RequestEnds HangLasts
CHECK_DEADLOCK FALSE
