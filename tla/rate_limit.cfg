SPECIFICATION LimiterFairSpec
CONSTANTS
  Calls = {r1, r2, r3}
  Limit = 3
  Window = 4
INVARIANTS TwiceTheLimitAtMost NoLifetimeHasACause
PROPERTY WindowEnds
