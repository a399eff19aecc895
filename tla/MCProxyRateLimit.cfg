SPECIFICATION ProxySpec
CONSTANTS
  Worker = {w1, w2}
  RateLimit = 2
  Window = 1
  MaxTime = 4
  MaxCalls = 12
INVARIANTS ProxyTypeOK ProxyBound RefusedOnlyAtLimit
CHECK_DEADLOCK FALSE
SYMMETRY Interchangeable
