SPECIFICATION RateSpec
CONSTANTS
  Req = {r1}
  RPM = 2
  Window = 2
  MaxTime = 5
  MaxCalls = 7
  MaxCuts = 0
  MaxEvictions = 0
INVARIANTS RejectedOnlyAboveRPM
CHECK_DEADLOCK FALSE
