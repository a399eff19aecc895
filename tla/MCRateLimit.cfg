SPECIFICATION RateSpec
CONSTANTS
  Req = {r1, r2}
  RPM = 2
  Window = 2
  MaxTime = 4
  MaxCalls = 6
  MaxCuts = 1
  MaxEvictions = 1
INVARIANTS RateTypeOK AtMostRPM SilenceForgives
CHECK_DEADLOCK FALSE
SYMMETRY Interchangeable
