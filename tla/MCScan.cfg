SPECIFICATION ListingSpec
CONSTANTS
  Proc = {p1, p2}
  Subdomains = {s1, s2, s3}
  Ports = {t1}
  NoKey = NoKey
  MaxTunnels = 1
  MinDuration = 1
  MaxDuration = 2
  MaxAttempts = 1
  MaxRetries = 0
  Second = 1
  Minute = 1
  Wide = 1000
  Durations = {1}
  Extensions = {1}
  MaxTime = 0
  MaxMinutes = 2
  MaxIds = 3
SYMMETRY Interchangeable
INVARIANTS ListComplete ScanCountBound
CHECK_DEADLOCK FALSE
