SPECIFICATION Spec
CONSTANTS
  Proc = {p1}
  Subdomains = {s1}
  Ports = {t1}
  NoKey = NoKey
  MaxTunnels = 1
  MinDuration = 1
  MaxDuration = 2
  MaxAttempts = 1
  MaxRetries = 0
  Second = 1
  Minute = 1
  Wide = 8
  Durations = {1}
  Extensions = {1, 12}
  MaxTime = 2
  MaxMinutes = 14
  MaxIds = 1
INVARIANTS CappedTunnelsEnd
CHECK_DEADLOCK FALSE
