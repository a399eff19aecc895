SPECIFICATION Spec
CONSTANTS
  Proc = {p1, p2}
  Subdomains = {s1}
  Ports = {}
  NoKey = NoKey
  MaxTunnels = 1
  MinDuration = 1
  MaxDuration = 3
  MaxAttempts = 1
  MaxRetries = 0
  Second = 1
  Minute = 1
  Wide = 1000
  Durations = {1}
  Extensions = {1}
  MaxTime = 0
  MaxMinutes = 3
  MaxIds = 1
INVARIANTS RevokedStaysRevoked
CHECK_DEADLOCK FALSE
