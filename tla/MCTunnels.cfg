SPECIFICATION Spec
CONSTANTS
  Proc = {p1, p2}
  Subdomains = {s1, s2}
  Ports = {t1, t2}
  NoKey = NoKey
  MaxTunnels = 1
  MinDuration = 1
  MaxDuration = 2
  MaxAttempts = 2
  MaxRetries = 1
  Second = 2
  Minute = 2
  Wide = 7
  Durations = {1, 2, 3}
  Extensions = {1}
  MaxTime = 3
  MaxMinutes = 3
  MaxIds = 2
SYMMETRY Interchangeable
INVARIANTS TypeOK LifetimeCap TTLCoversRecord CleanRevocationIsFinal InFlightOK
CHECK_DEADLOCK FALSE
