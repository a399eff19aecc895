SPECIFICATION ApiSpec
CONSTANTS
  Proc = {p1}
  Subdomains = {s1, s2}
  Ports = {t1}
  NoKey = NoKey
  MaxTunnels = 2
  MinDuration = 0
  MaxDuration <- NoCap
  MaxAttempts = 2
  MaxRetries = 1
  Second = 2
  Minute = 2
  Wide = 1000
  Durations <- Asked
  Extensions = {1, 2}
  MaxTime = 3
  MaxMinutes = 3
  MaxIds = 2
INVARIANTS TTLCoversRecord NoEffectBehindRefusal ConfirmedStands StatusDocumented
PROPERTIES RegistrySpec
CHECK_DEADLOCK FALSE
SYMMETRY Interchangeable
