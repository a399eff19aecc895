SPECIFICATION AgentFairSpec
CONSTANTS
  Proc = {p1, p2}
  Subdomains = {}
  Ports = {t1}
  NoKey = NoKey
  MaxTunnels = 2
  MinDuration = 1
  MaxDuration = 2
  MaxAttempts = 2
  MaxRetries = 0
  Second = 1
  Minute = 1
  Wide = 1000
  Durations = {1}
  Extensions = {1}
  MaxTime = 0
  MaxMinutes = 2
  MaxIds = 2
  Conn = {c1}
  NoPort = NoPort
  Faults = TRUE
  MaxCrashes = 1
INVARIANTS AgentTypeOK NoServiceAfterRevocation
PROPERTIES OrphanListenerReaped RequestsFinish
CHECK_DEADLOCK FALSE
