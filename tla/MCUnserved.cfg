SPECIFICATION AgentFairSpec
CONSTANTS
  Proc = {p1}
  Subdomains = {}
  Ports = {t1}
  NoKey = NoKey
  MaxTunnels = 2
  MinDuration = 1
  MaxDuration = 2
  MaxAttempts = 2
  MaxRetries = 0
  Second = 1
  Minute = 1
  Wide = 1000
  Durations = {1}
  Extensions = {1}
  MaxTime = 2
  MaxMinutes = 2
  MaxIds = 2
  Conn = {c1}
  NoPort = NoPort
  Faults = FALSE
  MaxCrashes = 0
PROPERTIES EveryTunnelServed
CHECK_DEADLOCK FALSE
