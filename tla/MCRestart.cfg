SPECIFICATION AgentFairSpec
CONSTANTS
  Proc = {p1}
  Subdomains = {}
  Ports = {t1, t2, t3}
  NoKey = NoKey
  MaxTunnels = 2
  MinDuration = 1
  MaxDuration = 2
  MaxAttempts = 2
  MaxRetries = 0
  Second = 1
  Minute = 1
  Wide = 1000
  Durations = {1}
  Extensions = {}
  MaxTime = 1
  MaxMinutes = 2
  MaxIds = 3
  Conn = {}
  NoPort = NoPort
  Faults = FALSE
  MaxCrashes = 2
PROPERTIES EveryTunnelServed
CHECK_DEADLOCK FALSE
