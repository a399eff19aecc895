SPECIFICATION GatewaySpec
CONSTANTS
  a1 = a1
  a2 = a2
  Addr = {a1, a2}
  Names = {n1}
  Lists <- AllLists
  UpstreamPorts <- Asked
  Settings <- AllSettings
  LowPort = 2
  TopPort = 4
  RangeMin = 3
  RangeMax = 4
  DefaultPort = 2
  MaxOpen = 1
INVARIANTS VisitedAsMeant DialedAsPermitted
