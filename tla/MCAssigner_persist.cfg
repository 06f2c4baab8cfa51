SPECIFICATION Spec
CONSTANTS
  n1 = n1
  n2 = n2
  n3 = n3
  p1 = p1
  p2 = p2
  None = None
  Node = {n1, n2}
  Peer = {p1, p2}
  Ip4 = {1, 2, 3, 4}
  ServerIp = 1
  Configs <- OneConfig
  Ip6Prefix = None
  ServerIp6 = 4
  Offset <- MCOffset
  TTL = 5
  TicksPerSec = 2
  Windows = FALSE
  Faults = {}
  ForeignRows <- NoRows
  ClockSets = {0}
  MaxTime = 7
INVARIANT FileHoldsBindings
INVARIANT LastSeenLagIsBounded
PROPERTY RestartKeepsAddresses
