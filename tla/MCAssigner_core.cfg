SPECIFICATION Spec
CONSTANTS
  n1 = n1
  n2 = n2
  n3 = n3
  p1 = p1
  p2 = p2
  None = None
  Node = {n1, n2, n3}
  Peer = {p1, p2}
  Ip4 = {1, 2, 3, 4}
  ServerIp = 1
  Configs <- OneConfig
  Ip6Prefix = 64
  ServerIp6 = 4
  Offset <- MCOffset
  TTL = 1
  TicksPerSec = 1
  Windows = FALSE
  Faults = {}
  ForeignRows <- NoRows
  ClockSets <- NoTimes
  MaxTime = 3
INVARIANT ExhaustedMeansNone
PROPERTY AddressIsStable
PROPERTY ReclaimIsLastResort
