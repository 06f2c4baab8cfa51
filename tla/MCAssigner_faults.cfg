SPECIFICATION Spec
CONSTANTS
  n1 = n1
  n2 = n2
  n3 = n3
  p1 = p1
  p2 = p2
  None = None
  Node = {n1, n2}
  Peer = {p1}
  Ip4 = {1, 2, 3, 4}
  ServerIp = 1
  Configs <- ShrinkPool
  Ip6Prefix = 64
  ServerIp6 = None
  Offset <- MCOffset
  TTL = 1
  TicksPerSec = 1
  Windows = TRUE
  Faults = {"write", "read", "corrupt"}
  ForeignRows <- EditedRows
  ClockSets <- NoTimes
  MaxTime = 2
INVARIANT OneOwnerPerAddress
