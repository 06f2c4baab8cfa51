SPECIFICATION MCSpec
CONSTANTS
  n1 = n1
  n2 = n2
  p1 = p1
  p2 = p2
  Slices = {"leases", "ages"}
  None = None
  Node = {n1, n2}
  Peer = {p1, p2}
  Ip4 = {1, 2, 3}
  ServerIp = 1
  Configs <- Pools
  Ip6Prefix = 64
  ServerIp6 = 1
  Offset <- MCOffset
  TTL = 2
  TicksPerSec = 1
  Windows = FALSE
  Faults = {}
  ForeignRows <- Empty
  ClockSets <- Empty
  MaxTime = 3
  Source <- DualSource
  LeaseTTL = 1
  SweepEvery = 1
  Net <- OneNet
  AutoApprove = TRUE
  Allowlist <- Empty
  Label = {"pi", "pi-n1", "pi-2"}
  Candidates <- MCCandidates
  ServerName = "srv"
  Wanted = {"pi"}
  MaxPeers = 24
INVARIANT RouteToHolder
INVARIANT StaleIsBounded
