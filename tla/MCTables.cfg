SPECIFICATION MCSpec
CONSTANTS
  None = None
  Peer = {p1, p2, p3, p4}
  RoutePeers = {p1, p2}
  NamePeers = {p1, p2, p3}
  Horizon = 3
  RouteHorizon = 2
  Addr = {1, 2, 3}
  Net <- MCNet
  AutoApprove = FALSE
  Allowlist <- MCAllowlist
  RouteTTL = 1
  tag1 = tag1
  tag2 = tag2
  TunIp = {a4}
  Tag = {tag1, tag2}
  Label <- MCLabel
  Candidates <- MCCandidates
  ServerName = "srv"
  NameTTL = 1
  MaxPeers = 3
  ClientIp = {c1}
  PoolStart = 1
  PoolEnd = 4
  ServerIp = 2
  NatTTL = 1
  Base = 4
  MAX_ROUTES = 2
  MAX_PEERS = 2
  MAX_NAME_LEN = 2
  Bytes = {0, 1, 2, 4, 33, 255}
  Messages <- MCMessages
  Bits = 3
  PeerIps = {0, 2, 7}
  Pool6 = Pool6
  ReservedSets = {{}, {2, 6}}
  MeshChoices <- MCMesh
  Datagrams <- MCDatagrams
  DcidLen = 8
  PnLens = {1, 2, 3, 4}
  IpBits = 3
  MaxLines = 3
  Chars = {"a", "-", ".", "*", "_"}
  MaxChars = 3
  MaxHost = 5
  MaxLabel = 5
  NodeLabel <- MCNode
  Extras <- MCExtras
  Plan4 <- MCPlan4
  Plan6 <- MCPlan6
  Profile = {home}
  Drafts <- MCDrafts
  Bundles <- MCBundles
  MaxBirths = 2
INVARIANTS
  LastWordDecides
  NamesConsistent
  ReplyGoesToSender
  ControlIsUnderstood
  HandoutsAreTunHosts
  WrapIsUndone
  LookupsAreRight
  DeviceFollowsAssignment
  IdentityIsNotInherited
PROPERTIES
  FirstComeKeeps
  VerdictsKept
CHECK_DEADLOCK FALSE
