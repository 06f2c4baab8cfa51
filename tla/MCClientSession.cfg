SPECIFICATION CSpec
CONSTANTS
  x = x
  y = y
  n1 = n1
  n2 = n2
  None = None
  Lease <- Leases
  Nets = {n1, n2}
  ServerNets = {n2}
  Configs <- AllConfigs
  MaxTries = 2
  ChanCap = 1
  MaxFlight = 2
  MaxMoves = 1
  MaxDups = 1
  MaxIds = 2
INVARIANTS
  OneAddressEverywhere
  RecordedRoutesAreInKernel
  OnlyConfirmedAddressSends
PROPERTIES
  AssignmentDecides
  AddressConverges
