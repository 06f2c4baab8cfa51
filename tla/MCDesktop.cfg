SPECIFICATION DSpec
CONSTANTS
  h1 = h1
  d1 = d1
  c1 = c1
  c2 = c2
  b1 = b1
  b2 = b2
  p1 = p1
  None = None
  Profile = {p1}
  Bin = {b1, b2}
  Client = {c1, c2}
  SessionHelper = {h1}
  Daemon = d1
  DaemonBin = b1
  Sites <- AllSites
  JanitorTicks = 2
INVARIANTS
  WatcherNeverPrompts
  OneClientPerHelper
  DisconnectIsFinal
  NeverAimsAtForeign
PROPERTIES
  RevokedHelperLeaves
  DeadClientIsRetriedOnWindows
