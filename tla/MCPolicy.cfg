SPECIFICATION MCSpec
CONSTANTS
  None = None
  Task = {t1, t2}
  Name = {news, nas}
  GfwList = {news}
  Overlay = {nas}
  Ip = {domestic, server}
  China = {domestic}
  Server = server
  CleanDns = clean
  Port = {p1, p2}
  Files <- MCFiles
  MaxGens = 2
  MaxFailures = 1
  Confs <- MCConfs
  Users = {u1, u2}
  Automatic = Automatic
  Proxy = Proxy
  Part = Part
  Corrupt = Corrupt
  MaxFaults = 2
  MaxCrashes = 2
  MaxEdits = 1
  Key = {k1, k2}
  MAX_ENTRIES = 1
  MIN_TTL = 1
  MAX_TTL = 2
  DEFAULT_TTL = 1
  Ttls = {None, 0, 2, 3}
  TicksPerSec = 2
  MaxReplays = 2
  Inputs <- MCInputs
  Answers <- MCAnswers
  Ttl = 70000
INVARIANTS
  AnswerIsRouted
  RoutesAreOnTheBooks
  SplitIsRespected
  OwnQueriesPass
  LifetimeIsKept
  WireIsRead
PROPERTIES
  QueriesEnd
  JournalIsHealed
  PromiseKept
CHECK_DEADLOCK FALSE
