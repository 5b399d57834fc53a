SPECIFICATION NodeSpec
CONSTANTS
  h1 = h1
  h2 = h2
  h3 = h3
  None = None
  ExternalHost = ExternalHost
  CommandLists <- SmallLists
  JettyTries = 2
  Retries = 2
  HodRings <- MCRings
  Master = Master
  MaxConnect = 1
  MaxLosses = 2
  MaxLate = 1
  ServerRequests = 4
  ServerEvents = 4
  PortRings <- TwoRings
  ServerLow = 1
  ServerHigh = 3
  Low = 1
  High = 4
  Wanted = 2
  PortRetries = 2
  ExitCodes <- ThreeCodes
  Obedient = FALSE
  MaxTerms = 20
  IdlenessLimit = 0
  MaxTime = 1
  LoopEvents = 5
INVARIANTS NoLeftovers ConnectionsBounded LateBounded PortsApart EndsAreTrue
PROPERTIES UpMeansAnswered NothingLost StartsEnd WaitsEnd
CHECK_DEADLOCK FALSE
