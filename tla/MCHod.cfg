SPECIFICATION AllSpec
CONSTANTS
  u1 = u1
  jobA = jobA
  h1 = h1
  h2 = h2
  hod = hod
  grid = grid
  dictA = dictA
  master = master
  ring1 = ring1
  Clients = {master, ring1}
  Threads = {t1, t2}
  Users = {u1}
  Jobs = {jobA}
  Hosts = {h1, h2}
  Ids = {hod, grid}
  Dicts = {dictA}
  MaxTries = 2
  MaxCalls = 2
  Wanted <- TheirWants
  Ok = Ok
  None = None
  d1 = d1
  d2 = d2
  j1 = j1
  j2 = j2
  p1 = p1
  p2 = p2
  NoJob = NoJob
  Nodes = {n1, n2, n3}
  External = {}
  WorkersPerRing = 1
  MaxMasterFailures = 2
  MaxLosses = 2
  NoNode = NoNode
  ExternalHost = ExternalHost
  ConfDirs <- MCDirs
  ConfFiles <- MCFiles
  ConfHosts <- MCHosts
  ConfUsers <- MCUsers
  ConfStamps <- MCStamps
  ConfOptions <- HodOptions
  ConfSection <- HodSection
  ConfDef <- HodDefs
  ConfInputs <- HodInputs
  TypeOptions <- AllTypes
  TypeSections <- AllSections
  TypeDef <- AllDefs
  TypesInputs <- AllInputs
  OptionLists <- MCLists
  NoLetter = NoLetter
  NoFile = NoFile
INVARIANTS EndsAsReported NoOrphan RingSound ConfigKept ConfigMeant LettersServed ExitCodeIsOfLastRun
PROPERTIES OwnClustersOnly ImplementsCluster AcknowledgedStays ImplementsDirectory
SYMMETRY Symmetry
CHECK_DEADLOCK FALSE
