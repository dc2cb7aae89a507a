SPECIFICATION FairSpec
CONSTANTS
  OppNodes <- MCOppNodes
  PvtmRows <- MCPvtmRows
  MbistCells <- MCMbistCells
  MaxMv = 1000
  ColdDelta = 50
  LowTemp = 0
  Hysteresis = 5000
  OtpSize = 128
  Clients = {a, b}
  Importers = {b}
  FuseSet <- MCFuseSet
  Followed <- MCFollowed
  Temps <- MCTemps
  BootMhz = 200
  BootMv = 900
  InitialMhz = 900
  SuspendMhz = 200
  FreqRequests = {700}
  MaxCmd = 2
  MaxVotes = 2
  MaxFaults = 1
INVARIANTS
  TypeOK
  PolicyIsBsp
  ReferencesBalanced
PROPERTIES
  VoltageFirst
  PoweredDownWhenIdle
CHECK_DEADLOCK FALSE
