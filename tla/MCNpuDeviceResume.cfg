SPECIFICATION Spec
CONSTANTS
  OppNodes <- MCOppNodes
  PvtmRows <- MCPvtmRows
  MbistCells <- MCMbistCells
  MaxMv = 1000
  ColdDelta = 50
  LowTemp = 0
  Hysteresis = 5000
  OtpSize = 128
  Clients = {a}
  Importers = {}
  FuseSet <- MCResumed
  Followed <- MCResumed
  Temps <- MCTemps
  BootMhz = 200
  BootMv = 900
  InitialMhz = 900
  SuspendMhz = 200
  FreqRequests = {200, 700}
  MaxCmd = 0
  MaxVotes = 1
  MaxFaults = 0
PROPERTIES
  VoltageBeforeFrequency
CHECK_DEADLOCK FALSE
