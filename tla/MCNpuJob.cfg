SPECIFICATION FairSpec
CONSTANTS
  Jobs = {a, b}
  NoJob = NoJob
  Debugger = Debugger
  MaxPieces = 2
  Rounds = 3
  BypassSoftReset = FALSE
INVARIANTS
  TypeOK
  QueueHoldsLiveJobs
  
PROPERTIES
  
  SubmitReturns
