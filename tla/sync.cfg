SPECIFICATION FairSpec
CONSTANTS
  c1 = c1
  c2 = c2
  c3 = c3
  c4 = c4
  Clients = {c1, c2, c3}
  Unseen = {}
  TotalRounds = 3
  SampleNum = 3
  MinReceived = 3
  EvalFreq = 1
  Asyn = FALSE
  Staleness = 0
  AfterReceiving = FALSE
  Overselection = FALSE
  EvalAll = TRUE
  PreAdded = TRUE
  GlobalEval = FALSE
  EarlyStop = TRUE
  JoinInfo = TRUE
  Timed = FALSE
  MaxFailure = 0
  MaxLoss = 0
  MaxCrash = 0
INVARIANTS
  TypeOK
  NoSlotLost
  FinalEvalComplete
PROPERTIES
  ImplementsSyncRounds
  Terminates
