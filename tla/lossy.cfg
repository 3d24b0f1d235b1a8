SPECIFICATION FairSpec
CONSTANTS
  c1 = c1
  c2 = c2
  c3 = c3
  c4 = c4
  Clients = {c1, c2}
  Unseen = {}
  TotalRounds = 3
  SampleNum = 1
  MinReceived = 1
  EvalFreq = 1
  Asyn = TRUE
  Staleness = 1
  AfterReceiving = TRUE
  Overselection = FALSE
  EvalAll = TRUE
  PreAdded = TRUE
  GlobalEval = FALSE
  EarlyStop = FALSE
  JoinInfo = FALSE
  Timed = TRUE
  MaxFailure = 2
  MaxLoss = 1
  MaxCrash = 1
INVARIANTS
  OneTaskPerClient
  RestartsCounted
PROPERTIES
  NeverHangs
CHECK_DEADLOCK FALSE
