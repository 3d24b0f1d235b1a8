SPECIFICATION EitherSpec
CONSTANTS
  c1 = c1
  c2 = c2
  c3 = c3
  c4 = c4
  Clients = {c1, c2, c3, c4}
  Unseen = {c4}
  TotalRounds = 4
  SampleNum = 3
  MinReceived = 2
  EvalFreq = 2
  Asyn = TRUE
  Staleness = 1
  AfterReceiving = FALSE
  Overselection = FALSE
  EvalAll = TRUE
  PreAdded = FALSE
  GlobalEval = TRUE
  EarlyStop = TRUE
  JoinInfo = FALSE
  Timed = FALSE
  MaxFailure = 0
  MaxLoss = 0
  MaxCrash = 0
INVARIANTS
  SamplerNeverStarved
  ContributorsSound
  OneVotePerClient
  NothingCountedTwice
  NoRoundTooMany
