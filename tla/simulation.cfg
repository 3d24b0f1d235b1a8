SPECIFICATION FairSpec
CONSTANTS
  c1 = c1
  c2 = c2
  c3 = c3
  Clients = {c1, c2, c3}
  SampleNum = 2
  MinReceived = 1
  TotalRounds = 4
  EvalFreq = 1
  Staleness = 1
  Overselection = FALSE
  GlobalEval = TRUE
  TimeUp = {TRUE, FALSE}
  AfterReceiving = {TRUE, FALSE}
  Budget = 2
  Cost <- Costs
INVARIANTS
  TypeOK
  NothingInThePast
  AggregatedInOrder
  TurnsConserved
PROPERTY
  EndsFinished
CHECK_DEADLOCK FALSE
