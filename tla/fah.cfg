SPECIFICATION Spec
CONSTANTS
  c1 = c1
  c2 = c2
  c3 = c3
  Clients = {c1, c2, c3}
  TotalRounds = 4
  SampleNum = 3
  WarmupRounds = 2
  RMin = 1
  RMax = 5
  InitRank = 3
  RankCap <- Caps
  LambdaDec = 1
  LambdaInc = 1
  Grain = 2
INVARIANTS
  TypeOK
  RanksReady
  MeasuredAsAssigned
  RanksFeasible
  FasterGetMore
PROPERTY
  ImplementsSyncRounds
