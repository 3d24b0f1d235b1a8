SPECIFICATION FairSpec
CONSTANTS
  c1 = c1
  c2 = c2
  a = a
  b = b
  Clients = {c1, c2}
  Layers = {a, b}
  Rank <- Ranks
  TotalRounds = 3
  RankMin = 2
  Gamma = 50
  GlobalPrune = FALSE
  Modes = {TRUE, FALSE}
  GlobalSelect = TRUE
  EvalFreq = 1
  Cost <- Costs
  UpBudget <- Uplinks
  DownBudget <- Downlinks4
INVARIANTS
  RankFloor
  Agreement
  ExactUnlessPruned
PROPERTIES
  NeverGrows
  Completes
CHECK_DEADLOCK FALSE
