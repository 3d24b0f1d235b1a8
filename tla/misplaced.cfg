SPECIFICATION Spec
CONSTANTS
  c1 = c1
  c2 = c2
  a = a
  b = b
  Clients = {c1, c2}
  Layers = {a, b}
  Rank <- Ranks
  TotalRounds = 3
  RankMin = 2
  Gamma = 50
  GlobalPrune = FALSE
  Modes = {FALSE}
  GlobalSelect = TRUE
  EvalFreq = 1
  Cost <- Costs
  UpBudget <- Uplinks
  DownBudget <- Downlinks4
INVARIANT
  InPlace
CHECK_DEADLOCK FALSE
