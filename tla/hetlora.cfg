SPECIFICATION Spec
CONSTANTS
  c1 = c1
  c2 = c2
  c3 = c3
  Clients = {c1, c2, c3}
  InitRanks <- Fleets
  MaxRank = 6
  RankMin = 2
  RankMax = 7
  Decay = 75
  TotalRounds = 6
  EvalFreq = 2
  Vlm = FALSE
INVARIANTS
  RanksAgree
  NoEmptyRows
