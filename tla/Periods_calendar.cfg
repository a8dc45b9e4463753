SPECIFICATION Spec
CONSTANTS
  Years = {2000, 2023, 2024, 2100}
  MaxMonths = 2
INVARIANTS PairsInRange PeriodsApart RankingCovers
CHECK_DEADLOCK FALSE
