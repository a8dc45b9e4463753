SPECIFICATION FairSpec
CONSTANTS
  SalesCalls = {s1}
  OptionsCalls = {o1}
  Plain = {p1}
  Geo = {p1}
  Hero = hero
  Npl = npl
  Pool = 2
  MaxRefresh = 1
  Faults = TRUE
INVARIANTS FanOutTypeOK Accounts AnswerComplete OptionsNeverNull RowsOfOneVersion
PROPERTIES EveryCallReturns
