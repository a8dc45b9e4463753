SPECIFICATION Spec
CONSTANTS
  Groups <- FiveGroups
  Amounts <- FewAmounts
  TopN = 2
  provinsiCanonical <- Names
  cityToProvinceMap <- Cities
  Fakfak = {"fakfak"}
  FakfakProvince = "Papua Barat"
  MaxRefresh = 1
  Refreshed <- AllAlike
  Faults = TRUE
  None = None
INVARIANTS BreakdownAddsUp ProvincesAddUp ChannelsAddUp GrowthExtremes
