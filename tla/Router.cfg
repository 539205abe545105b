SPECIFICATION EngineSpec
CONSTANTS
  kMaxInstruments = 1
  ActiveExchanges = 2
  InstrumentLot <- Lot2
  kFallbackLotSize = 1
  BookLot <- Lots24
  RoundsDown = {3}
  kMaxChildOrders = 4
  Liquidity = "thin"
  Depth = 2
  TickSize <- Tick2
  MinQty <- TwoLots
  MaxQty <- FourLots
  AdjUnit = 2
  Prices = {1, 2, 3}
  Qtys = {1, 3}
  Targets = {1, 3, 6}
  Limits = {0, 3, 4}
  Adjustments <- Costs
  FillRates <- Rates
INVARIANTS EngineTypeOK SlicesSorted KeepsContract CheapestFirst WithinLimit LegsTradable
