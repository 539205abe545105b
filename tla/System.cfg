SPECIFICATION FairSpec
CONSTANTS
  kMaxInstruments = 1
  ActiveExchanges = 2
  InstrumentLot <- Lot1
  kFallbackLotSize = 1
  BookLot <- MixedBooks
  RoundsDown = {}
  AutoApprove = 0
  HardBlock = 0
  MaxOrderLots <- NoLimit
  MaxNetLots <- NoLimit
  MaxNotional = 0
  MarginOk = {TRUE}
  kMaxChildOrders = 2
  Liquidity = "thin"
  kMaxParentOrders = 2
  kMaxTotalChildren = 2
  kMaxChildrenPerParent = 2
  kGatewayQueue = 1
  kRejectQueue = 1
  SlotOverflow = FALSE
  Signals <- BothSides
  UnwindModes = {TRUE}
  LateTimeouts = FALSE
  MaxSignals = 2
  MaxCancels = 1
INVARIANTS BooksAgree PositionMatchesVenue PoolIntegrity
PROPERTIES NoneStranded
CHECK_DEADLOCK FALSE
