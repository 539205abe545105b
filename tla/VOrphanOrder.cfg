SPECIFICATION SysSpec
CONSTANTS
  kMaxInstruments = 1
  ActiveExchanges = 1
  InstrumentLot <- Lot1
  kFallbackLotSize = 1
  BookLot <- Books1
  RoundsDown = {}
  AutoApprove = 0
  HardBlock = 0
  MaxOrderLots <- NoLimit
  MaxNetLots <- NoLimit
  MaxNotional = 0
  MarginOk = {TRUE}
  kMaxChildOrders = 1
  Liquidity = "deep"
  kMaxParentOrders = 2
  kMaxTotalChildren = 2
  kMaxChildrenPerParent = 2
  kGatewayQueue = 2
  kRejectQueue = 1
  SlotOverflow = FALSE
  Signals <- OneMaker
  UnwindModes = {}
  LateTimeouts = TRUE
  MaxSignals = 1
  MaxCancels = 1
INVARIANTS NoOrphanOrders
CHECK_DEADLOCK FALSE
