SPECIFICATION Spec
CONSTANTS
  kMaxInstruments = 1
  ActiveExchanges = 1
  InstrumentLot <- OneInstrument
  kFallbackLotSize = 1
  BookLot <- UnitBooks
  RoundsDown = {}
  AutoApprove = 0
  HardBlock = 0
  MaxOrderLots <- NoLimit
  MaxNetLots <- NoLimit
  MaxNotional = 0
  MarginOk = {TRUE}
  kMaxChildOrders = 1
  Liquidity = "deep"
  kMaxParentOrders = 3
  kMaxTotalChildren = 4
  kMaxChildrenPerParent = 2
  kGatewayQueue = 4
  kRejectQueue = 1
  SlotOverflow = FALSE
  Signals <- PositionSignals
  UnwindModes = {}
  MaxSignals = 3
  MaxCancels = 1
PROPERTIES ReduceOnlyNeverFlips
CHECK_DEADLOCK FALSE
