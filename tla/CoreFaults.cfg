SPECIFICATION Spec
CONSTANTS
  kMaxInstruments = 1
  ActiveExchanges = 2
  InstrumentLot <- OneInstrument
  kFallbackLotSize = 1
  BookLot <- MixedBooks
  RoundsDown = {}
  AutoApprove = 0
  HardBlock = 0
  MaxOrderLots <- NoLimit
  MaxNetLots <- NoLimit
  MaxNotional = 0
  MarginOk = {TRUE}
  kMaxChildOrders = 2
  Liquidity = "thin"
  kMaxParentOrders = 2
  kMaxTotalChildren = 2
  kMaxChildrenPerParent = 2
  kGatewayQueue = 1
  kRejectQueue = 1
  SlotOverflow = FALSE
  Signals <- FaultSignals
  UnwindModes = {}
  MaxSignals = 2
  MaxCancels = 2
INVARIANTS TypeOK PoolIntegrity NoParkedParent TimersMatch NoOverfill
PROPERTIES NoSilentDeath ImplementsLedger
CHECK_DEADLOCK FALSE
