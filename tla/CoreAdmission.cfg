SPECIFICATION Spec
CONSTANTS
  kMaxInstruments = 1
  ActiveExchanges = 1
  InstrumentLot <- OneInstrument
  kFallbackLotSize = 1
  BookLot <- UnitBooks
  RoundsDown = {3}
  AutoApprove = 1
  HardBlock = 5
  MaxOrderLots <- LotsLimit
  MaxNetLots <- NetLimit
  MaxNotional = 3
  MarginOk = {TRUE, FALSE}
  kMaxChildOrders = 2
  Liquidity = "deep"
  kMaxParentOrders = 2
  kMaxTotalChildren = 1
  kMaxChildrenPerParent = 2
  kGatewayQueue = 4
  kRejectQueue = 1
  SlotOverflow = TRUE
  Signals <- AdmissionSignals
  UnwindModes = {TRUE, FALSE}
  MaxSignals = 3
  MaxCancels = 1
INVARIANTS PositionWithinLimit
PROPERTIES UnwindOnlyShrinks RefusedLeavesNoTrace
CHECK_DEADLOCK FALSE
