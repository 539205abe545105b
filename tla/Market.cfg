SPECIFICATION MarketSpec
CONSTANTS
  ActiveExchanges = 2
  Sequenced = {0}
  MaxStale = 2
  TimeBits = 4
  MaxSeq = 3
  MaxTime = 3
INVARIANTS ValidIsComplete NotOlderThanStamp UsesFreshData FreshestUsed
