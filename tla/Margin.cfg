SPECIFICATION MarginSpec
CONSTANTS
  Equity0 = 10
  Deltas = {2}
  RestReports <- Reports
  Profits <- LossAndGain
  MaxCalls <- CallBounds
INVARIANTS PublishedUnlessDisturbed
