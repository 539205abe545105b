SPECIFICATION FairSpec
CONSTANTS
  TotalQty = 9
  NumSlices = 4
  Duration = 10
  SizeJitter = 90
  IntervalJitter = 30
  MaxLag = 2
INVARIANTS SlicesCover
PROPERTIES SlicesPositive Completes
CHECK_DEADLOCK FALSE
