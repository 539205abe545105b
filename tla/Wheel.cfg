SPECIFICATION Spec
CONSTANTS
  tick_ns = 2
  kFineSlots = 4
  kSlotDepth = 2
  c1 = c1
  c2 = c2
  Ids <- TwoChildren
  Timeouts = {2, 3}
  Start = 1
  Inactive = Inactive
  MaxLag = 3
  Horizon = 13
SYMMETRY ChildSymmetry
INVARIANTS DueWhenVisited NoneOvertaken
CHECK_DEADLOCK FALSE
