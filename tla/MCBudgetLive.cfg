SPECIFICATION Spec
CONSTANTS
  k1 = k1
  k2 = k2
  s1 = s1
  s2 = s2
  NoKey = NoKey
  Keys = {k1, k2}
  Slots = {s1, s2}
  Limit <- MCLimit
  Costs = {0, 1}
  MaxCost = 1
  LastTick = 1
  MonthOf <- MCMonthOf
  Cut <- CutInUTC
  Keep = 0
  FollowUpTo <- LiveFollow
PROPERTY UnblockedByNewMonth
