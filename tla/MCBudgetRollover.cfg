SPECIFICATION Spec
CONSTANTS
  k1 = k1
  k2 = k2
  s1 = s1
  s2 = s2
  NoKey = NoKey
  Keys = {k1}
  Slots = {s1, s2}
  Limit <- MCLimit
  Costs = {0, 1}
  MaxCost = 1
  LastTick = 2
  MonthOf <- MCMonthOf
  Cut <- CutAhead
  Keep = 0
  FollowUpTo <- MCFollow
INVARIANT HoldsThisMonth
