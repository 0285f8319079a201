SPECIFICATION Spec
CONSTANTS
  m1 = m1
  Models = {m1}
  Any = Any
  Day = 2
  Offset = 1
  Month = 4
  Window = 1
  Keep = 2
  MaxLag = 1
  MaxRows = 3
  LastTick = 4
  Filters <- MCFilters
  PageSize = 1
  MaxFetches = 2
INVARIANTS TypeOK ReadInFull WindowKept DayIsItsHistory MonthKept
\* Time and fetches are bounded.
CHECK_DEADLOCK FALSE
