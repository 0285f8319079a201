SPECIFICATION Spec
CONSTANTS
  Models = {"priced", "unpriced"}
  Prices <- MCPrices
  Lines = {"text", "null", "u1", "u2"}
  Usage <- MCUsage
  MaxLines = 2
  MaxRead = 3
INVARIANTS TypeOK BilledAsReported CostWithinTwo PartialIsTrue BufferBounded NoHalfMatch
PROPERTIES EndsWhenClientLeaves KeepsPromise
\* The exchange ends.
CHECK_DEADLOCK FALSE
