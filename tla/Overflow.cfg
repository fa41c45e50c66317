CONSTANTS
  MaxInt = 7
  MaxItems = 2
SPECIFICATION TotalSpec
CHECK_DEADLOCK FALSE
INVARIANT TotalIsOrderValue
