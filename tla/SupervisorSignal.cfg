SPECIFICATION SupSpec
CONSTANTS
  N = 2
  MaxStarts = 3
INVARIANTS AllSignalled
CHECK_DEADLOCK FALSE
