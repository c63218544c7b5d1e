SPECIFICATION Spec
CONSTANTS
  Key = {1}
  Val = {v}
  MaxTxn = 2
  MaxOps = 1
  MaxFail = 1
PROPERTIES RepeatableRead
CHECK_DEADLOCK FALSE
