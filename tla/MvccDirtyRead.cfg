SPECIFICATION Spec
CONSTANTS
  Key = {1}
  Val = {v}
  MaxTxn = 3
  MaxOps = 2
  MaxFail = 1
INVARIANTS NoDirtyRead
CHECK_DEADLOCK FALSE
