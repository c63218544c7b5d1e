SPECIFICATION Spec
CONSTANTS
  Page = {p}
  Op = {"insert"}
  Failure = {"process"}
  MaxTxn = 1
  MaxOps = 1
  MaxCkpt = 0
  MaxCrash = 1
INVARIANTS RollbackDurable
CHECK_DEADLOCK FALSE
