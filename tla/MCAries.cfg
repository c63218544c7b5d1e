SPECIFICATION Spec
CONSTANTS
  Page = {p}
  Op = {"insert"}
  Failure = {"process"}
  MaxTxn = 2
  MaxOps = 1
  MaxCkpt = 1
  MaxCrash = 1
INVARIANTS TypeOK CommittedKept RecLSNCovers
CHECK_DEADLOCK FALSE
